------------------------------- MODULE Varena -------------------------------
(***************************************************************************)
(* The arena allocator (src/src/ds/varena.c) every other part of the       *)
(* compiler takes its memory from.  An arena is cut into nested frames;    *)
(* the last bytes of a frame hold a header with the extent of the frame    *)
(* below it, and blocks are cut from the frame's other end:                *)
(*                                                                         *)
(*      top ->|          free          |<- header ->|<- bottom             *)
(*   ...blocks|                        |            |                      *)
(*                                                                         *)
(* Header and blocks share one array of bytes, so a size or a comparison   *)
(* off by one makes somebody's store land in somebody else's memory.  The  *)
(* model keeps, for every byte, who wrote it last.                         *)
(*                                                                         *)
(* Requests are small next to SIZE_MAX (the compiler asks for fixed sizes  *)
(* and for names of a source line), so size_t does not wrap here.          *)
(***************************************************************************)
EXTENDS Integers, Sequences, FiniteSets

CONSTANTS
  Capacity,    (* bytes of the arena                                       *)
  FrameSize,   (* sizeof(struct varena_frame)                              *)
  MaxRequest   (* bound on the bytes asked for by one call                 *)

ASSUME CapacityAssumption == Capacity \in Nat \ {0}
ASSUME FrameSizeAssumption == FrameSize \in Nat \ {0}
ASSUME MaxRequestAssumption == MaxRequest \in Nat

VARIABLES
  top,      (* arena->top: where the next block of the current frame starts *)
  bottom,   (* arena->bottom: where the current frame ends                 *)
  bytes,    (* who wrote each byte of arena->bytes last                    *)
  frames,   (* history: what the header of each open frame was given       *)
  blocks    (* history: the blocks whose frame is still open               *)

arenaVars == <<top, bottom, bytes, frames, blocks>>

-----------------------------------------------------------------------------
Addresses == 0 .. Capacity - 1
Offsets   == 0 .. Capacity

\* A block is the bytes lo .. hi - 1, in the frame opened as number depth.
Block  == [lo : Offsets, hi : Offsets, depth : Nat]
Header == [top : Offsets, bottom : Offsets]
Extent(b) == b.lo .. b.hi - 1

\* Who can have written a byte: nobody, a claim, the owner of a block.
Nobody == [by |-> "nobody"]
ClaimOf(depth) == [by |-> "claim", depth |-> depth]
OwnerOf(b)     == [by |-> "owner", block |-> b]
Writers == [by : {"nobody"}] \cup [by : {"claim"}, depth : Nat]
             \cup [by : {"owner"}, block : Block]

Write(area, w) == [a \in Addresses |-> IF a \in area THEN w ELSE bytes[a]]

Depth == Len(frames)

\* varena_frame_top: where the header of the frame ending at "end" starts.
FrameTop(end) == end - FrameSize

HeaderArea(end) == FrameTop(end) .. end - 1

\* Where frame number d ends: the frame on top of it starts there.
FrameEnd(d) == IF d = Depth THEN bottom ELSE frames[d + 1].bottom

-----------------------------------------------------------------------------
\* varena_create
ArenaInit ==
  /\ top = 0
  /\ bottom = 0
  /\ bytes = [a \in Addresses |-> Nobody]
  /\ frames = <<>>
  /\ blocks = {}

\* Faults: a claim without room for its header; one that lets the frame
\* share the bytes the frame below has free.
ClaimedNoHeader(n) == bottom + n
ClaimedFromTop(n)  == top + n + FrameSize

\* The end of a frame with n bytes for its blocks.
Claimed(n) == bottom + n + FrameSize

\* varena_claim: the new frame follows the current one, and its header is
\* stored in its own last bytes.
Claim(n) ==
  /\ n # 0
  /\ Claimed(n) <= Capacity
  /\ top' = bottom
  /\ bottom' = Claimed(n)
  /\ frames' = Append(frames, [top |-> top, bottom |-> bottom])
  /\ bytes' = Write(HeaderArea(bottom'), ClaimOf(Depth + 1))
  /\ UNCHANGED blocks

\* Faults: the frame is full only once its header is used up; what is in use
\* is not counted.
AtCapacityLate(n) == top + n > bottom
AtCapacityForgetsTop(n) == n > FrameTop(bottom)

\* frame_at_capacity of varena_alloc
AtCapacity(n) == top + n > FrameTop(bottom)

\* varena_alloc: a block of n bytes, possibly none.
Alloc(n) ==
  /\ bottom # 0
  /\ ~AtCapacity(n)
  /\ blocks' = blocks \cup {[lo |-> top, hi |-> top + n, depth |-> Depth]}
  /\ top' = top + n
  /\ UNCHANGED <<bottom, bytes, frames>>

\* The owner of a block stores in it, now or long after it got it.
Store(b) ==
  /\ bytes' = Write(Extent(b), OwnerOf(b))
  /\ UNCHANGED <<top, bottom, frames, blocks>>

\* Fault: the two ends of the frame below are mistaken for one another.
SwappedHeader(h) == [top |-> h.bottom, bottom |-> h.top]

\* What varena_disclaim takes from a header that reads h.
Restored(h) == h

\* varena_disclaim: back to the frame below, as the header describes it.  A
\* header somebody stored in reads as anything.
Disclaim ==
  /\ bottom >= FrameSize
  /\ \E h \in Header :
       /\ (\A a \in HeaderArea(bottom) : bytes[a] = ClaimOf(Depth)) => h = frames[Depth]
       /\ top' = Restored(h).top
       /\ bottom' = Restored(h).bottom
  /\ frames' = SubSeq(frames, 1, Depth - 1)
  /\ blocks' = {b \in blocks : b.depth < Depth}
  /\ UNCHANGED bytes

ArenaNext ==
  \/ \E n \in 0 .. MaxRequest : Claim(n) \/ Alloc(n)
  \/ \E b \in blocks : Store(b)
  \/ Disclaim

ArenaSpec == ArenaInit /\ [][ArenaNext]_arenaVars

-----------------------------------------------------------------------------
(***************************************************************************)
(* Properties                                                              *)
(***************************************************************************)

\* Every variable has its type; the current frame lies within the arena.
ArenaTypeOK ==
  /\ top \in Offsets
  /\ bottom \in Offsets
  /\ bytes \in [Addresses -> Writers]
  /\ frames \in Seq(Header)
  /\ blocks \subseteq Block

\* No two blocks varena_alloc handed out and whose frames are open share a
\* byte, in whatever order claims, allocations and disclaims came.
BlocksDisjoint ==
  \A b, c \in blocks : b # c => Extent(b) \cap Extent(c) = {}

\* The header of every open frame is as varena_claim left it, whatever the
\* owners of blocks store in them ("one varena_frame stored on each frame and
\* should never be overwritten", varena.c:92).
HeadersIntact ==
  \A d \in 1 .. Depth : \A a \in HeaderArea(FrameEnd(d)) : bytes[a] = ClaimOf(d)

\* varena_disclaim leaves the arena exactly as the matching varena_claim found
\* it, less what was allocated meanwhile in the frame.
DisclaimUndoesClaim ==
  [][Len(frames') < Len(frames) =>
       /\ top' = frames[Depth].top
       /\ bottom' = frames[Depth].bottom]_arenaVars

\* What an owner stored in its block stays until the block's frame is
\* disclaimed: neither another owner nor a claim writes there.
BlocksKeepTheirData ==
  [][\A b \in blocks \cap blocks' : \A a \in Extent(b) :
       bytes[a] = OwnerOf(b) => bytes'[a] = OwnerOf(b)]_arenaVars
=============================================================================
