---------------------------- MODULE MemoryProofs ----------------------------
(***************************************************************************)
(* Proofs about the memory everything else is kept in: Varena, for every   *)
(* size of arena, header and request, and Vqueue, for every capacity and   *)
(* every set of elements.                                                  *)
(***************************************************************************)
EXTENDS Varena, Vqueue, TLAPS

-----------------------------------------------------------------------------
(***************************************************************************)
(* The arena.  The argument is one of geometry: frames lie one after the   *)
(* other, and in each of them come first its blocks, then free bytes, then *)
(* its header.  Start, Used and FrameEnd are the three borders of a frame; *)
(* every action moves only those of the current frame, the last one.       *)
(***************************************************************************)

\* Where frame number d starts, and where its blocks end.
Start(d) == frames[d].bottom
Used(d)  == IF d = Depth THEN top ELSE frames[d + 1].top

\* The borders of each frame are in order, the last one within the arena.
FramesOrdered ==
  \A d \in 1 .. Depth :
    /\ Start(d) \in Nat /\ Used(d) \in Nat /\ FrameEnd(d) \in Nat
    /\ Start(d) <= Used(d)
    /\ Used(d) + FrameSize <= FrameEnd(d)
    /\ FrameEnd(d) <= Capacity

\* Frames follow one another; without a frame the arena is as it was created.
FramesApart ==
  /\ \A d, e \in 1 .. Depth : d < e => FrameEnd(d) <= Start(e)
  /\ Depth = 0 => top = 0 /\ bottom = 0
  /\ Depth > 0 => frames[1] = [top |-> 0, bottom |-> 0]

\* A block is in the used part of its frame.
BlocksInFrames ==
  \A b \in blocks :
    /\ b.depth \in 1 .. Depth
    /\ Start(b.depth) <= b.lo /\ b.lo <= b.hi /\ b.hi <= Used(b.depth)

Layout == FramesOrdered /\ FramesApart /\ BlocksInFrames

ArenaInv == ArenaTypeOK /\ Layout /\ HeadersIntact /\ BlocksDisjoint

-----------------------------------------------------------------------------
\* The current frame is the last one: its borders are top and bottom.
LEMMA CurrentFrame ==
  ASSUME ArenaTypeOK, Layout
  PROVE  /\ Depth \in Nat
         /\ Depth > 0 => Used(Depth) = top /\ FrameEnd(Depth) = bottom
         /\ top \in Nat /\ bottom \in Nat /\ top <= bottom /\ bottom <= Capacity
         /\ bottom # 0 => Depth > 0
<1>1. Depth \in Nat
  BY DEF ArenaTypeOK, Depth
<1>2. Depth > 0 => Used(Depth) = top /\ FrameEnd(Depth) = bottom
  BY <1>1 DEF Used, FrameEnd
<1>3. bottom # 0 => Depth > 0
  BY <1>1 DEF Layout, FramesApart
<1>4. top \in Nat /\ bottom \in Nat /\ bottom <= Capacity
  BY CapacityAssumption DEF ArenaTypeOK, Offsets
<1>5. top <= bottom
  <2>1. CASE Depth = 0
    BY <1>4, <2>1 DEF Layout, FramesApart
  <2>2. CASE Depth # 0
    <3>1. Depth \in 1 .. Depth
      BY <1>1, <2>2
    <3>2. Used(Depth) + FrameSize <= FrameEnd(Depth)
      BY <3>1 DEF Layout, FramesOrdered
    <3>3. QED
      BY <1>1, <1>2, <1>4, <2>2, <3>2, FrameSizeAssumption
  <2>3. QED
    BY <2>1, <2>2
<1>6. QED
  BY <1>1, <1>2, <1>3, <1>4, <1>5

\* A block lies apart from the header of every frame.
LEMMA BlocksMissHeaders ==
  ASSUME ArenaTypeOK, Layout, NEW b \in blocks, NEW d \in 1 .. Depth,
         NEW a \in HeaderArea(FrameEnd(d))
  PROVE  a \notin Extent(b)
<1>1. /\ Depth \in Nat /\ FrameSize \in Nat
      /\ b.depth \in 1 .. Depth
      /\ b.lo \in Nat /\ b.hi \in Nat
      /\ Start(b.depth) <= b.lo /\ b.hi <= Used(b.depth)
  BY CurrentFrame, FrameSizeAssumption, CapacityAssumption
     DEF Layout, BlocksInFrames, ArenaTypeOK, Block, Offsets
<1>2. /\ FrameEnd(d) \in Nat /\ Start(d) \in Nat /\ Used(d) \in Nat
      /\ Start(d) <= Used(d) /\ Used(d) + FrameSize <= FrameEnd(d)
  BY DEF Layout, FramesOrdered
<1>3. /\ FrameEnd(b.depth) \in Nat /\ Start(b.depth) \in Nat /\ Used(b.depth) \in Nat
      /\ Used(b.depth) + FrameSize <= FrameEnd(b.depth)
  BY <1>1 DEF Layout, FramesOrdered
<1>4. /\ d < b.depth => FrameEnd(d) <= Start(b.depth)
      /\ b.depth < d => FrameEnd(b.depth) <= Start(d)
  BY <1>1 DEF Layout, FramesApart
<1>5. a \in Int /\ FrameEnd(d) - FrameSize <= a /\ a < FrameEnd(d)
  BY <1>1, <1>2 DEF HeaderArea, FrameTop
<1>6. CASE d = b.depth
  BY <1>1, <1>2, <1>5, <1>6 DEF Extent
<1>7. CASE d < b.depth
  BY <1>1, <1>2, <1>3, <1>4, <1>5, <1>7 DEF Extent
<1>8. CASE b.depth < d
  BY <1>1, <1>2, <1>3, <1>4, <1>5, <1>8 DEF Extent
<1>9. QED
  BY <1>1, <1>6, <1>7, <1>8

\* Every block lies below the current top, in its frame's used part.
LEMMA BlocksBelowTop ==
  ASSUME ArenaTypeOK, Layout, NEW b \in blocks
  PROVE  /\ b.depth \in 1 .. Depth /\ b.lo \in Nat /\ b.hi \in Nat
         /\ Start(b.depth) <= b.lo /\ b.lo <= b.hi /\ b.hi <= Used(b.depth)
         /\ b.hi <= top
<1>1. /\ b.depth \in 1 .. Depth /\ b.lo \in Nat /\ b.hi \in Nat
      /\ Start(b.depth) <= b.lo /\ b.lo <= b.hi /\ b.hi <= Used(b.depth)
  BY DEF Layout, BlocksInFrames, ArenaTypeOK, Block, Offsets
<1>2. /\ Depth \in Nat /\ Depth > 0 /\ Depth \in 1 .. Depth
      /\ Used(Depth) = top /\ top \in Nat /\ FrameSize \in Nat
  BY <1>1, CurrentFrame, FrameSizeAssumption
<1>3. CASE b.depth = Depth
  BY <1>1, <1>2, <1>3
<1>4. CASE b.depth # Depth
  <2>1. FrameEnd(b.depth) <= Start(Depth)
    BY <1>1, <1>2, <1>4 DEF Layout, FramesApart
  <2>2. /\ Used(b.depth) \in Nat /\ FrameEnd(b.depth) \in Nat
        /\ Used(b.depth) + FrameSize <= FrameEnd(b.depth)
    BY <1>1 DEF Layout, FramesOrdered
  <2>3. Start(Depth) \in Nat /\ Start(Depth) <= top
    BY <1>2 DEF Layout, FramesOrdered
  <2>4. QED
    BY <1>1, <1>2, <2>1, <2>2, <2>3
<1>5. QED
  BY <1>1, <1>3, <1>4

LEMMA ArenaInitInv == ArenaInit => ArenaInv
<1> SUFFICES ASSUME ArenaInit PROVE ArenaInv
  OBVIOUS
<1>1. Depth = 0 /\ top = 0 /\ bottom = 0 /\ blocks = {}
  BY DEF ArenaInit, Depth
<1>2. ArenaTypeOK
  BY CapacityAssumption
     DEF ArenaInit, ArenaTypeOK, Offsets, Writers, Nobody
<1>3. Layout
  BY <1>1 DEF Layout, FramesOrdered, FramesApart, BlocksInFrames
<1>4. HeadersIntact /\ BlocksDisjoint
  BY <1>1 DEF HeadersIntact, BlocksDisjoint
<1>5. QED
  BY <1>2, <1>3, <1>4 DEF ArenaInv

-----------------------------------------------------------------------------
\* Writing w in some bytes leaves the others alone.
LEMMA WriteType ==
  ASSUME ArenaTypeOK, NEW area, NEW w \in Writers
  PROVE  /\ Write(area, w) \in [Addresses -> Writers]
         /\ \A a \in Addresses \ area : Write(area, w)[a] = bytes[a]
         /\ \A a \in Addresses \cap area : Write(area, w)[a] = w
  BY DEF ArenaTypeOK, Write

LEMMA ClaimIInv ==
  ASSUME ArenaInv, NEW n \in 0 .. MaxRequest, Claim(n)
  PROVE  ArenaInv'
<1>1. /\ ArenaTypeOK /\ Layout /\ HeadersIntact /\ BlocksDisjoint
      /\ n \in Nat /\ n > 0 /\ FrameSize \in Nat /\ FrameSize > 0
      /\ Capacity \in Nat
  BY MaxRequestAssumption, FrameSizeAssumption, CapacityAssumption DEF ArenaInv, Claim
<1>2. /\ Depth \in Nat
      /\ Depth > 0 => Used(Depth) = top /\ FrameEnd(Depth) = bottom
      /\ top \in Nat /\ bottom \in Nat /\ top <= bottom
  BY <1>1, CurrentFrame
<1>3. /\ top' = bottom
      /\ bottom' = bottom + n + FrameSize
      /\ bottom' <= Capacity
      /\ blocks' = blocks
      /\ bytes' = Write(HeaderArea(bottom'), ClaimOf(Depth + 1))
  BY DEF Claim, Claimed
<1>4. /\ frames' \in Seq(Header)
      /\ Depth' = Depth + 1
      /\ frames'[Depth + 1] = [top |-> top, bottom |-> bottom]
      /\ \A d \in 1 .. Depth : frames'[d] = frames[d]
  <2>1. [top |-> top, bottom |-> bottom] \in Header
    BY <1>1 DEF ArenaTypeOK, Header
  <2>2. frames \in Seq(Header) /\ frames' = Append(frames, [top |-> top, bottom |-> bottom])
    BY <1>1 DEF ArenaTypeOK, Claim
  <2>3. QED
    BY <2>1, <2>2 DEF Depth
<1>0. PICK D \in Nat : D = Depth
  BY <1>2
<1>5. /\ Start(D + 1)' = bottom
      /\ Used(D + 1)' = bottom
      /\ FrameEnd(D + 1)' = bottom'
  BY <1>0, <1>3, <1>4 DEF Start, Used, FrameEnd
<1>6. ASSUME NEW d \in 1 .. Depth
      PROVE  Start(d)' = Start(d) /\ Used(d)' = Used(d) /\ FrameEnd(d)' = FrameEnd(d)
  <2>1. CASE d = Depth
    BY <1>2, <1>4, <2>1 DEF Start, Used, FrameEnd
  <2>2. CASE d # Depth
    <3>1. d + 1 \in 1 .. Depth
      BY <1>2, <2>2
    <3>2. QED
      BY <1>2, <1>4, <2>2, <3>1 DEF Start, Used, FrameEnd
  <2>3. QED
    BY <2>1, <2>2
<1>7. ArenaTypeOK'
  <2>1. ClaimOf(Depth + 1) \in Writers
    BY <1>2 DEF ClaimOf, Writers
  <2>2. bytes' \in [Addresses -> Writers]
    BY <1>1, <1>3, <2>1, WriteType
  <2>3. top' \in Offsets /\ bottom' \in Offsets
    BY <1>1, <1>2, <1>3 DEF Offsets
  <2>4. QED
    BY <1>1, <1>3, <1>4, <2>2, <2>3 DEF ArenaTypeOK
<1>8. FramesOrdered'
  <2>1. ASSUME NEW d \in 1 .. Depth + 1
        PROVE  /\ Start(d)' \in Nat /\ Used(d)' \in Nat /\ FrameEnd(d)' \in Nat
               /\ Start(d)' <= Used(d)'
               /\ Used(d)' + FrameSize <= FrameEnd(d)'
               /\ FrameEnd(d)' <= Capacity
    <3>1. CASE d = Depth + 1
      BY <1>0, <1>1, <1>2, <1>3, <1>5, <3>1
    <3>2. CASE d # Depth + 1
      <4>1. d \in 1 .. Depth
        BY <1>2, <3>2
      <4>2. QED
        BY <1>1, <1>6, <4>1 DEF Layout, FramesOrdered
    <3>3. QED
      BY <3>1, <3>2
  <2>2. QED
    BY <1>4, <2>1 DEF FramesOrdered
<1>9. \A d \in 1 .. Depth : FrameEnd(d) <= bottom
  <2>1. SUFFICES ASSUME NEW d \in 1 .. Depth PROVE FrameEnd(d) <= bottom
    OBVIOUS
  <2>2. Depth \in 1 .. Depth /\ d <= Depth
    BY <1>2
  <2>3. d < Depth => FrameEnd(d) <= Start(Depth)
    BY <1>1, <2>2 DEF Layout, FramesApart
  <2>4. /\ Start(Depth) \in Nat /\ Used(Depth) \in Nat /\ FrameEnd(d) \in Nat
        /\ Start(Depth) <= Used(Depth)
    BY <1>1, <2>2 DEF Layout, FramesOrdered
  <2>5. QED
    BY <1>2, <2>2, <2>3, <2>4
<1>10. FramesApart'
  <2>1. ASSUME NEW d \in 1 .. Depth + 1, NEW e \in 1 .. Depth + 1, d < e
        PROVE  FrameEnd(d)' <= Start(e)'
    <3>1. d \in 1 .. Depth
      BY <1>2, <2>1
    <3>2. CASE e = Depth + 1
      BY <1>0, <1>5, <1>6, <1>9, <3>1, <3>2
    <3>3. CASE e # Depth + 1
      <4>1. e \in 1 .. Depth
        BY <1>2, <3>3
      <4>2. QED
        BY <1>1, <1>6, <2>1, <3>1, <4>1 DEF Layout, FramesApart
    <3>4. QED
      BY <3>2, <3>3
  <2>2. frames'[1] = [top |-> 0, bottom |-> 0]
    <3>1. CASE Depth = 0
      BY <1>1, <1>4, <3>1 DEF Layout, FramesApart
    <3>2. CASE Depth # 0
      BY <1>1, <1>2, <1>4, <3>2 DEF Layout, FramesApart
    <3>3. QED
      BY <3>1, <3>2
  <2>3. QED
    BY <1>2, <1>4, <2>1, <2>2 DEF FramesApart
<1>11. BlocksInFrames'
  <2>1. SUFFICES ASSUME NEW b \in blocks
                 PROVE  /\ b.depth \in 1 .. Depth + 1
                        /\ Start(b.depth)' <= b.lo /\ b.lo <= b.hi /\ b.hi <= Used(b.depth)'
    BY <1>3, <1>4 DEF BlocksInFrames
  <2>2. /\ b.depth \in 1 .. Depth
        /\ Start(b.depth) <= b.lo /\ b.lo <= b.hi /\ b.hi <= Used(b.depth)
    BY <1>1 DEF Layout, BlocksInFrames
  <2>3. QED
    BY <1>2, <1>6, <2>2
<1>12. HeadersIntact'
  <2>1. ASSUME NEW d \in 1 .. Depth + 1, NEW a \in HeaderArea(FrameEnd(d)')
        PROVE  bytes'[a] = ClaimOf(d)
    <3>1. a \in Addresses
      BY <1>1, <1>4, <1>8, <2>1 DEF FramesOrdered, HeaderArea, FrameTop, Addresses
    <3>2. ClaimOf(Depth + 1) \in Writers
      BY <1>2 DEF ClaimOf, Writers
    <3>3. CASE d = Depth + 1
      BY <1>0, <1>1, <1>3, <1>5, <2>1, <3>1, <3>2, <3>3, WriteType
    <3>4. CASE d # Depth + 1
      <4>1. d \in 1 .. Depth
        BY <1>2, <3>4
      <4>2. a \in HeaderArea(FrameEnd(d)) /\ FrameEnd(d) \in Nat /\ FrameEnd(d) <= bottom
        BY <1>1, <1>6, <1>9, <2>1, <4>1 DEF Layout, FramesOrdered
      <4>3. a \notin HeaderArea(bottom')
        BY <1>1, <1>2, <1>3, <4>2 DEF HeaderArea, FrameTop
      <4>4. bytes'[a] = bytes[a]
        BY <1>1, <1>3, <3>1, <3>2, <4>3, WriteType
      <4>5. QED
        BY <1>1, <4>1, <4>2, <4>4 DEF HeadersIntact
    <3>5. QED
      BY <3>3, <3>4
  <2>2. QED
    BY <1>4, <2>1 DEF HeadersIntact, HeaderArea, FrameTop
<1>13. BlocksDisjoint'
  BY <1>1, <1>3 DEF BlocksDisjoint
<1>14. QED
  BY <1>7, <1>8, <1>10, <1>11, <1>12, <1>13 DEF ArenaInv, Layout

LEMMA AllocIInv ==
  ASSUME ArenaInv, NEW n \in 0 .. MaxRequest, Alloc(n)
  PROVE  ArenaInv'
<1> DEFINE c == [lo |-> top, hi |-> top + n, depth |-> Depth]
<1>1. /\ ArenaTypeOK /\ Layout /\ HeadersIntact /\ BlocksDisjoint
      /\ n \in Nat /\ FrameSize \in Nat /\ FrameSize > 0
      /\ Capacity \in Nat
  BY MaxRequestAssumption, FrameSizeAssumption, CapacityAssumption DEF ArenaInv
<1>2. /\ Depth \in Nat /\ Depth > 0 /\ Depth \in 1 .. Depth
      /\ Used(Depth) = top /\ FrameEnd(Depth) = bottom
      /\ top \in Nat /\ bottom \in Nat /\ bottom <= Capacity
  BY <1>1, CurrentFrame DEF Alloc
<1>3. /\ top' = top + n
      /\ top + n + FrameSize <= bottom
      /\ blocks' = blocks \cup {c}
      /\ UNCHANGED <<bottom, bytes, frames, Depth>>
  BY <1>1, <1>2 DEF Alloc, AtCapacity, FrameTop, Depth
<1>4. ASSUME NEW d \in 1 .. Depth
      PROVE  /\ Start(d)' = Start(d)
             /\ FrameEnd(d)' = FrameEnd(d)
             /\ Used(d)' = IF d = Depth THEN top + n ELSE Used(d)
  BY <1>3 DEF Start, Used, FrameEnd
<1>5. c \in Block
  BY <1>1, <1>2, <1>3 DEF Block, Offsets
<1>6. ArenaTypeOK'
  BY <1>1, <1>2, <1>3, <1>5 DEF ArenaTypeOK, Offsets
<1>7. Start(Depth) \in Nat /\ Start(Depth) <= top
  BY <1>1, <1>2 DEF Layout, FramesOrdered
<1>8. FramesOrdered'
  <2>1. ASSUME NEW d \in 1 .. Depth
        PROVE  /\ Start(d)' \in Nat /\ Used(d)' \in Nat /\ FrameEnd(d)' \in Nat
               /\ Start(d)' <= Used(d)'
               /\ Used(d)' + FrameSize <= FrameEnd(d)'
               /\ FrameEnd(d)' <= Capacity
    <3>1. CASE d = Depth
      BY <1>1, <1>2, <1>3, <1>4, <1>7, <3>1
    <3>2. CASE d # Depth
      BY <1>1, <1>4, <3>2 DEF Layout, FramesOrdered
    <3>3. QED
      BY <3>1, <3>2
  <2>2. QED
    BY <1>3, <2>1 DEF FramesOrdered
<1>9. FramesApart'
  BY <1>1, <1>2, <1>3, <1>4 DEF Layout, FramesApart
<1>10. ASSUME NEW b \in blocks
       PROVE  /\ b.depth \in 1 .. Depth /\ b.lo \in Nat /\ b.hi \in Nat
              /\ Start(b.depth) <= b.lo /\ b.lo <= b.hi /\ b.hi <= Used(b.depth)
              /\ b.hi <= top
  BY <1>1, BlocksBelowTop
<1>11. BlocksInFrames'
  <2>1. SUFFICES ASSUME NEW b \in blocks'
                 PROVE  /\ b.depth \in 1 .. Depth
                        /\ Start(b.depth)' <= b.lo /\ b.lo <= b.hi /\ b.hi <= Used(b.depth)'
    BY <1>3 DEF BlocksInFrames
  <2>2. CASE b = c
    BY <1>1, <1>2, <1>4, <1>7, <2>2
  <2>3. CASE b \in blocks
    <3>1. CASE b.depth = Depth
      BY <1>1, <1>2, <1>4, <1>10, <2>3, <3>1
    <3>2. CASE b.depth # Depth
      BY <1>4, <1>10, <2>3, <3>2
    <3>3. QED
      BY <3>1, <3>2
  <2>4. QED
    BY <1>3, <2>1, <2>2, <2>3
<1>12. HeadersIntact'
  BY <1>1, <1>3, <1>4 DEF HeadersIntact, HeaderArea, FrameTop
<1>13. BlocksDisjoint'
  <2>1. ASSUME NEW b \in blocks PROVE Extent(b) \cap Extent(c) = {}
    BY <1>1, <1>2, <1>10 DEF Extent
  <2>2. QED
    BY <1>1, <1>3, <2>1 DEF BlocksDisjoint
<1>14. QED
  BY <1>6, <1>8, <1>9, <1>11, <1>12, <1>13 DEF ArenaInv, Layout

\* A store reaches only the owner's bytes, so it misses every header.
LEMMA StoreIInv ==
  ASSUME ArenaInv, NEW b \in blocks, Store(b)
  PROVE  ArenaInv'
<1>1. ArenaTypeOK /\ Layout /\ HeadersIntact /\ BlocksDisjoint
  BY DEF ArenaInv
<1>2. /\ bytes' = Write(Extent(b), OwnerOf(b))
      /\ UNCHANGED <<top, bottom, frames, blocks, Depth>>
  BY DEF Store, Depth
<1>3. OwnerOf(b) \in Writers
  BY <1>1 DEF OwnerOf, Writers, ArenaTypeOK
<1>4. ArenaTypeOK'
  BY <1>1, <1>2, <1>3, WriteType DEF ArenaTypeOK
<1>5. Layout'
  BY <1>1, <1>2 DEF Layout, FramesOrdered, FramesApart, BlocksInFrames, Start, Used, FrameEnd
<1>6. HeadersIntact'
  <2>1. ASSUME NEW d \in 1 .. Depth, NEW a \in HeaderArea(FrameEnd(d))
        PROVE  bytes'[a] = ClaimOf(d)
    <3>1. a \in Addresses
      BY <1>1, CapacityAssumption, FrameSizeAssumption
         DEF Layout, FramesOrdered, HeaderArea, FrameTop, Addresses
    <3>2. a \notin Extent(b)
      BY <1>1, BlocksMissHeaders
    <3>3. bytes'[a] = bytes[a]
      BY <1>1, <1>2, <1>3, <3>1, <3>2, WriteType
    <3>4. QED
      BY <1>1, <3>3 DEF HeadersIntact
  <2>2. QED
    BY <1>2, <2>1 DEF HeadersIntact, HeaderArea, FrameTop, FrameEnd
<1>7. BlocksDisjoint'
  BY <1>1, <1>2 DEF BlocksDisjoint
<1>8. QED
  BY <1>4, <1>5, <1>6, <1>7 DEF ArenaInv

\* The header varena_disclaim reads is the one varena_claim wrote.
LEMMA DisclaimRestores ==
  ASSUME ArenaInv, Disclaim
  PROVE  /\ Depth \in Nat /\ Depth > 0 /\ Depth \in 1 .. Depth
         /\ top' = frames[Depth].top
         /\ bottom' = frames[Depth].bottom
<1>1. ArenaTypeOK /\ Layout /\ HeadersIntact
  BY DEF ArenaInv
<1>2. bottom # 0
  BY FrameSizeAssumption DEF Disclaim
<1>3. Depth \in Nat /\ Depth > 0 /\ Depth \in 1 .. Depth /\ FrameEnd(Depth) = bottom
  BY <1>1, <1>2, CurrentFrame
<1>4. \A a \in HeaderArea(bottom) : bytes[a] = ClaimOf(Depth)
  BY <1>1, <1>3 DEF HeadersIntact
<1>5. QED
  BY <1>3, <1>4 DEF Disclaim, Restored

LEMMA DisclaimIInv == ASSUME ArenaInv, Disclaim PROVE ArenaInv'
<1>1. /\ ArenaTypeOK /\ Layout /\ HeadersIntact /\ BlocksDisjoint
      /\ FrameSize \in Nat /\ Capacity \in Nat
  BY FrameSizeAssumption, CapacityAssumption DEF ArenaInv
<1>2. /\ Depth \in Nat /\ Depth > 0 /\ Depth \in 1 .. Depth
      /\ top' = frames[Depth].top
      /\ bottom' = frames[Depth].bottom
  BY DisclaimRestores
<1>3. /\ frames' = SubSeq(frames, 1, Depth - 1)
      /\ blocks' = {b \in blocks : b.depth < Depth}
      /\ UNCHANGED bytes
  BY DEF Disclaim
<1>4. /\ frames' \in Seq(Header)
      /\ Depth' = Depth - 1
      /\ \A d \in 1 .. Depth - 1 : frames'[d] = frames[d]
  <2>1. frames \in Seq(Header) /\ Len(frames) = Depth
    BY <1>1 DEF ArenaTypeOK, Depth
  <2>2. /\ frames' \in Seq(Header)
        /\ Len(frames') = Depth - 1
        /\ \A d \in 1 .. Depth - 1 : frames'[d] = frames[d]
    BY <1>2, <1>3, <2>1
  <2>3. QED
    BY <2>2 DEF Depth
<1>5. ASSUME NEW d \in 1 .. Depth - 1
      PROVE  Start(d)' = Start(d) /\ Used(d)' = Used(d) /\ FrameEnd(d)' = FrameEnd(d)
  <2>1. CASE d = Depth - 1
    BY <1>2, <1>4, <2>1 DEF Start, Used, FrameEnd
  <2>2. CASE d # Depth - 1
    <3>1. d + 1 \in 1 .. Depth - 1
      BY <1>2, <2>2
    <3>2. QED
      BY <1>2, <1>4, <2>2, <3>1 DEF Start, Used, FrameEnd
  <2>3. QED
    BY <2>1, <2>2
<1>6. \A d \in 1 .. Depth - 1 : d \in 1 .. Depth
  BY <1>2
<1>7. ArenaTypeOK'
  <2>1. frames[Depth] \in Header
    BY <1>1, <1>2 DEF ArenaTypeOK, Depth
  <2>2. top' \in Offsets /\ bottom' \in Offsets
    BY <1>2, <2>1 DEF Header
  <2>3. QED
    BY <1>1, <1>3, <1>4, <2>2 DEF ArenaTypeOK
<1>8. FramesOrdered'
  BY <1>1, <1>4, <1>5, <1>6 DEF Layout, FramesOrdered
<1>9. FramesApart'
  <2>1. CASE Depth = 1
    BY <1>1, <1>2, <1>4, <2>1 DEF Layout, FramesApart
  <2>2. CASE Depth # 1
    BY <1>1, <1>2, <1>4, <1>5, <1>6, <2>2 DEF Layout, FramesApart
  <2>3. QED
    BY <2>1, <2>2
<1>10. BlocksInFrames'
  <2>1. SUFFICES ASSUME NEW b \in blocks, b.depth < Depth
                 PROVE  /\ b.depth \in 1 .. Depth - 1
                        /\ Start(b.depth)' <= b.lo /\ b.lo <= b.hi /\ b.hi <= Used(b.depth)'
    BY <1>3, <1>4 DEF BlocksInFrames
  <2>2. /\ b.depth \in 1 .. Depth
        /\ Start(b.depth) <= b.lo /\ b.lo <= b.hi /\ b.hi <= Used(b.depth)
    BY <1>1 DEF Layout, BlocksInFrames
  <2>3. b.depth \in 1 .. Depth - 1
    BY <1>2, <2>1, <2>2
  <2>4. QED
    BY <1>5, <2>2, <2>3
<1>11. HeadersIntact'
  BY <1>1, <1>3, <1>4, <1>5, <1>6 DEF HeadersIntact, HeaderArea, FrameTop
<1>12. BlocksDisjoint'
  BY <1>1, <1>3 DEF BlocksDisjoint
<1>13. QED
  BY <1>7, <1>8, <1>9, <1>10, <1>11, <1>12 DEF ArenaInv, Layout

LEMMA ArenaNextInv == ArenaInv /\ [ArenaNext]_arenaVars => ArenaInv'
<1> SUFFICES ASSUME ArenaInv, [ArenaNext]_arenaVars PROVE ArenaInv'
  OBVIOUS
<1>1. CASE UNCHANGED arenaVars
  BY <1>1 DEF arenaVars, ArenaInv, ArenaTypeOK, Layout, FramesOrdered, FramesApart, BlocksInFrames,
     HeadersIntact, BlocksDisjoint, Start, Used, FrameEnd, Depth
<1>2. QED
  BY <1>1, ClaimIInv, AllocIInv, StoreIInv, DisclaimIInv DEF ArenaNext

LEMMA ArenaSpecInv == ArenaSpec => []ArenaInv
  BY ArenaInitInv, ArenaNextInv, PTL DEF ArenaSpec

-----------------------------------------------------------------------------
\* top and bottom stay within the arena, and blocks and headers are what their
\* type says.
THEOREM ArenaTypeCorrect == ArenaSpec => []ArenaTypeOK
<1>1. ArenaInv => ArenaTypeOK
  BY DEF ArenaInv
<1>2. QED
  BY <1>1, ArenaSpecInv, PTL

\* varena_alloc never hands out a byte of another live block.
THEOREM NoSharedBytes == ArenaSpec => []BlocksDisjoint
<1>1. ArenaInv => BlocksDisjoint
  BY DEF ArenaInv
<1>2. QED
  BY <1>1, ArenaSpecInv, PTL

\* No owner of a block overwrites a frame header.
THEOREM HeadersSafe == ArenaSpec => []HeadersIntact
<1>1. ArenaInv => HeadersIntact
  BY DEF ArenaInv
<1>2. QED
  BY <1>1, ArenaSpecInv, PTL

\* varena_disclaim undoes the matching varena_claim.
THEOREM DisclaimExact == ArenaSpec => DisclaimUndoesClaim
<1>1. ArenaInv /\ [ArenaNext]_arenaVars =>
        [Len(frames') < Len(frames) =>
           top' = frames[Depth].top /\ bottom' = frames[Depth].bottom]_arenaVars
  <2> SUFFICES ASSUME ArenaInv, ArenaNext, Len(frames') < Len(frames)
               PROVE  top' = frames[Depth].top /\ bottom' = frames[Depth].bottom
    OBVIOUS
  <2>1. frames \in Seq(Header)
    BY DEF ArenaInv, ArenaTypeOK
  <2>2. ASSUME NEW n \in 0 .. MaxRequest, Claim(n) PROVE FALSE
    <3>1. frames' = Append(frames, [top |-> top, bottom |-> bottom])
      BY <2>2 DEF Claim
    <3>2. QED
      BY <2>1, <3>1
  <2>3. ASSUME NEW n \in 0 .. MaxRequest, Alloc(n) PROVE FALSE
    BY <2>1, <2>3 DEF Alloc
  <2>4. ASSUME NEW b \in blocks, Store(b) PROVE FALSE
    BY <2>1, <2>4 DEF Store
  <2>5. Disclaim
    BY <2>2, <2>3, <2>4 DEF ArenaNext
  <2>6. QED
    BY <2>5, DisclaimRestores
<1>2. QED
  BY <1>1, ArenaSpecInv, PTL DEF ArenaSpec, DisclaimUndoesClaim

\* What an owner stored stays while its block's frame is open.
THEOREM DataKept == ArenaSpec => BlocksKeepTheirData
<1>1. ArenaInv /\ [ArenaNext]_arenaVars =>
        [\A b \in blocks \cap blocks' : \A a \in Extent(b) :
           bytes[a] = OwnerOf(b) => bytes'[a] = OwnerOf(b)]_arenaVars
  <2> SUFFICES ASSUME ArenaInv, ArenaNext, NEW b \in blocks, NEW a \in Extent(b),
                      bytes[a] = OwnerOf(b)
               PROVE  bytes'[a] = OwnerOf(b)
    OBVIOUS
  <2>1. /\ ArenaTypeOK /\ Layout /\ BlocksDisjoint
        /\ FrameSize \in Nat /\ Capacity \in Nat
    BY FrameSizeAssumption, CapacityAssumption DEF ArenaInv
  <2>2. /\ top \in Nat /\ bottom \in Nat /\ top <= bottom /\ bottom <= Capacity
        /\ Depth \in Nat
    BY <2>1, CurrentFrame
  <2>3. a \in Nat /\ a < bottom /\ a \in Addresses
    BY <2>1, <2>2, BlocksBelowTop DEF Extent, Addresses
  <2>4. ASSUME NEW n \in 0 .. MaxRequest, Claim(n) PROVE bytes'[a] = bytes[a]
    <3>1. n \in Nat /\ bottom' = bottom + n + FrameSize
      BY <2>4, MaxRequestAssumption DEF Claim, Claimed
    <3>2. a \notin HeaderArea(bottom')
      BY <2>1, <2>2, <2>3, <3>1 DEF HeaderArea, FrameTop
    <3>3. ClaimOf(Depth + 1) \in Writers
      BY <2>2 DEF ClaimOf, Writers
    <3>4. QED
      BY <2>1, <2>3, <2>4, <3>2, <3>3, WriteType DEF Claim
  <2>5. ASSUME NEW c \in blocks, Store(c) PROVE bytes'[a] = OwnerOf(b)
    <3>1. OwnerOf(c) \in Writers /\ bytes' = Write(Extent(c), OwnerOf(c))
      BY <2>1, <2>5 DEF OwnerOf, Writers, ArenaTypeOK, Store
    <3>2. CASE b = c
      BY <2>1, <2>3, <3>1, <3>2, WriteType
    <3>3. CASE b # c
      <4>1. a \notin Extent(c)
        BY <2>1, <3>3 DEF BlocksDisjoint
      <4>2. QED
        BY <2>1, <2>3, <3>1, <4>1, WriteType
    <3>4. QED
      BY <3>2, <3>3
  <2>6. ASSUME NEW n \in 0 .. MaxRequest, Alloc(n) PROVE bytes'[a] = bytes[a]
    BY <2>6 DEF Alloc
  <2>7. CASE Disclaim
    BY <2>7 DEF Disclaim
  <2>8. QED
    BY <2>4, <2>5, <2>6, <2>7 DEF ArenaNext
<1>2. QED
  BY <1>1, ArenaSpecInv, PTL DEF ArenaSpec, BlocksKeepTheirData

-----------------------------------------------------------------------------
(***************************************************************************)
(* The ring buffer.  All of it is arithmetic modulo the capacity, which    *)
(* the provers only do when led by the hand: the first part collects the   *)
(* facts about % that positions need.                                      *)
(***************************************************************************)

\* Quotient and remainder, and that they are unique.
LEMMA DivMod ==
  ASSUME NEW c \in Nat \ {0}, NEW a \in Nat
  PROVE  /\ a \div c \in Nat /\ a % c \in 0 .. c - 1
         /\ a = c * (a \div c) + (a % c)
  OBVIOUS

LEMMA MulMono ==
  ASSUME NEW c \in Nat \ {0}, NEW k \in Int, k >= 1
  PROVE  c * k >= c
  OBVIOUS

LEMMA DivModUnique ==
  ASSUME NEW c \in Nat \ {0}, NEW q \in Int, NEW r \in 0 .. c - 1, NEW p \in Int, NEW s \in 0 .. c - 1,
         c * q + r = c * p + s
  PROVE  q = p /\ r = s
<1>1. c * (q - p) = s - r /\ c * (p - q) = r - s
  OBVIOUS
<1>2. CASE q > p
  <2>1. c * (q - p) >= c
    BY <1>2, MulMono
  <2>2. QED
    BY <1>1, <2>1
<1>3. CASE p > q
  <2>1. c * (p - q) >= c
    BY <1>3, MulMono
  <2>2. QED
    BY <1>1, <2>1
<1>4. QED
  BY <1>1, <1>2, <1>3

LEMMA ModOf ==
  ASSUME NEW c \in Nat \ {0}, NEW a \in Nat, NEW k \in Int, NEW r \in 0 .. c - 1, a = c * k + r
  PROVE  a % c = r
<1> DEFINE q == a \div c   s == a % c
<1>1. q \in Nat /\ s \in 0 .. c - 1 /\ a = c * q + s
  BY DivMod, Zenon
<1> HIDE DEF q, s
<1>2. q \in Int /\ c * k + r = c * q + s
  BY <1>1
<1>3. r = s
  BY <1>1, <1>2, DivModUnique, Zenon
<1>4. QED
  BY <1>3 DEF s

\* A position may be wrapped before or after something is added to it.
LEMMA ModPlus ==
  ASSUME NEW c \in Nat \ {0}, NEW a \in Nat, NEW b \in Nat
  PROVE  ((a % c) + b) % c = (a + b) % c
<1> DEFINE q == a \div c   r == a % c
           p == (r + b) \div c   s == (r + b) % c
<1>1. q \in Nat /\ r \in 0 .. c - 1 /\ a = c * q + r
  BY DivMod
<1> HIDE DEF q, r
<1>2. p \in Nat /\ s \in 0 .. c - 1 /\ r + b = c * p + s
  <2>1. r + b \in Nat
    BY <1>1
  <2>2. QED
    BY <2>1, DivMod
<1> HIDE DEF p, s
<1>3. a + b = c * (q + p) + s
  BY <1>1, <1>2
<1>4. a + b \in Nat /\ q + p \in Int
  BY <1>1, <1>2
<1>5. (a + b) % c = s
  BY <1>2, <1>3, <1>4, ModOf
<1>6. QED
  BY <1>5 DEF s, r

\* Positions less than one round apart that wrap to one slot are the same.
LEMMA ModInjective ==
  ASSUME NEW c \in Nat \ {0}, NEW a \in Nat, NEW b \in Nat, a <= b, b < a + c, a % c = b % c
  PROVE  a = b
<1> DEFINE q == a \div c   r == a % c
           p == b \div c   s == b % c
<1>1. q \in Nat /\ r \in 0 .. c - 1 /\ a = c * q + r
  BY DivMod
<1>2. p \in Nat /\ s \in 0 .. c - 1 /\ b = c * p + s
  BY DivMod
<1>3. r = s
  OBVIOUS
<1> HIDE DEF q, r, p, s
<1>4. c * (p - q) = b - a /\ b - a \in 0 .. c - 1
  BY <1>1, <1>2, <1>3
<1>5. c * (p - q) + 0 = c * 0 + (b - a)
  BY <1>4
<1>6. QED
  BY <1>1, <1>2, <1>4, <1>5, DivModUnique

-----------------------------------------------------------------------------
IInv ==
  /\ elems \in [Slots -> Elem]
  /\ front \in Nat /\ back \in Nat /\ len \in 0 .. Cap
  /\ IndicesAgree

\* Wrapping stays within the slots.
LEMMA WrapSlot ==
  ASSUME NEW pos \in Nat
  PROVE  Wrap(pos) \in Slots /\ Wrap(pos) \in Nat
  BY CapAssumption, DivMod DEF Wrap, Slots

\* Wrap(pos) may stand for pos wherever the sum is wrapped.
LEMMA WrapPlus ==
  ASSUME NEW pos \in Nat, NEW k \in Nat
  PROVE  Wrap(Wrap(pos) + k) = Wrap(pos + k)
  BY CapAssumption, ModPlus DEF Wrap

\* Wrapping a second time changes nothing.
LEMMA WrapTwice ==
  ASSUME NEW pos \in Nat
  PROVE  Wrap(Wrap(pos)) = Wrap(pos)
<1>1. Wrap(Wrap(pos) + 0) = Wrap(pos + 0)
  BY WrapPlus
<1>2. Wrap(pos) \in Nat
  BY WrapSlot
<1>3. QED
  BY <1>1, <1>2

\* A whole round leads back to the same slot.
LEMMA WrapRound ==
  ASSUME NEW pos \in Nat
  PROVE  Wrap(pos + Cap) = Wrap(pos)
<1> DEFINE q == pos \div Cap   r == pos % Cap
<1>1. q \in Nat /\ r \in 0 .. Cap - 1 /\ pos = Cap * q + r /\ Cap \in Nat
  BY CapAssumption, DivMod
<1> HIDE DEF q, r
<1>2. pos + Cap = Cap * (q + 1) + r /\ q + 1 \in Int /\ pos + Cap \in Nat
  BY <1>1
<1>3. (pos + Cap) % Cap = r
  BY <1>1, <1>2, CapAssumption, ModOf
<1>4. QED
  BY <1>3 DEF r, Wrap

\* Two positions with the same slot still have it after the same number of
\* steps.
LEMMA WrapStep ==
  ASSUME NEW p \in Nat, NEW q \in Nat, NEW k \in Nat, Wrap(p) = Wrap(q)
  PROVE  Wrap(p + k) = Wrap(q + k)
  BY WrapPlus

LEMMA StoredType ==
  ASSUME elems \in [Slots -> Elem], NEW pos \in Nat, NEW s \in Batches,
         NEW n \in 1 .. Cap, n <= Len(s)
  PROVE  Stored(pos, s, n) \in [Slots -> Elem]
<1> DEFINE first  == Wrap(pos)
           before == Lesser(n, Cap - first)
<1>1. Cap \in Nat /\ first \in 0 .. Cap - 1 /\ n \in Nat
  <2>1. first \in Slots
    BY WrapSlot
  <2> HIDE DEF first, before
  <2>2. QED
    BY <2>1, CapAssumption DEF Slots
<1>2. PICK m \in 1 .. MaxBatch : s \in [1 .. m -> Elem]
  BY DEF Batches
<1>3. m \in Nat /\ Len(s) = m
  BY <1>2, BoundsAssumption
<1>4. before \in Nat /\ before <= n
  BY <1>1 DEF Lesser
<1> HIDE DEF first, before
<1>5. ASSUME NEW i \in Slots, i \in first .. first + before - 1
      PROVE  s[i - first + 1] \in Elem
  <2>1. i - first + 1 \in 1 .. m
    BY <1>1, <1>3, <1>4, <1>5 DEF Slots
  <2>2. QED
    BY <1>2, <2>1
<1>6. ASSUME NEW i \in Slots, i < n - before
      PROVE  s[before + i + 1] \in Elem
  <2>1. before + i + 1 \in 1 .. m
    BY <1>1, <1>3, <1>4, <1>6 DEF Slots
  <2>2. QED
    BY <1>2, <2>1
<1>7. Stored(pos, s, n) =
        [i \in Slots |->
          IF i \in first .. first + before - 1 THEN s[i - first + 1]
          ELSE IF i < n - before THEN s[before + i + 1]
          ELSE elems[i]]
  BY DEF Stored, first, before
<1>8. QED
  BY <1>5, <1>6, <1>7

LEMMA InitIInv == Init => IInv
  BY CapAssumption, ElemAssumption DEF Init, IInv, IndicesAgree

LEMMA NextIInv == IInv /\ [Next]_vars => IInv'
<1> SUFFICES ASSUME IInv, [Next]_vars PROVE IInv'
  OBVIOUS
<1>1. /\ elems \in [Slots -> Elem]
      /\ front \in Nat /\ back \in Nat /\ len \in 0 .. Cap /\ len \in Nat
      /\ Cap \in Nat /\ Cap > 0
      /\ Wrap(back) = Wrap(front + len)
      /\ front + len \in Nat
  BY CapAssumption DEF IInv, IndicesAgree
<1>2. CASE UNCHANGED <<elems, front, back, len>>
  BY <1>2 DEF IInv, IndicesAgree
<1>3. ASSUME NEW v \in Elem, NEW overwrite \in BOOLEAN, Enqueue(v, overwrite) PROVE IInv'
  <2>1. CASE len = Cap /\ ~overwrite
    BY <1>2, <1>3, <2>1 DEF Enqueue, Answer
  <2>2. CASE ~(len = Cap /\ ~overwrite)
    <3>1. elems' = [elems EXCEPT ![Wrap(back)] = v] /\ back' = Wrap(back + 1)
      BY <1>3, <2>2 DEF Enqueue
    <3>2. elems' \in [Slots -> Elem] /\ back' \in Nat
      BY <1>1, <3>1, WrapSlot
    <3>3. Wrap(back') = Wrap(front + len + 1)
      <4>1. Wrap(back') = Wrap(back + 1)
        BY <1>1, <3>1, WrapTwice
      <4>2. QED
        BY <1>1, <4>1, WrapStep
    <3>4. CASE len = Cap
      <4>1. front' = Wrap(front + 1) /\ len' = len
        BY <1>3, <2>2, <3>4 DEF Enqueue
      <4>2. Wrap(front' + len') = Wrap(front + 1 + len)
        BY <1>1, <4>1, WrapPlus
      <4>3. front + 1 + len = front + len + 1 /\ front' \in Nat
        BY <1>1, <4>1, WrapSlot
      <4>4. QED
        BY <1>1, <3>2, <3>3, <4>1, <4>2, <4>3 DEF IInv, IndicesAgree
    <3>5. CASE len # Cap
      <4>1. front' = front /\ len' = len + 1
        BY <1>3, <2>2, <3>5 DEF Enqueue
      <4>2. front' + len' = front + len + 1 /\ len' \in 0 .. Cap
        BY <1>1, <3>5, <4>1
      <4>3. QED
        BY <1>1, <3>2, <3>3, <4>1, <4>2 DEF IInv, IndicesAgree
    <3>6. QED
      BY <3>4, <3>5
  <2>3. QED
    BY <2>1, <2>2
<1>4. CASE Dequeue
  <2>1. CASE len = 0
    BY <1>2, <1>4, <2>1 DEF Dequeue, Answer
  <2>2. CASE len # 0
    <3>1. front' = Wrap(front + 1) /\ len' = len - 1 /\ UNCHANGED <<elems, back>>
      BY <1>4, <2>2 DEF Dequeue
    <3>2. len' \in 0 .. Cap /\ len' \in Nat /\ front' \in Nat
      BY <1>1, <2>2, <3>1, WrapSlot
    <3>3. Wrap(front' + len') = Wrap(front + 1 + len')
      BY <1>1, <3>1, <3>2, WrapPlus
    <3>4. front + 1 + len' = front + len
      BY <1>1, <3>1
    <3>5. QED
      BY <1>1, <3>1, <3>2, <3>3, <3>4 DEF IInv, IndicesAgree
  <2>3. QED
    BY <2>1, <2>2
<1>5. ASSUME NEW s \in Batches, NEW overwrite \in BOOLEAN, EnqueueSome(s, overwrite)
      PROVE  IInv'
  <2> DEFINE free == Cap - len
             room == IF overwrite THEN len + free ELSE free
             n    == Lesser(Len(s), room)
  <2>1. CASE room = 0
    BY <1>2, <1>5, <2>1 DEF EnqueueSome, Answer
  <2>2. CASE room # 0
    <3>1. Len(s) \in Nat \ {0}
      <4>1. PICK m \in 1 .. MaxBatch : s \in [1 .. m -> Elem]
        BY DEF Batches
      <4>2. QED
        BY <4>1, BoundsAssumption
    <3>2. free \in 0 .. Cap /\ room \in 1 .. Cap /\ n \in 1 .. Cap /\ n \in Nat /\ n <= Len(s)
      BY <1>1, <2>2, <3>1 DEF Lesser
    <3>3. /\ elems' = Stored(back, s, n)
          /\ back' = back + n
          /\ IF n > free
             THEN front' = front + (n - free) /\ len' = len + free
             ELSE len' = len + n /\ front' = front
      BY <1>5, <2>2 DEF EnqueueSome
    <3>4. elems' \in [Slots -> Elem]
      BY <1>1, <3>2, <3>3, StoredType
    <3>5. Wrap(back') = Wrap(front + len + n) /\ back' \in Nat
      <4> HIDE DEF n, room
      <4>1. n \in Nat /\ back' = back + n
        BY <3>2, <3>3
      <4>2. Wrap(back + n) = Wrap(front + len + n)
        BY <1>1, <4>1, WrapStep
      <4>3. QED
        BY <1>1, <4>1, <4>2
    <3>6. front' + len' = front + len + n /\ front' \in Nat /\ len' \in 0 .. Cap
      <4> HIDE DEF n, room
      <4>1. QED
        BY <1>1, <3>2, <3>3
    <3>7. QED
      BY <3>4, <3>5, <3>6 DEF IInv, IndicesAgree
  <2>3. QED
    BY <2>1, <2>2
<1>6. ASSUME NEW wanted \in 1 .. MaxBatch, DequeueSome(wanted) PROVE IInv'
  <2> DEFINE n == Lesser(wanted, len)
  <2>1. CASE len = 0
    BY <1>2, <1>6, <2>1 DEF DequeueSome, Answer
  <2>2. CASE len # 0
    <3>1. front' = front + n /\ len' = len - n /\ UNCHANGED <<elems, back>>
      BY <1>6, <2>2 DEF DequeueSome
    <3>2. n \in 1 .. len
      BY <1>1, <2>2, BoundsAssumption DEF Lesser
    <3>3. front' \in Nat /\ len' \in 0 .. Cap /\ front' + len' = front + len
      <4> HIDE DEF n
      <4>1. QED
        BY <1>1, <3>1, <3>2
    <3>4. QED
      BY <1>1, <3>1, <3>3 DEF IInv, IndicesAgree
  <2>3. QED
    BY <2>1, <2>2
<1>7. CASE Front
  BY <1>2, <1>7 DEF Front, Answer
<1>8. CASE Back
  BY <1>2, <1>8 DEF Back, Answer
<1>9. CASE Reset
  BY <1>9, CapAssumption, ElemAssumption DEF Reset, IInv, IndicesAgree
<1>10. CASE UNCHANGED vars
  BY <1>2, <1>10 DEF vars
<1>11. QED
  BY <1>3, <1>4, <1>5, <1>6, <1>7, <1>8, <1>9, <1>10 DEF Next

LEMMA SpecIInv == Spec => []IInv
  BY InitIInv, NextIInv, PTL DEF Spec

-----------------------------------------------------------------------------
\* front, back and len never disagree on the stretch of slots in use, however
\* wrapping and non-wrapping operations are mixed.
THEOREM IndicesCorrect == Spec => []IndicesAgree
<1>1. IInv => IndicesAgree
  BY DEF IInv
<1>2. QED
  BY <1>1, SpecIInv, PTL

-----------------------------------------------------------------------------
(***************************************************************************)
(* The queue as its callers see it.  Contents reads the slots through      *)
(* wrapped positions; the lemmas say what the calls that copy in one or    *)
(* two parts do to it, and what they return.                               *)
(***************************************************************************)

\* Fewer than a round's worth of steps wraps at most once.
LEMMA WrapCases ==
  ASSUME NEW pos \in Nat, NEW k \in 0 .. Cap
  PROVE  Wrap(pos + k) = IF Wrap(pos) + k < Cap THEN Wrap(pos) + k ELSE Wrap(pos) + k - Cap
<1> DEFINE f == Wrap(pos)
<1>1. Cap \in Nat \ {0} /\ f \in 0 .. Cap - 1 /\ k \in Nat /\ f + k \in Nat
  BY CapAssumption, WrapSlot DEF Slots
<1>2. Wrap(pos + k) = (f + k) % Cap
  BY <1>1, WrapPlus DEF Wrap
<1> HIDE DEF f
<1>3. CASE f + k < Cap
  <2>1. f + k = Cap * 0 + (f + k) /\ f + k \in 0 .. Cap - 1
    BY <1>1, <1>3
  <2>2. (f + k) % Cap = f + k
    BY <1>1, <2>1, ModOf
  <2>3. QED
    BY <1>2, <1>3, <2>2 DEF f
<1>4. CASE ~(f + k < Cap)
  <2>1. f + k = Cap * 1 + (f + k - Cap) /\ f + k - Cap \in 0 .. Cap - 1
    BY <1>1, <1>4
  <2>2. (f + k) % Cap = f + k - Cap
    BY <1>1, <2>1, ModOf
  <2>3. QED
    BY <1>2, <1>4, <2>2 DEF f
<1>5. QED
  BY <1>3, <1>4

\* Copying out in two parts reads the n slots from pos on, in order.
LEMMA LoadedSlots ==
  ASSUME NEW pos \in Nat, NEW n \in 1 .. Cap
  PROVE  Loaded(pos, n) = [j \in 1 .. n |-> elems[Wrap(pos + j - 1)]]
<1> DEFINE first  == Wrap(pos)
           before == Lesser(n, Cap - first)
<1>1. Cap \in Nat /\ first \in 0 .. Cap - 1 /\ n \in Nat
  BY CapAssumption, WrapSlot DEF Slots
<1>2. ASSUME NEW j \in 1 .. n
      PROVE  Wrap(pos + j - 1) = IF j <= before THEN first + j - 1 ELSE j - before - 1
  <2>1. j - 1 \in 0 .. Cap /\ pos + (j - 1) = pos + j - 1
    BY <1>1
  <2>2. Wrap(pos + j - 1) = IF first + (j - 1) < Cap THEN first + (j - 1) ELSE first + (j - 1) - Cap
    BY <2>1, WrapCases
  <2> HIDE DEF first
  <2>3. QED
    BY <1>1, <2>2 DEF Lesser
<1>3. Loaded(pos, n) =
        [j \in 1 .. n |-> IF j <= before THEN elems[first + j - 1] ELSE elems[j - before - 1]]
  BY DEF Loaded
<1> HIDE DEF first, before
<1>4. QED
  BY <1>2, <1>3

\* Copying in in two parts writes the n slots from pos on, in order, and
\* leaves the others of the round alone.
LEMMA StoredSlots ==
  ASSUME NEW pos \in Nat, NEW s, NEW n \in 1 .. Cap, NEW j \in 1 .. Cap
  PROVE  Stored(pos, s, n)[Wrap(pos + j - 1)] =
           IF j <= n THEN s[j] ELSE elems[Wrap(pos + j - 1)]
<1> DEFINE first  == Wrap(pos)
           before == Lesser(n, Cap - first)
           i == Wrap(pos + j - 1)
<1>1. Cap \in Nat /\ first \in 0 .. Cap - 1 /\ n \in Nat /\ j \in Nat
  BY CapAssumption, WrapSlot DEF Slots
<1>2. j - 1 \in 0 .. Cap /\ pos + (j - 1) = pos + j - 1 /\ pos + j - 1 \in Nat
  BY <1>1
<1>3. i = IF first + (j - 1) < Cap THEN first + (j - 1) ELSE first + (j - 1) - Cap
  BY <1>2, WrapCases
<1>4. i \in Slots
  BY <1>2, WrapSlot
<1>5. Stored(pos, s, n)[i] =
        IF i \in first .. first + before - 1 THEN s[i - first + 1]
        ELSE IF i < n - before THEN s[before + i + 1]
        ELSE elems[i]
  BY <1>4 DEF Stored
<1> HIDE DEF first, i
<1>6. CASE first + (j - 1) < Cap
  <2>1. i = first + j - 1 /\ i - first + 1 = j
    BY <1>1, <1>3, <1>6
  <2>2. i \in first .. first + before - 1 <=> j <= n
    BY <1>1, <1>6, <2>1 DEF Lesser
  <2>3. ~(j <= n) => ~(i < n - before)
    BY <1>1, <1>6, <2>1 DEF Lesser
  <2> HIDE DEF before
  <2>4. QED
    BY <1>5, <2>1, <2>2, <2>3 DEF i
<1>7. CASE ~(first + (j - 1) < Cap)
  <2>1. i = first + j - 1 - Cap
    BY <1>1, <1>3, <1>7
  <2>2. i < first
    BY <1>1, <2>1
  <2>3. i \notin first .. first + before - 1
    BY <1>1, <2>2 DEF Lesser
  <2>4. i < n - before <=> j <= n
    BY <1>1, <1>7, <2>1 DEF Lesser
  <2>5. j <= n => before + i + 1 = j
    BY <1>1, <1>7, <2>1 DEF Lesser
  <2> HIDE DEF before
  <2>6. QED
    BY <1>5, <2>3, <2>4, <2>5 DEF i
<1>8. QED
  BY <1>6, <1>7

LEMMA ConcatIs ==
  ASSUME NEW S, NEW s \in Seq(S), NEW t \in Seq(S)
  PROVE  /\ s \o t \in Seq(S) /\ Len(s \o t) = Len(s) + Len(t)
         /\ \A i \in 1 .. Len(s) + Len(t) :
              (s \o t)[i] = IF i <= Len(s) THEN s[i] ELSE t[i - Len(s)]
  OBVIOUS

LEMMA SubSeqIs ==
  ASSUME NEW S, NEW s \in Seq(S), NEW m \in Nat \ {0}, NEW k \in Nat, k <= Len(s)
  PROVE  SubSeq(s, m, k) = [i \in 1 .. k - m + 1 |-> s[m + i - 1]]
  OBVIOUS

LEMMA ContentsType ==
  ASSUME IInv
  PROVE  /\ Contents \in Seq(Elem) /\ Len(Contents) = len
         /\ \A i \in 1 .. len : Contents[i] = elems[Wrap(front + i - 1)]
         /\ Contents = <<>> <=> len = 0
<1>1. elems \in [Slots -> Elem] /\ front \in Nat /\ len \in Nat
  BY CapAssumption DEF IInv
<1>2. ASSUME NEW i \in 1 .. len PROVE elems[Wrap(front + i - 1)] \in Elem
  <2>1. front + i - 1 \in Nat
    BY <1>1
  <2>2. QED
    BY <1>1, <2>1, WrapSlot
<1>3. Contents = [i \in 1 .. len |-> elems[Wrap(front + i - 1)]]
  BY DEF Contents
<1>4. Contents \in [1 .. len -> Elem]
  BY <1>2, <1>3
<1>5. Contents \in Seq(Elem) /\ Len(Contents) = len
  BY <1>1, <1>4
<1>6. Contents = <<>> <=> len = 0
  BY <1>1, <1>5
<1>7. QED
  BY <1>3, <1>5, <1>6

\* The n elements of t now lie in the slots from back on; no other slot of the
\* round has changed.
WrittenAtBack(t, n) ==
  \A j \in 1 .. Cap :
    elems'[Wrap(back + j - 1)] = IF j <= n THEN t[j] ELSE elems[Wrap(back + j - 1)]

\* Elements written one after another from back on, the front moved past
\* those they overwrite: the queue keeps the newest Cap elements.
LEMMA Pushed ==
  ASSUME IInv, NEW t \in Seq(Elem), NEW n \in 1 .. Cap, Len(t) = n,
         WrittenAtBack(t, n), len' = Lesser(len + n, Cap),
         front' \in Nat, Wrap(front') = Wrap(front + (len + n - len'))
  PROVE  Contents' = Abstract!Newest(Contents \o t)
<1> DEFINE gone == len + n - len'
           all  == Contents \o t
<1>1. /\ Cap \in Nat \ {0} /\ front \in Nat /\ back \in Nat /\ len \in Nat /\ len <= Cap /\ n \in Nat
      /\ front + len \in Nat /\ Wrap(back) = Wrap(front + len)
  BY CapAssumption DEF IInv, IndicesAgree
<1>2. len' \in Nat /\ len' <= Cap /\ gone \in Nat /\ gone <= n /\ gone + len' = len + n
  BY <1>1 DEF Lesser
<1>3. /\ Contents \in Seq(Elem) /\ Len(Contents) = len
      /\ \A i \in 1 .. len : Contents[i] = elems[Wrap(front + i - 1)]
  BY ContentsType
<1>4. /\ all \in Seq(Elem) /\ Len(all) = len + n
      /\ \A i \in 1 .. len + n : all[i] = IF i <= len THEN Contents[i] ELSE t[i - len]
  BY <1>3, ConcatIs
<1> HIDE DEF all, gone
<1>5. ASSUME NEW i \in 1 .. len' PROVE elems'[Wrap(front' + i - 1)] = all[gone + i]
  <2>1. /\ i - 1 \in Nat /\ front' + (i - 1) = front' + i - 1
        /\ front + gone \in Nat /\ front + gone + (i - 1) = front + gone + i - 1
        /\ gone + i \in 1 .. len + n
    BY <1>1, <1>2
  <2>2. Wrap(front' + i - 1) = Wrap(front + gone + i - 1)
    <3>1. Wrap(front') = Wrap(front + gone)
      BY DEF gone
    <3>2. Wrap(front' + (i - 1)) = Wrap(front + gone + (i - 1))
      BY <2>1, <3>1, WrapStep
    <3>3. QED
      BY <2>1, <3>2
  <2>3. CASE gone + i <= len
    <3> DEFINE j == Cap - len + gone + i
    <3>1. j \in 1 .. Cap /\ j - 1 \in Nat /\ j > n
      BY <1>1, <1>2, <2>3 DEF Lesser
    <3>2. elems'[Wrap(back + j - 1)] = elems[Wrap(back + j - 1)]
      BY <1>1, <3>1 DEF WrittenAtBack
    <3>3. Wrap(back + (j - 1)) = Wrap(front + len + (j - 1))
      <4> DEFINE k == j - 1
      <4>1. k \in Nat
        BY <3>1
      <4> HIDE DEF j, k
      <4>2. Wrap(back + k) = Wrap(front + len + k)
        BY <1>1, <4>1, WrapStep
      <4>3. QED
        BY <4>2 DEF k
    <3>4. front + len + (j - 1) = (front + gone + i - 1) + Cap /\ front + gone + i - 1 \in Nat
      BY <1>1, <1>2
    <3>5. Wrap(front + len + (j - 1)) = Wrap(front + gone + i - 1)
      BY <3>4, WrapRound
    <3>6. back + (j - 1) = back + j - 1
      BY <1>1, <3>1
    <3>7. elems'[Wrap(front' + i - 1)] = elems[Wrap(front + gone + i - 1)]
      BY <2>2, <3>2, <3>3, <3>5, <3>6
    <3>8. front + gone + i - 1 = front + (gone + i) - 1 /\ gone + i \in 1 .. len
      BY <1>1, <1>2, <2>1, <2>3
    <3>9. Contents[gone + i] = elems[Wrap(front + gone + i - 1)]
      BY <1>3, <3>8
    <3>10. all[gone + i] = Contents[gone + i]
      BY <1>4, <2>1, <2>3
    <3>11. QED
      BY <3>7, <3>9, <3>10
  <2>4. CASE ~(gone + i <= len)
    <3> DEFINE j == gone + i - len
    <3>1. j \in 1 .. n /\ j \in 1 .. Cap /\ j - 1 \in Nat /\ j <= n
      BY <1>1, <1>2, <2>1, <2>4
    <3>2. elems'[Wrap(back + j - 1)] = t[j]
      BY <3>1 DEF WrittenAtBack
    <3>3. Wrap(back + (j - 1)) = Wrap(front + len + (j - 1))
      <4> DEFINE k == j - 1
      <4>1. k \in Nat
        BY <3>1
      <4> HIDE DEF j, k
      <4>2. Wrap(back + k) = Wrap(front + len + k)
        BY <1>1, <4>1, WrapStep
      <4>3. QED
        BY <4>2 DEF k
    <3>4. front + len + (j - 1) = front + gone + i - 1 /\ back + (j - 1) = back + j - 1
      BY <1>1, <1>2, <3>1
    <3>5. all[gone + i] = t[j]
      <4>1. all[gone + i] = t[(gone + i) - len]
        <5> HIDE DEF j
        <5>1. QED
          BY <1>4, <2>1, <2>4
      <4>2. j = (gone + i) - len
        BY <1>1, <1>2
      <4> HIDE DEF j
      <4>3. QED
        BY <4>1, <4>2, Zenon
    <3>6. QED
      BY <2>2, <3>2, <3>3, <3>4, <3>5
  <2>5. QED
    BY <2>3, <2>4
<1>6. Contents' = [i \in 1 .. len' |-> all[gone + i]]
  BY <1>5 DEF Contents
<1>7. CASE len + n <= Cap
  <2>1. gone = 0 /\ len' = len + n
    BY <1>1, <1>7 DEF gone, Lesser
  <2>2. Abstract!Newest(all) = all
    BY <1>4, <1>7 DEF Abstract!Newest
  <2>3. all = [i \in 1 .. len + n |-> all[i]]
    BY <1>1, <1>4
  <2>4. QED
    BY <1>6, <2>1, <2>2, <2>3 DEF all
<1>8. CASE ~(len + n <= Cap)
  <2>1. gone = len + n - Cap /\ len' = Cap
    BY <1>1, <1>8 DEF gone, Lesser
  <2>2. Abstract!Newest(all) = SubSeq(all, len + n - Cap + 1, len + n)
    BY <1>1, <1>4, <1>8 DEF Abstract!Newest
  <2>3. SubSeq(all, gone + 1, len + n) = [i \in 1 .. (len + n) - (gone + 1) + 1 |-> all[gone + 1 + i - 1]]
    BY <1>1, <1>2, <1>4
  <2>4. (len + n) - (gone + 1) + 1 = len' /\ \A i \in 1 .. len' : gone + 1 + i - 1 = gone + i
    BY <1>1, <1>2
  <2>5. SubSeq(all, gone + 1, len + n) = [i \in 1 .. len' |-> all[gone + i]]
    BY <2>3, <2>4
  <2>6. QED
    BY <1>6, <2>1, <2>2, <2>5 DEF all
<1>9. QED
  BY <1>7, <1>8

\* Moving the front past n elements takes exactly those off the queue.
LEMMA Popped ==
  ASSUME IInv, NEW n \in 1 .. len,
         elems' = elems, len' = len - n, front' \in Nat, Wrap(front') = Wrap(front + n)
  PROVE  Contents' = SubSeq(Contents, n + 1, len)
<1>1. front \in Nat /\ len \in Nat /\ n \in Nat /\ len' \in Nat
  BY CapAssumption DEF IInv
<1>2. /\ Contents \in Seq(Elem) /\ Len(Contents) = len
      /\ \A i \in 1 .. len : Contents[i] = elems[Wrap(front + i - 1)]
  BY ContentsType
<1>3. ASSUME NEW i \in 1 .. len' PROVE elems'[Wrap(front' + i - 1)] = Contents[n + i]
  <2>1. i - 1 \in Nat /\ front + n \in Nat /\ n + i \in 1 .. len
    BY <1>1
  <2>2. Wrap(front' + (i - 1)) = Wrap(front + n + (i - 1))
    BY <2>1, WrapStep
  <2>3. front' + (i - 1) = front' + i - 1 /\ front + n + (i - 1) = front + (n + i) - 1
    BY <1>1, <2>1
  <2>4. Contents[n + i] = elems[Wrap(front + (n + i) - 1)]
    BY <1>2, <2>1
  <2>5. QED
    BY <2>2, <2>3, <2>4
<1>4. Contents' = [i \in 1 .. len' |-> Contents[n + i]]
  BY <1>3 DEF Contents
<1>5. SubSeq(Contents, n + 1, len) = [i \in 1 .. len' |-> Contents[n + i]]
  <2> HIDE DEF Contents
  <2>1. SubSeq(Contents, n + 1, len) = [i \in 1 .. len - (n + 1) + 1 |-> Contents[n + 1 + i - 1]]
    BY <1>1, <1>2, SubSeqIs
  <2>2. len - (n + 1) + 1 = len' /\ \A i \in 1 .. len' : n + 1 + i - 1 = n + i
    BY <1>1
  <2>3. QED
    BY <2>1, <2>2
<1>6. QED
  BY <1>4, <1>5

\* What dequeue_some copies out is what it takes off.
LEMMA LoadedIsPrefix ==
  ASSUME IInv, NEW n \in 1 .. len
  PROVE  Loaded(front, n) = SubSeq(Contents, 1, n)
<1>1. front \in Nat /\ len \in Nat /\ n \in 1 .. Cap /\ n \in Nat
  BY CapAssumption DEF IInv
<1>2. /\ Contents \in Seq(Elem) /\ Len(Contents) = len
      /\ \A i \in 1 .. len : Contents[i] = elems[Wrap(front + i - 1)]
  BY ContentsType
<1>3. Loaded(front, n) = [j \in 1 .. n |-> elems[Wrap(front + j - 1)]]
  BY <1>1, LoadedSlots
<1>4. SubSeq(Contents, 1, n) = [i \in 1 .. n |-> Contents[i]]
  <2> HIDE DEF Contents
  <2>1. SubSeq(Contents, 1, n) = [i \in 1 .. n - 1 + 1 |-> Contents[1 + i - 1]]
    BY <1>1, <1>2
  <2>2. n - 1 + 1 = n /\ \A i \in 1 .. n : 1 + i - 1 = i
    BY <1>1
  <2>3. QED
    BY <2>1, <2>2
<1>5. QED
  BY <1>1, <1>2, <1>3, <1>4

-----------------------------------------------------------------------------
\* The types of what IInv leaves out: positions stay within the bound, and a
\* call returns no more than the queue holds.
Replies ==
  /\ front \in 0 .. MaxIndex /\ back \in 0 .. MaxIndex
  /\ reply.res \in {"ok", "EXFULL", "ENODATA", "ENOTRECOVERABLE"}
  /\ reply.out \in Outputs

LEMMA OutputKinds ==
  /\ <<>> \in Outputs
  /\ \A n \in 1 .. Cap : <<n>> \in Outputs
  /\ \A n \in 1 .. Cap : [1 .. n -> Elem] \subseteq Outputs
  /\ \A v \in Elem : <<v>> \in Outputs
<1>1. 1 \in 1 .. Cap
  BY CapAssumption
<1>2. \A v \in Elem : <<v>> \in [1 .. 1 -> Elem]
  OBVIOUS
<1>3. QED
  BY <1>1, <1>2 DEF Outputs

LEMMA InitReplies == Init => Replies
  BY OutputKinds, BoundsAssumption, CapAssumption DEF Init, Replies, Reply

LEMMA NextReplies == IInv /\ Replies /\ [Next]_vars => Replies'
<1> SUFFICES ASSUME IInv, Replies, [Next]_vars PROVE Replies'
  OBVIOUS
<1>1. /\ elems \in [Slots -> Elem] /\ front \in Nat /\ back \in Nat /\ len \in Nat /\ len <= Cap
      /\ Cap \in Nat \ {0} /\ MaxIndex \in Nat /\ Cap <= MaxIndex
      /\ front <= MaxIndex /\ back <= MaxIndex
  BY CapAssumption, BoundsAssumption DEF IInv, Replies
<1>2. ASSUME NEW pos \in Nat PROVE Wrap(pos) \in 0 .. MaxIndex
  <2>1. Wrap(pos) \in Slots
    BY WrapSlot
  <2>2. QED
    BY <1>1, <2>1 DEF Slots
<1>3. ASSUME NEW call, NEW res, NEW out, Answer(call, res, out),
             res \in {"ok", "EXFULL", "ENODATA", "ENOTRECOVERABLE"}, out \in Outputs
      PROVE  Replies'
  BY <1>1, <1>3 DEF Answer, Reply, Replies
<1>4. ASSUME NEW v \in Elem, NEW overwrite \in BOOLEAN, Enqueue(v, overwrite) PROVE Replies'
  <2>1. CASE len = Cap /\ ~overwrite
    <3>1. Answer(<<"enqueue", v, overwrite>>, "EXFULL", <<>>)
      BY <1>4, <2>1 DEF Enqueue
    <3>2. QED
      BY <1>3, <3>1, OutputKinds
  <2>2. CASE ~(len = Cap /\ ~overwrite)
    <3>1. /\ back' = Wrap(back + 1)
          /\ front' = Wrap(front + 1) \/ front' = front
          /\ reply'.res = "ok" /\ reply'.out = <<>>
      BY <1>4, <2>2 DEF Enqueue, Reply
    <3>2. back' \in 0 .. MaxIndex /\ front' \in 0 .. MaxIndex
      <4>1. Wrap(back + 1) \in 0 .. MaxIndex /\ Wrap(front + 1) \in 0 .. MaxIndex
        BY <1>1, <1>2
      <4>2. front \in 0 .. MaxIndex
        BY <1>1
      <4>3. QED
        BY <3>1, <4>1, <4>2
    <3>3. QED
      BY <3>1, <3>2, OutputKinds DEF Replies
  <2>3. QED
    BY <2>1, <2>2
<1>5. CASE Dequeue
  <2>1. CASE len = 0
    <3>1. Answer(<<"dequeue">>, "ENODATA", <<>>)
      BY <1>5, <2>1 DEF Dequeue
    <3>2. QED
      BY <1>3, <3>1, OutputKinds
  <2>2. CASE len # 0
    <3>1. /\ front' = Wrap(front + 1) /\ back' = back
          /\ reply'.res = "ok" /\ reply'.out = <<elems[Wrap(front)]>>
      BY <1>5, <2>2 DEF Dequeue, Reply
    <3>2. front' \in 0 .. MaxIndex
      BY <1>1, <1>2, <3>1
    <3>3. elems[Wrap(front)] \in Elem
      BY <1>1, WrapSlot
    <3>4. QED
      BY <1>1, <3>1, <3>2, <3>3, OutputKinds DEF Replies
  <2>3. QED
    BY <2>1, <2>2
<1>6. ASSUME NEW s \in Batches, NEW overwrite \in BOOLEAN, EnqueueSome(s, overwrite)
      PROVE  Replies'
  <2> DEFINE free == Cap - len
             room == IF overwrite THEN len + free ELSE free
             n    == Lesser(Len(s), room)
  <2>1. CASE room = 0
    <3>1. Answer(<<"enqueue_some", s, overwrite>>, "EXFULL", <<>>)
      BY <1>6, <2>1 DEF EnqueueSome
    <3>2. QED
      BY <1>3, <3>1, OutputKinds
  <2>2. CASE room # 0
    <3>1. Len(s) \in Nat \ {0}
      <4>1. PICK m \in 1 .. MaxBatch : s \in [1 .. m -> Elem]
        BY DEF Batches
      <4>2. QED
        BY <4>1, BoundsAssumption
    <3>2. free \in Nat /\ n \in 1 .. Cap
      BY <1>1, <2>2, <3>1 DEF Lesser
    <3>3. /\ back' = back + n /\ back + n <= MaxIndex /\ front + n <= MaxIndex
          /\ (front' = front + (n - free) /\ n > free) \/ front' = front
          /\ reply'.res \in {"ok", "EXFULL"} /\ reply'.out = <<n>>
      BY <1>6, <2>2 DEF EnqueueSome, Reply
    <3> HIDE DEF n, room, free
    <3>4. front' \in 0 .. MaxIndex /\ back' \in 0 .. MaxIndex
      BY <1>1, <3>2, <3>3
    <3>5. QED
      BY <3>2, <3>3, <3>4, OutputKinds DEF Replies
  <2>3. QED
    BY <2>1, <2>2
<1>7. ASSUME NEW wanted \in 1 .. MaxBatch, DequeueSome(wanted) PROVE Replies'
  <2> DEFINE n == Lesser(wanted, len)
  <2>1. CASE len = 0
    <3>1. Answer(<<"dequeue_some", wanted>>, "ENODATA", <<>>)
      BY <1>7, <2>1 DEF DequeueSome
    <3>2. QED
      BY <1>3, <3>1, OutputKinds
  <2>2. CASE len # 0
    <3>1. n \in 1 .. len /\ n \in 1 .. Cap
      BY <1>1, <2>2, BoundsAssumption DEF Lesser
    <3>2. /\ front' = front + n /\ front + n <= MaxIndex /\ back' = back
          /\ reply'.res \in {"ok", "ENODATA"} /\ reply'.out = Loaded(front, n)
      BY <1>7, <2>2 DEF DequeueSome, Reply
    <3> HIDE DEF n
    <3>3. Loaded(front, n) \in [1 .. n -> Elem]
      <4>1. Loaded(front, n) = [j \in 1 .. n |-> elems[Wrap(front + j - 1)]]
        BY <1>1, <3>1, LoadedSlots
      <4>2. ASSUME NEW j \in 1 .. n PROVE elems[Wrap(front + j - 1)] \in Elem
        <5>1. front + j - 1 \in Nat
          BY <1>1, <3>1
        <5>2. QED
          BY <1>1, <5>1, WrapSlot
      <4>3. QED
        BY <4>1, <4>2
    <3>4. QED
      BY <1>1, <3>1, <3>2, <3>3, OutputKinds DEF Replies
  <2>3. QED
    BY <2>1, <2>2
<1>8. CASE Front
  <2>1. len # 0 => <<elems[Wrap(front)]>> \in Outputs
    BY <1>1, WrapSlot, OutputKinds
  <2>2. QED
    BY <1>3, <1>8, <2>1, OutputKinds DEF Front
<1>9. CASE Back
  <2>1. Cap + back - 1 \in Nat
    BY <1>1
  <2>2. <<elems[Wrap(Cap + back - 1)]>> \in Outputs
    BY <1>1, <2>1, WrapSlot, OutputKinds
  <2>3. QED
    BY <1>3, <1>9, <2>2, OutputKinds DEF Back
<1>10. CASE Reset
  BY <1>1, <1>10, OutputKinds DEF Reset, Reply, Replies
<1>11. CASE UNCHANGED vars
  BY <1>11 DEF vars, Replies
<1>12. QED
  BY <1>4, <1>5, <1>6, <1>7, <1>8, <1>9, <1>10, <1>11 DEF Next

\* Every variable keeps its type: no call leaves more than Cap elements
\* counted, or returns something that is no element.
THEOREM TypeCorrect == Spec => []TypeOK
<1>1. IInv /\ Replies => TypeOK
  BY DEF IInv, Replies, TypeOK
<1>2. Spec => []Replies
  BY SpecIInv, InitReplies, NextReplies, PTL DEF Spec
<1>3. QED
  BY <1>1, <1>2, SpecIInv, PTL

-----------------------------------------------------------------------------
(***************************************************************************)
(* Every call is a call of Fifo on the contents.                           *)
(***************************************************************************)

\* A call that moves nothing leaves the contents as they are.
LEMMA AnswerKeeps ==
  ASSUME NEW call, NEW res, NEW out, Answer(call, res, out)
  PROVE  Contents' = Contents /\ reply' = Abstract!Reply(call, res, out)
  BY DEF Answer, Contents, Reply, Abstract!Reply

LEMMA EnqueueRefines ==
  ASSUME IInv, NEW v \in Elem, NEW overwrite \in BOOLEAN, Enqueue(v, overwrite)
  PROVE  Abstract!Enqueue(v, overwrite)
<1> DEFINE call == <<"enqueue", v, overwrite>>
<1>1. /\ elems \in [Slots -> Elem] /\ front \in Nat /\ back \in Nat /\ len \in Nat /\ len <= Cap
      /\ Cap \in Nat \ {0} /\ 1 \in 1 .. Cap
  BY CapAssumption DEF IInv
<1>2. Contents \in Seq(Elem) /\ Len(Contents) = len
  BY ContentsType
<1>3. CASE len = Cap /\ ~overwrite
  <2>1. Answer(call, "EXFULL", <<>>)
    BY <1>3 DEF Enqueue
  <2>2. Contents' = Contents /\ reply' = Abstract!Reply(call, "EXFULL", <<>>)
    BY <2>1, AnswerKeeps
  <2>3. QED
    BY <1>2, <1>3, <2>2 DEF Abstract!Enqueue, Abstract!Fails
<1>4. CASE ~(len = Cap /\ ~overwrite)
  <2>1. /\ elems' = [elems EXCEPT ![Wrap(back)] = v]
        /\ reply' = Abstract!Reply(call, "ok", <<>>)
        /\ len = Cap => front' = Wrap(front + 1) /\ len' = len
        /\ len # Cap => len' = len + 1 /\ front' = front
    BY <1>3, <1>4 DEF Enqueue, Reply, Abstract!Reply
  <2>2. len' = Lesser(len + 1, Cap)
    BY <1>1, <2>1 DEF Lesser
  <2>3. front' \in Nat /\ Wrap(front') = Wrap(front + (len + 1 - len'))
    <3>1. CASE len = Cap
      <4>1. len + 1 - len' = 1 /\ front + 1 \in Nat /\ front' = Wrap(front + 1)
        BY <1>1, <2>1, <3>1
      <4>2. QED
        BY <4>1, WrapSlot, WrapTwice
    <3>2. CASE len # Cap
      <4>1. len + 1 - len' = 0 /\ front + 0 = front /\ front' = front
        BY <1>1, <2>1, <3>2
      <4>2. QED
        BY <1>1, <4>1
    <3>3. QED
      BY <3>1, <3>2
  <2>4. WrittenAtBack(<<v>>, 1)
    <3> SUFFICES ASSUME NEW j \in 1 .. Cap
                 PROVE  elems'[Wrap(back + j - 1)] =
                          IF j <= 1 THEN <<v>>[j] ELSE elems[Wrap(back + j - 1)]
      BY DEF WrittenAtBack
    <3>1. back + j - 1 \in Nat /\ j \in Nat
      BY <1>1
    <3>2. Wrap(back + j - 1) \in Slots /\ Wrap(back) \in Slots
      BY <1>1, <3>1, WrapSlot
    <3>3. CASE j = 1
      <4>1. back + j - 1 = back
        BY <1>1, <3>3
      <4>2. QED
        BY <1>1, <2>1, <3>2, <3>3, <4>1
    <3>4. CASE j # 1
      <4>1. Wrap(back + j - 1) # Wrap(back)
        <5>1. back <= back + j - 1 /\ back + j - 1 < back + Cap /\ back # back + j - 1
          BY <1>1, <3>1, <3>4
        <5>2. QED
          BY <1>1, <3>1, <5>1, ModInjective DEF Wrap
      <4>2. QED
        BY <1>1, <2>1, <3>1, <3>2, <3>4, <4>1
    <3>5. QED
      BY <3>3, <3>4
  <2>5. <<v>> \in Seq(Elem) /\ Len(<<v>>) = 1
    OBVIOUS
  <2>6. Contents' = Abstract!Newest(Contents \o <<v>>)
    BY <1>1, <2>2, <2>3, <2>4, <2>5, Pushed
  <2>7. Contents \o <<v>> = Append(Contents, v)
    BY <1>2
  <2>8. QED
    BY <1>2, <1>4, <2>1, <2>6, <2>7 DEF Abstract!Enqueue
<1>5. QED
  BY <1>3, <1>4

LEMMA DequeueRefines == ASSUME IInv, Dequeue PROVE Abstract!Dequeue
<1>1. front \in Nat /\ len \in Nat
  BY CapAssumption DEF IInv
<1>2. /\ Contents \in Seq(Elem) /\ Len(Contents) = len /\ (Contents = <<>> <=> len = 0)
      /\ \A i \in 1 .. len : Contents[i] = elems[Wrap(front + i - 1)]
  BY ContentsType
<1>3. CASE len = 0
  <2>1. Answer(<<"dequeue">>, "ENODATA", <<>>)
    BY <1>3 DEF Dequeue
  <2>2. Contents' = Contents /\ reply' = Abstract!Reply(<<"dequeue">>, "ENODATA", <<>>)
    BY <2>1, AnswerKeeps
  <2>3. QED
    BY <1>2, <1>3, <2>2 DEF Abstract!Dequeue, Abstract!Fails
<1>4. CASE len # 0
  <2>1. /\ elems' = elems /\ len' = len - 1 /\ front' = Wrap(front + 1)
        /\ reply' = Abstract!Reply(<<"dequeue">>, "ok", <<elems[Wrap(front)]>>)
    BY <1>4 DEF Dequeue, Reply, Abstract!Reply
  <2>2. 1 \in 1 .. len /\ front + 1 \in Nat
    BY <1>1, <1>4
  <2>3. front' \in Nat /\ Wrap(front') = Wrap(front + 1)
    BY <2>1, <2>2, WrapSlot, WrapTwice
  <2>4. Contents' = SubSeq(Contents, 2, len)
    <3>1. Contents' = SubSeq(Contents, 1 + 1, len)
      BY <2>1, <2>2, <2>3, Popped
    <3>2. QED
      BY <3>1
  <2>5. Tail(Contents) = SubSeq(Contents, 2, len) /\ Head(Contents) = Contents[1]
    <3> HIDE DEF Contents
    <3>1. QED
      BY <1>1, <1>2, <1>4
  <2>6. Head(Contents) = elems[Wrap(front)]
    <3>1. front + 1 - 1 = front
      BY <1>1
    <3>2. QED
      BY <1>2, <2>2, <2>5, <3>1
  <2>7. QED
    BY <1>2, <1>4, <2>1, <2>4, <2>5, <2>6 DEF Abstract!Dequeue
<1>5. QED
  BY <1>3, <1>4

LEMMA EnqueueSomeRefines ==
  ASSUME IInv, NEW s \in Batches, NEW overwrite \in BOOLEAN, EnqueueSome(s, overwrite)
  PROVE  Abstract!EnqueueSome(s, overwrite)
<1> DEFINE call == <<"enqueue_some", s, overwrite>>
           free == Cap - len
           room == IF overwrite THEN len + free ELSE free
           n    == Lesser(Len(s), room)
           most == IF overwrite THEN Cap ELSE Cap - Len(Contents)
           t    == SubSeq(s, 1, n)
<1>1. /\ elems \in [Slots -> Elem] /\ front \in Nat /\ back \in Nat /\ len \in Nat /\ len <= Cap
      /\ Cap \in Nat \ {0}
  BY CapAssumption DEF IInv
<1>2. Contents \in Seq(Elem) /\ Len(Contents) = len
  BY ContentsType
<1>3. s \in Seq(Elem) /\ Len(s) \in Nat \ {0}
  <2>1. PICK m \in 1 .. MaxBatch : s \in [1 .. m -> Elem]
    BY DEF Batches
  <2>2. QED
    BY <2>1, BoundsAssumption
<1>4. most = room
  BY <1>1, <1>2
<1>5. Abstract!Lesser(Len(s), most) = n
  BY <1>4 DEF Lesser, Abstract!Lesser
<1>6. CASE room = 0
  <2>1. Answer(call, "EXFULL", <<>>)
    BY <1>6 DEF EnqueueSome
  <2>2. Contents' = Contents /\ reply' = Abstract!Reply(call, "EXFULL", <<>>)
    BY <2>1, AnswerKeeps
  <2>3. QED
    BY <1>4, <1>6, <2>2 DEF Abstract!EnqueueSome, Abstract!Fails
<1>7. CASE room # 0
  <2>1. /\ elems' = Stored(back, s, n)
        /\ n > free => front' = front + (n - free) /\ len' = len + free
        /\ ~(n > free) => len' = len + n /\ front' = front
        /\ reply' = Abstract!Reply(call, IF n = Len(s) THEN "ok" ELSE "EXFULL", <<n>>)
    BY <1>7 DEF EnqueueSome, Reply, Abstract!Reply
  <2>2. free \in Nat /\ free = Cap - len /\ n \in 1 .. Cap /\ n \in Nat /\ n <= Len(s)
    BY <1>1, <1>3, <1>7 DEF Lesser
  <2>3. t \in Seq(Elem) /\ Len(t) = n /\ \A j \in 1 .. n : t[j] = s[j]
    <3> HIDE DEF n
    <3>1. QED
      BY <1>3, <2>2
  <2>4. WrittenAtBack(t, n)
    <3>1. ASSUME NEW j \in 1 .. Cap
          PROVE  elems'[Wrap(back + j - 1)] = IF j <= n THEN t[j] ELSE elems[Wrap(back + j - 1)]
      <4> HIDE DEF n, t
      <4>1. elems'[Wrap(back + j - 1)] = IF j <= n THEN s[j] ELSE elems[Wrap(back + j - 1)]
        <5>1. Stored(back, s, n)[Wrap(back + j - 1)] =
                IF j <= n THEN s[j] ELSE elems[Wrap(back + j - 1)]
          BY <1>1, <2>2, StoredSlots
        <5>2. QED
          BY <2>1, <5>1, Zenon
      <4>2. j <= n => j \in 1 .. n
        BY <2>2
      <4>3. QED
        BY <2>3, <4>1, <4>2
    <3>2. QED
      BY <3>1 DEF WrittenAtBack
  <2> HIDE DEF n, t, free, room
  <2>5. /\ len' = Lesser(len + n, Cap)
        /\ front' \in Nat /\ front' = front + (len + n - len')
    BY <1>1, <2>1, <2>2 DEF Lesser
  <2>6. Contents' = Abstract!Newest(Contents \o t)
    BY <2>2, <2>3, <2>4, <2>5, Pushed
  <2>7. most # 0
    BY <1>4, <1>7
  <2>8. Abstract!EnqueueSome(s, overwrite) <=>
          LET k == Abstract!Lesser(Len(s), most)
          IN IF most = 0
             THEN Abstract!Fails(call, "EXFULL")
             ELSE /\ Contents' = Abstract!Newest(Contents \o SubSeq(s, 1, k))
                  /\ reply' = Abstract!Reply(call, IF k = Len(s) THEN "ok" ELSE "EXFULL", <<k>>)
    BY DEF Abstract!EnqueueSome
  <2>9. QED
    <3> HIDE DEF most, call
    <3>1. QED
      BY <1>5, <2>1, <2>6, <2>7, <2>8 DEF t
<1>8. QED
  BY <1>6, <1>7

LEMMA DequeueSomeRefines ==
  ASSUME IInv, NEW wanted \in 1 .. MaxBatch, DequeueSome(wanted)
  PROVE  Abstract!DequeueSome(wanted)
<1> DEFINE call == <<"dequeue_some", wanted>>
           n    == Lesser(wanted, len)
<1>1. front \in Nat /\ len \in Nat /\ wanted \in Nat \ {0}
  BY CapAssumption, BoundsAssumption DEF IInv
<1>2. Contents \in Seq(Elem) /\ Len(Contents) = len /\ (Contents = <<>> <=> len = 0)
  BY ContentsType
<1>3. Abstract!Lesser(wanted, Len(Contents)) = n
  BY <1>2 DEF Lesser, Abstract!Lesser
<1>4. CASE len = 0
  <2>1. Answer(call, "ENODATA", <<>>)
    BY <1>4 DEF DequeueSome
  <2>2. Contents' = Contents /\ reply' = Abstract!Reply(call, "ENODATA", <<>>)
    BY <2>1, AnswerKeeps
  <2>3. QED
    BY <1>2, <1>4, <2>2 DEF Abstract!DequeueSome, Abstract!Fails
<1>5. CASE len # 0
  <2>1. /\ elems' = elems /\ front' = front + n /\ len' = len - n
        /\ reply' = Abstract!Reply(call, IF n = wanted THEN "ok" ELSE "ENODATA", Loaded(front, n))
    BY <1>5 DEF DequeueSome, Reply, Abstract!Reply
  <2>2. n \in 1 .. len /\ n \in Nat
    BY <1>1, <1>5 DEF Lesser
  <2> HIDE DEF n
  <2>3. front' \in Nat
    BY <1>1, <2>1, <2>2
  <2>4. Contents' = SubSeq(Contents, n + 1, len)
    BY <2>1, <2>2, <2>3, Popped
  <2>5. Loaded(front, n) = SubSeq(Contents, 1, n)
    BY <2>2, LoadedIsPrefix
  <2>6. Contents # <<>>
    BY <1>2, <1>5
  <2>7. QED
    BY <1>2, <1>3, <2>1, <2>4, <2>5, <2>6 DEF Abstract!DequeueSome
<1>6. QED
  BY <1>4, <1>5

LEMMA FrontRefines == ASSUME IInv, Front PROVE Abstract!Front
<1>1. front \in Nat /\ len \in Nat
  BY CapAssumption DEF IInv
<1>2. /\ Contents \in Seq(Elem) /\ Len(Contents) = len /\ (Contents = <<>> <=> len = 0)
      /\ \A i \in 1 .. len : Contents[i] = elems[Wrap(front + i - 1)]
  BY ContentsType
<1>3. CASE len = 0
  BY <1>2, <1>3, AnswerKeeps DEF Front, Abstract!Front, Abstract!Fails
<1>4. CASE len # 0
  <2>1. Head(Contents) = Contents[1]
    OBVIOUS
  <2>2. 1 \in 1 .. len /\ front + 1 - 1 = front
    BY <1>1, <1>4
  <2>3. Head(Contents) = elems[Wrap(front)]
    BY <1>2, <2>1, <2>2
  <2>4. QED
    BY <1>2, <1>4, <2>3, AnswerKeeps DEF Front, Abstract!Front
<1>5. QED
  BY <1>3, <1>4

LEMMA BackRefines == ASSUME IInv, Back PROVE Abstract!Back
<1>1. /\ front \in Nat /\ back \in Nat /\ len \in Nat /\ Cap \in Nat \ {0}
      /\ Wrap(back) = Wrap(front + len)
  BY CapAssumption DEF IInv, IndicesAgree
<1>2. /\ Contents \in Seq(Elem) /\ Len(Contents) = len /\ (Contents = <<>> <=> len = 0)
      /\ \A i \in 1 .. len : Contents[i] = elems[Wrap(front + i - 1)]
  BY ContentsType
<1>3. CASE len = 0
  BY <1>2, <1>3, AnswerKeeps DEF Back, Abstract!Back, Abstract!Fails
<1>4. CASE len # 0
  <2>1. len \in 1 .. len /\ front + len - 1 \in Nat /\ front + len \in Nat
    BY <1>1, <1>4
  <2>2. Wrap(Cap + back - 1) = Wrap(front + len - 1)
    <3> DEFINE k == Cap - 1
    <3>1. k \in Nat /\ back + k = Cap + back - 1 /\ front + len + k = front + len - 1 + Cap
      BY <1>1
    <3> HIDE DEF k
    <3>2. Wrap(back + k) = Wrap(front + len + k)
      BY <1>1, <2>1, <3>1, WrapStep
    <3>3. Wrap(front + len - 1 + Cap) = Wrap(front + len - 1)
      BY <2>1, WrapRound
    <3>4. QED
      BY <3>1, <3>2, <3>3
  <2>3. Contents[Len(Contents)] = elems[Wrap(Cap + back - 1)]
    BY <1>2, <2>1, <2>2
  <2>4. QED
    BY <1>2, <1>4, <2>3, AnswerKeeps DEF Back, Abstract!Back
<1>5. QED
  BY <1>3, <1>4

LEMMA ResetRefines == (Init => Abstract!Init) /\ (Reset => Abstract!Reset)
<1>1. len = 0 => Contents = <<>>
  BY DEF Contents
<1>2. len' = 0 => Contents' = <<>>
  BY DEF Contents
<1>3. QED
  BY <1>1, <1>2 DEF Init, Reset, Reply, Abstract!Init, Abstract!Reset, Abstract!Reply

\* Every call of the ring buffer is the same call of the queue it promises to
\* be, with the same return code and the same output, or changes nothing.
THEOREM ImplementsFifo == Spec => IsFifo
<1>1. Init => Abstract!Init
  BY ResetRefines
<1>2. IInv /\ [Next]_vars => [Abstract!Next]_(Abstract!vars)
  <2> SUFFICES ASSUME IInv, [Next]_vars PROVE [Abstract!Next]_(Abstract!vars)
    OBVIOUS
  <2>1. ASSUME NEW v \in Elem, NEW overwrite \in BOOLEAN, Enqueue(v, overwrite)
        PROVE  Abstract!Next
    BY <2>1, EnqueueRefines DEF Abstract!Next
  <2>2. CASE Dequeue
    BY <2>2, DequeueRefines DEF Abstract!Next
  <2>3. ASSUME NEW s \in Batches, NEW overwrite \in BOOLEAN, EnqueueSome(s, overwrite)
        PROVE  Abstract!Next
    BY <2>3, EnqueueSomeRefines DEF Abstract!Next, Batches, Abstract!Batches
  <2>4. ASSUME NEW wanted \in 1 .. MaxBatch, DequeueSome(wanted)
        PROVE  Abstract!Next
    BY <2>4, DequeueSomeRefines DEF Abstract!Next
  <2>5. CASE Front
    BY <2>5, FrontRefines DEF Abstract!Next
  <2>6. CASE Back
    BY <2>6, BackRefines DEF Abstract!Next
  <2>7. CASE Reset
    BY <2>7, ResetRefines DEF Abstract!Next
  <2>8. CASE UNCHANGED vars
    BY <2>8 DEF vars, Contents, Abstract!vars
  <2>9. QED
    BY <2>1, <2>2, <2>3, <2>4, <2>5, <2>6, <2>7, <2>8 DEF Next
<1>3. QED
  BY <1>1, <1>2, SpecIInv, PTL DEF Spec, IsFifo, Abstract!Spec
=============================================================================
