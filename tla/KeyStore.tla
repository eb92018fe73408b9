------------------------------ MODULE KeyStore ------------------------------
(***************************************************************************)
(* Where an Nkht keeps the text of its keys (nkht_strdup in                *)
(* src/src/ds/nkht.c): a growable array of arenas, each twice as large as  *)
(* the one before.  A key goes into the last arena; when it does not fit,  *)
(* larger arenas are added until it does.  Slots of the table point to the *)
(* text, which must therefore stay where it is, whatever is added later.   *)
(*                                                                         *)
(* A part of HashTable, which says when a key is copied.  The array is a   *)
(* Varray and an arena a Varena of one frame, of which only the extent in  *)
(* use matters here.                                                       *)
(***************************************************************************)
EXTENDS Naturals, Sequences

CONSTANTS
  ArenaCap,   (* NKHT_INITIAL_KEY_BACKING_STORE_CAP                        *)
  FrameSize   (* sizeof(struct varena_frame), kept at the end of an arena  *)

VARIABLES
  storage,   (* table->key_backing_storage, whose elements name arenas     *)
  arenas     (* every arena created: its capacity and its top              *)

\* No arena: what a new position of the array holds.
NoArena == 0

Array == INSTANCE Varray WITH Zero <- NoArena

-----------------------------------------------------------------------------
Fresh(cap) == [cap |-> cap, top |-> 0, live |-> TRUE]

\* The room of an arena whose one frame takes all of it.
Room(cap) == cap - FrameSize

\* _nkht_init: an array of one arena.
Init ==
  /\ arenas = <<Fresh(ArenaCap)>>
  /\ storage = Array!Updated(Array!Realloced(Array!Blank, 1), 0, 1)

\* The arena varray_get_direct finds last, if the position names one.
Last == Array!At(storage, storage.stored - 1)

\* Fault: the header of the arena's frame is not left alone.
FitsWithHeader(n) == Last # NoArena /\ arenas[Last].top + n <= arenas[Last].cap

\* varena_alloc finds room for a key of n bytes in the last arena.
Fits(n) == Last # NoArena /\ arenas[Last].top + n <= Room(arenas[Last].cap)

\* The capacity of the arena number i to be added.
NextCap(i) == arenas[Last].cap * Array!TwoTo[i]

\* How many arenas are added, each of twice the capacity, until one has room.
Needed(n) == CHOOSE j \in 1 .. n + FrameSize :
               /\ n <= Room(NextCap(j))
               /\ \A i \in 1 .. j - 1 : n > Room(NextCap(i))

\* Fault: the terminator is not counted.
TakenUnterminated(n) == n - 1

\* The bytes asked of the arena for a key of n bytes.
Taken(n) == n

\* Where the text of a key of n bytes goes: the bytes lo .. hi - 1 of an arena.
Place(n) ==
  IF Fits(n) THEN [arena |-> Last, lo |-> arenas[Last].top, hi |-> arenas[Last].top + n]
             ELSE [arena |-> Len(arenas) + Needed(n), lo |-> 0, hi |-> n]

\* Fault: the arena added takes the position of the one before it.
WithArenaOver(s, id) == Array!Updated(Array!Realloced(s, s.stored + 1), s.stored - 1, id)

\* The array with one position more, for the arena named id.
WithArena(s, id) ==
  LET grown == Array!Realloced(s, s.stored + 1)
  IN Array!Updated(grown, s.stored, id)

\* The array once the arenas created first + 1 .. first + n are in it.
WithArenas(s, first, n) ==
  LET f[i \in 0 .. n] == IF i = 0 THEN s ELSE WithArena(f[i - 1], first + i)
  IN f[n]

\* The first n of the arenas added next.
Added(n) == [i \in 1 .. n |-> Fresh(NextCap(i))]

\* The key goes into the last arena, after larger ones are added if it must.
CopyKey(n) ==
  \/ /\ Fits(n)
     /\ arenas' = [arenas EXCEPT ![Last].top = @ + Taken(n)]
     /\ UNCHANGED storage
  \/ /\ ~Fits(n) /\ Last # NoArena
     /\ storage' = WithArenas(storage, Len(arenas), Needed(n))
     /\ arenas' = [arenas \o Added(Needed(n)) EXCEPT ![Len(arenas) + Needed(n)].top = Taken(n)]

\* Memory is refused, for the array or for an arena, after some arenas were
\* added.  An array that had grown by then keeps the position, which names no
\* arena; from then on no arena can be added, as twice its capacity is zero.
CopyFails(n) ==
  /\ ~Fits(n)
  /\ \E done \in 0 .. IF Last = NoArena THEN 0 ELSE Needed(n) - 1 :
       LET kept == WithArenas(storage, Len(arenas), done)
       IN /\ storage' \in {kept, Array!Realloced(kept, kept.stored + 1)}
          /\ arenas' = IF done = 0 THEN arenas ELSE arenas \o Added(done)

\* The arenas the array names.
Named == {Array!At(storage, pos) : pos \in 0 .. storage.stored - 1} \ {NoArena}

\* nkht_deinit: the arenas the array names are freed, and then the array.
Release ==
  /\ arenas' = [i \in DOMAIN arenas |-> [arenas[i] EXCEPT !.live = i \notin Named]]
  /\ storage' = Array!Blank
=============================================================================
