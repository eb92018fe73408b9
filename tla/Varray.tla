------------------------------- MODULE Varray -------------------------------
(***************************************************************************)
(* The growable array (src/src/ds/varray.c), as far as the users modelled  *)
(* here call it: what an operation makes of an array is an operator.       *)
(* a.elems are the slots allocated, of which the first a.stored are the    *)
(* positions that can be used.                                             *)
(***************************************************************************)
EXTENDS Naturals, Sequences, FiniteSetsExt

CONSTANT Zero   (* the element made of zero bytes                          *)

Cap(a)   == Len(a.elems)
Zeros(n) == [i \in 1 .. n |-> Zero]
Blank    == [elems |-> <<>>, stored |-> 0]

\* What doubling j times multiplies by.
TwoTo[j \in Nat] == IF j = 0 THEN 1 ELSE 2 * TwoTo[j - 1]

\* The capacity varray_grow chooses: cap + 1, doubled until it is enough.
GrownCap(cap, increase) ==
  Min({c \in {(cap + 1) * TwoTo[j] : j \in 0 .. increase} : c >= cap + increase})

\* varray_grow
Grown(a, increase) ==
  IF a.elems = <<>>
  THEN [elems |-> Zeros(increase), stored |-> a.stored + increase]
  ELSE [elems  |-> a.elems \o Zeros(GrownCap(Cap(a), increase) - Cap(a)),
        stored |-> a.stored + increase]

\* varray_shrink
Shrunk(a, decrease) ==
  [elems  |-> SubSeq(a.elems, 1, Cap(a) - decrease),
   stored |-> Min({a.stored, Cap(a) - decrease})]

\* varray_realloc; a size of zero is never asked for.
Realloced(a, size) ==
  IF size = Cap(a) THEN a
  ELSE IF size > Cap(a) THEN Grown(a, size - Cap(a))
  ELSE Shrunk(a, Cap(a) - size)

\* varray_get_direct and varray_set; positions start at 0.
At(a, pos)         == a.elems[pos + 1]
Updated(a, pos, e) == [a EXCEPT !.elems[pos + 1] = e]
=============================================================================
