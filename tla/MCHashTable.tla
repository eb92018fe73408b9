----------------------------- MODULE MCHashTable -----------------------------
(***************************************************************************)
(* Three keys in a table of two slots, which grows to eight and then to    *)
(* thirty-two, or stays full when memory is refused.  Hashes collide in    *)
(* the small tables and, some of them, in every table.  Arenas of two,     *)
(* four, eight and sixteen bytes, one of each for the header: a key of     *)
(* four bytes needs two arenas more at once.                               *)
(***************************************************************************)
EXTENDS HashTable, TLC

MCHashes == {[offset |-> 0, iterate |-> 1], [offset |-> 9, iterate |-> 2]}

NameSymmetry == Permutations(Keys) \cup Permutations(Vals)
=============================================================================
