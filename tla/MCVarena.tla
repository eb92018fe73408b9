------------------------------ MODULE MCVarena ------------------------------
(***************************************************************************)
(* An arena of eight bytes with headers of two: room for two nested        *)
(* frames, and for several blocks in each.                                 *)
(***************************************************************************)
EXTENDS Varena
=============================================================================
