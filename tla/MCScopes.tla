------------------------------ MODULE MCScopes ------------------------------
(***************************************************************************)
(* Two names, of which any may be globals: enough for a local to hide a    *)
(* global, a parameter or another local while a third is looked up.        *)
(***************************************************************************)
EXTENDS Scopes, TLC

NameSymmetry == Permutations(Names)
=============================================================================
