----------------------------- MODULE MCReshape ------------------------------
(***************************************************************************)
(* Lines of up to MaxTokens tokens, for TLC.                               *)
(***************************************************************************)
EXTENDS Reshape
=============================================================================
