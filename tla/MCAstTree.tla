----------------------------- MODULE MCAstTree ------------------------------
(***************************************************************************)
(* Lines of up to MaxTokens tokens, for TLC.                               *)
(***************************************************************************)
EXTENDS AstTree
=============================================================================
