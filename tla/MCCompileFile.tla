---------------------------- MODULE MCCompileFile ---------------------------
(***************************************************************************)
(* All sources of up to four lines over two names.                         *)
(***************************************************************************)
EXTENDS CompileFile
=============================================================================
