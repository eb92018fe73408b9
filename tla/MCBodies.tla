------------------------------ MODULE MCBodies ------------------------------
(* Bodies for TLC: every program of at most MaxLines brace lines.          *)
EXTENDS Bodies
=============================================================================
