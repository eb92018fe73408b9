------------------------------ MODULE MCVqueue ------------------------------
(***************************************************************************)
(* A queue of three slots.  Batches of up to four elements wrap around the *)
(* last slot and exceed the queue; positions run to 8, twice round it.     *)
(***************************************************************************)
EXTENDS Vqueue
=============================================================================
