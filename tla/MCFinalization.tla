--------------------------- MODULE MCFinalization ---------------------------
(* A small instance of Finalization for TLC. *)
EXTENDS Finalization
=============================================================================
