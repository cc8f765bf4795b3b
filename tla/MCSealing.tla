----------------------------- MODULE MCSealing -----------------------------
(* Every buffer of up to four votes over four slots and two keys. *)
EXTENDS Sealing
=============================================================================
