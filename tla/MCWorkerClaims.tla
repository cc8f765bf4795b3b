--------------------------- MODULE MCWorkerClaims ---------------------------
(* A small instance of WorkerClaims for TLC.  It checks a liveness property, *)
(* so it uses no symmetry.                                                   *)
EXTENDS WorkerClaims
=============================================================================
