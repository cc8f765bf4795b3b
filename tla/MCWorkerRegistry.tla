-------------------------- MODULE MCWorkerRegistry --------------------------
(* A small instance of WorkerRegistry for TLC. *)
EXTENDS WorkerRegistry
=============================================================================
