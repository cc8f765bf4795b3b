---------------------------- MODULE MCValidation ----------------------------
(* A small instance of Validation for TLC. *)
EXTENDS Validation

\* Three members, two of them the same voter with another weight: a tree with
\* a node that has no right neighbour.
MCCensus == <<Pack(0, 1), Pack(2, 0), Pack(2, 1)>>
=============================================================================
