---------------------------- MODULE MCFoldChain ----------------------------
(* Small instances of FoldChain for TLC. *)
EXTENDS FoldChain

CONSTANTS w1, w2
MCWorkers == {w1, w2}
\* One prover whose proofs the aggregator rejects.
MCBad == {w1}
=============================================================================
