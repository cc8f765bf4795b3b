----------------------------- MODULE MCElection -----------------------------
(* Small instances of Election for TLC. *)
EXTENDS ElectionRefinement

\* Votes 1 and 2 are of one voter (an overwrite); votes 1 and 3 collide in the
\* vote-ID tree, so whichever of them is applied second is refused.
MCVotes == {1, 2, 3}
MCSlot == [v \in MCVotes |-> IF v = 3 THEN 2 ELSE 1]
MCKey == [v \in MCVotes |-> IF v = 3 THEN 1 ELSE v]

\* Every fault except the two that lose a vote (README, findings).
MCSafeFaults == Faults \ {"CancelUpdate", "DropStatus"}
=============================================================================
