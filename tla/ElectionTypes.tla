--------------------------- MODULE ElectionTypes ---------------------------
(***************************************************************************)
(* The two status types that davinci-fold persists: the lifecycle status   *)
(* of an election (types.Status) and the pipeline status of a vote         *)
(* (types.VoteStatus), with the moves the code allows between them.        *)
(***************************************************************************)
EXTENDS Integers

\* types.Status.  NoElection: no election record is stored yet.
NoElection == "none"
Active     == "active"
Paused     == "paused"
Ended      == "ended"
Decrypting == "decrypting"
Finalizing == "finalizing"
Results    == "results"
Canceled   == "canceled"

Status == {NoElection, Active, Paused, Ended, Decrypting, Finalizing, Results, Canceled}

\* types.VoteStatus: the persisted values are ordered and a vote moves up.
Pending == 0
Batched == 1
Folded  == 2
Settled == 3
Error   == 4

VoteStatus == 0..4

\* VoteStatus.Final
Final(s) == s \in {Settled, Error}

\* VoteStatus.CanMoveTo
CanMoveTo(s, next) == ~Final(s) /\ next > s

\* Mutant: the status is written whatever the vote's is.
MutMoveTo(s, next) == next
\* Storage.SetVoteStatus leaves a vote that is there or past it unchanged.
MoveTo(s, next) == IF CanMoveTo(s, next) THEN next ELSE s

\* statusChanges: what an organizer, or the end time, may ask for.
statusChanges(s) ==
    CASE s = Active -> {Paused, Ended, Canceled}
      [] s = Paused -> {Active, Ended, Canceled}
      [] OTHER      -> {}

\* The statuses restore loads a runtime for.
Loadable(s) == s \notin {NoElection, Canceled, Results}
=============================================================================
