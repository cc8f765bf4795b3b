------------------------- MODULE ElectionRefinement -------------------------
(***************************************************************************)
(* Election keeps the promise of BallotBox.  The mapping reads only what   *)
(* the engine has stored, so the promise holds across every crash and      *)
(* restart: the log for the order of the votes, the vote statuses for the  *)
(* refused ones, the folded batches for the published ciphertext, and the  *)
(* stored results for the tally.                                           *)
(***************************************************************************)
EXTENDS Election

\* The votes a state that went through the batches s counts: a ballot stays in
\* its slot until a later batch has a vote of the slot.
CountedIn(s) ==
    {v \in Votes : \E i \in 1..Len(s) :
        v \in s[i] /\ \A j \in (i + 1)..Len(s) : \A u \in s[j] : Slot[u] # Slot[v]}

PhaseOf(st) ==
    CASE st = NoElection                -> "none"
      [] st \in {Active, Paused}         -> "open"
      [] st = Ended                      -> "closed"
      [] st \in {Decrypting, Finalizing} -> "published"
      [] st = Results                    -> "announced"
      [] st = Canceled                   -> "canceled"

Promise == INSTANCE BallotBox WITH
    phase  <- PhaseOf(status),
    castAt <- voteSeq,
    void   <- VotesWithStatus(Error),
    box    <- IF status \in {Decrypting, Finalizing, Results}
              THEN CountedIn(SubSeq(batches, 1, folded)) ELSE {},
    tally  <- CountedIn(results)

\* Without the two writes that lose a vote (F2 and F4 of the README), every
\* step of the engine is a step of the ballot box or invisible to it: votes
\* are refused only for a collision whose other vote stays, what is published
\* is exactly the last valid vote of every slot, and what is announced is what
\* was published (SubmitVote, sealLocked, drain, Finalize, restore).
PromiseKept == Promise!Spec
=============================================================================
