--------------------------- MODULE ElectionProof ---------------------------
(***************************************************************************)
(* Theorems about Election, for every set of votes and every batch size:   *)
(* its types and the engine's agreement with its storage; no vote and no   *)
(* key is applied twice, the published election is frozen and its results  *)
(* are the tally of all its batches (every fault), and no vote is lost or  *)
(* overtaken (every fault but the two that lose a vote); a vote reads      *)
(* settled only when it is counted, the votes follow their election to its *)
(* results or its cancel, and Election implements BallotBox.               *)
(***************************************************************************)
EXTENDS Election, ElectionRefinement, FiniteSetTheorems, TLAPS

-----------------------------------------------------------------------------
(* Types, and what the engine has in memory of what it stored. *)

\* CreateElection has not run and nothing is stored: the types hold.
LEMMA TypeInit == Init => TypeOK
<1> SUFFICES ASSUME Init PROVE TypeOK
    OBVIOUS
<1>1. StoredOK
    BY DEF Init, StoredOK, Status, VoteStatus, NoElection, Pending
<1>2. RuntimeOK
    BY DEF Init, RuntimeOK
<1>3. ControlOK
    BY DEF Init, ControlOK, Sealers
<1> QED
    BY <1>1, <1>2, <1>3 DEF TypeOK

\* Storage.SetVoteStatus keeps every vote's status a status.
LEMMA SetVoteStatusType ==
    ASSUME NEW vs, NEW st \in VoteStatus, voteSt \in [Votes -> VoteStatus]
    PROVE  SetVoteStatus(vs, st) \in [Votes -> VoteStatus]
BY DEF SetVoteStatus, MoveTo

\* Every handler, write and failure of the engine keeps the types, and keeps
\* the holder of rt.mu, the drain guard and the sweeps in agreement.
LEMMA TypeNext == TypeOK /\ [Next]_vars => TypeOK'
<1> SUFFICES ASSUME TypeOK, [Next]_vars PROVE TypeOK'
    OBVIOUS
<1> USE DEF TypeOK, StoredOK, RuntimeOK, ControlOK, Sealers
<1>1. CASE Voter
  <2>1. CASE \E r \in Reqs : SubmitReject(r)
    BY <2>1 DEF SubmitReject, stored, records, buffer, chain, monitor
  <2>3. CASE \E r \in Reqs : \E v \in Votes : SubmitBegin(r, v)
    BY <2>3 DEF SubmitBegin, stored, records, buffer, chain, monitor
  <2>2. CASE \E r \in Reqs : SubmitCommit(r)
    <3> PICK r \in Reqs : SubmitCommit(r)
        BY <2>2
    <3>1. req[r] \in Votes
        BY DEF SubmitCommit, AddVote
    <3>2. StoredOK'
        BY <3>1 DEF SubmitCommit, AddVote, VoteStatus, Pending
    <3>3. RuntimeOK'
        BY <3>1 DEF SubmitCommit, AddVote, chain
    <3>4. ControlOK'
        BY <3>1 DEF SubmitCommit, AddVote, monitor
    <3> QED
        BY <3>2, <3>3, <3>4
  <2> QED
    BY <1>1, <2>1, <2>2, <2>3 DEF Voter
<1>2. CASE SealApply
  <2>1. NextBatch \in SUBSET Votes /\ SealBase \in Seq(SUBSET Votes)
    BY DEF NextBatch, FirstOfSlot, Buffered, SealBase
  <2>2. Dropped \in SUBSET Votes /\ Kept \in SUBSET Votes
    BY <2>1 DEF Dropped, Refused, Kept
  <2>3. Error \in VoteStatus
    BY DEF Error, VoteStatus
  <2>4. voteSt' \in [Votes -> VoteStatus]
    <3> PICK lost : voteSt' = SetVoteStatus(Dropped \ lost, Error)
        BY <1>2 DEF SealApply
    <3> QED
        BY <2>3, SetVoteStatusType
  <2>6. StoredOK'
    BY <1>2, <2>4 DEF SealApply
  <2>7. state' \in Seq(SUBSET Votes)
    <3>1. Append(SealBase, Kept) \in Seq(SUBSET Votes)
        BY <2>1, <2>2
    <3> QED
        BY <1>2, <3>1 DEF SealApply
  <2>8. RuntimeOK'
    BY <1>2, <2>2, <2>7 DEF SealApply, chain
  <2>5. ControlOK'
    BY <1>2 DEF SealApply, SealNext, WantsSeal, monitor
  <2> QED
    BY <2>5, <2>6, <2>8
<1>3. CASE SealPersist
  <2>1. batches' \in Seq(SUBSET Votes) /\ Len(batches') >= Len(batches)
    <3>1. CASE batchSeq + 1 = Len(batches) + 1
        BY <1>3, <3>1 DEF SealPersist, PutBatch
    <3>2. CASE batchSeq + 1 # Len(batches) + 1
        <4> DEFINE b == [j \in 1..Len(batches) |-> IF j = batchSeq + 1 THEN sealing ELSE batches[j]]
        <4>1. b \in Seq(SUBSET Votes) /\ Len(b) = Len(batches)
            OBVIOUS
        <4> QED
            BY <1>3, <3>2, <4>1 DEF SealPersist, PutBatch
    <3> QED
        BY <3>1, <3>2
  <2>2. StoredOK'
    BY <1>3, <2>1, SetVoteStatusType DEF SealPersist, VoteStatus, Batched
  <2>3. RuntimeOK'
    BY <1>3, <2>1 DEF SealPersist, chain
  <2>4. ControlOK'
    BY <1>3 DEF SealPersist, SealNext, monitor
  <2> QED
    BY <2>2, <2>3, <2>4
<1>4. CASE SealRestoreFails
  <2>1. NextBatch \in SUBSET Votes /\ SealBase \in Seq(SUBSET Votes)
    BY DEF NextBatch, FirstOfSlot, Buffered, SealBase
  <2>2. state' \in Seq(SUBSET Votes)
    <3>1. ASSUME NEW part \in SUBSET NextBatch PROVE Append(SealBase, part) \in Seq(SUBSET Votes)
        BY <2>1
    <3> QED
        BY <1>4, <2>1, <3>1 DEF SealRestoreFails
  <2> QED
    BY <1>4, <2>2 DEF SealRestoreFails, SealError, WantsSeal, stored, records, chain
<1>5. CASE SealPersistFails \/ SealDone
    BY <1>5 DEF SealPersistFails, SealDone, SealError, stored, records, buffer, chain
<1>6. CASE Monitor
    BY <1>6 DEF Monitor, TickOpen, SealIfStale, TickEnded, stored, records, buffer, chain
<1>7. CASE Organizer
  <2>1. CASE CreateElection
    <3>1. StoredOK'
      BY <2>1 DEF CreateElection, Status, Active
    <3>2. RuntimeOK'
      BY <2>1 DEF CreateElection, chain
    <3>3. ControlOK'
      BY <2>1 DEF CreateElection, monitor
    <3> QED
      BY <3>1, <3>2, <3>3
  <2>2. CASE \E to \in Status : PauseResume(to)
    <3>1. StoredOK'
      BY <2>2 DEF PauseResume, Status, records
    <3>2. RuntimeOK'
      BY <2>2 DEF PauseResume, records, buffer, chain
    <3>3. ControlOK'
      BY <2>2 DEF PauseResume, monitor
    <3> QED
      BY <3>1, <3>2, <3>3
  <2>4. CASE EndBegin \/ EndWrite \/ CancelDone
    <3>1. StoredOK'
      BY <2>4 DEF EndBegin, EndWrite, CancelDone, Status, Ended, stored, records
    <3>2. RuntimeOK'
      BY <2>4 DEF EndBegin, EndWrite, CancelDone, stored, records, buffer, chain
    <3>3. ControlOK'
      BY <2>4 DEF EndBegin, EndWrite, CancelDone, monitor
    <3> QED
      BY <3>1, <3>2, <3>3
  <2>5. CASE CancelBegin \/ CancelWrite
    <3>1. StoredOK'
      BY <2>5 DEF CancelBegin, CancelWrite, Status, Canceled, stored, records
    <3>2. RuntimeOK'
      BY <2>5 DEF CancelBegin, CancelWrite, Accepted, stored, records, buffer, chain
    <3>3. ControlOK'
      BY <2>5 DEF CancelBegin, CancelWrite, monitor
    <3> QED
      BY <3>1, <3>2, <3>3
  <2>3. CASE \E v \in Votes : CancelVote(v)
    BY <1>7, <2>3, SetVoteStatusType DEF CancelVote, VoteStatus, Error, buffer, chain, monitor
  <2> QED
    BY <1>7, <2>1, <2>2, <2>3, <2>4, <2>5 DEF Organizer
<1>8. CASE Drain \/ Fold
  <2>1. CASE DrainStart \/ DrainFails \/ DrainPublish
    <3>1. StoredOK'
      BY <2>1 DEF DrainStart, DrainFails, DrainPublish, Status, Decrypting, stored, records
    <3>2. RuntimeOK'
      BY <2>1 DEF DrainStart, DrainFails, DrainPublish, stored, records, buffer, chain
    <3>3. ControlOK'
      BY <2>1 DEF DrainStart, DrainFails, DrainPublish
    <3> QED
      BY <3>1, <3>2, <3>3
  <2>2. ASSUME NEW n, FoldStart(n) PROVE TypeOK'
    <3>1. StoredOK'
      BY <2>2 DEF FoldStart, stored, records
    <3>2. RuntimeOK'
      BY <2>2 DEF FoldStart, stored, records, buffer
    <3>3. ControlOK'
      BY <2>2 DEF FoldStart, monitor
    <3> QED
      BY <3>1, <3>2, <3>3
  <2>3. CASE FoldFails \/ CommitFold
    <3>1. StoredOK'
      BY <2>3 DEF FoldFails, CommitFold, stored, records
    <3>2. RuntimeOK'
      BY <2>3 DEF FoldFails, CommitFold, stored, records, buffer
    <3>3. ControlOK'
      BY <2>3 DEF FoldFails, CommitFold, monitor
    <3> QED
      BY <3>1, <3>2, <3>3
  <2>4. CASE \E v \in Votes : FoldVote(v)
    <3>4. voteSt' \in [Votes -> VoteStatus]
      <4>1. PICK v : voteSt' = SetVoteStatus({v}, Folded) \/ voteSt' = voteSt
        BY <2>4 DEF FoldVote
      <4>2. Folded \in VoteStatus
        BY DEF Folded, VoteStatus
      <4>3. SetVoteStatus({v}, Folded) \in [Votes -> VoteStatus]
        BY <4>2, SetVoteStatusType, Zenon
      <4> QED
        BY <4>1, <4>3
    <3>1. StoredOK'
      BY <2>4, <3>4 DEF FoldVote
    <3>2. RuntimeOK'
      BY <2>4 DEF FoldVote, buffer
    <3>3. ControlOK'
      BY <2>4 DEF FoldVote, monitor
    <3> QED
      BY <3>1, <3>2, <3>3
  <2> QED
    BY <1>8, <2>1, <2>2, <2>3, <2>4 DEF Drain, DrainFold, Fold
<1>9. CASE Finalize
  <2>1. CASE \E v \in Votes : SettleVote(v)
    BY <2>1, SetVoteStatusType DEF SettleVote, VoteStatus, Settled, buffer, chain, monitor
  <2>2. CASE KeyAccepted \/ FinalizeFails \/ FinalizeProved \/ FinalizeDone
    <3>1. StoredOK'
      BY <2>2 DEF KeyAccepted, FinalizeFails, FinalizeProved, FinalizeDone, Status, Decrypting, Finalizing, Results, records
    <3>2. RuntimeOK'
      BY <2>2 DEF KeyAccepted, FinalizeFails, FinalizeProved, FinalizeDone, Accepted, records, buffer, chain
    <3>3. ControlOK'
      BY <2>2 DEF KeyAccepted, FinalizeFails, FinalizeProved, FinalizeDone, monitor
    <3> QED
      BY <3>1, <3>2, <3>3
  <2> QED
    BY <1>9, <2>1, <2>2 DEF Finalize
<1>10. CASE Crash
    BY <1>10 DEF Crash, stored, records
<1>11. CASE Restart
    BY <1>11 DEF Restart, RestoredAt, Status, Decrypting, records, chain, monitor
<1>12. CASE UNCHANGED vars
    BY <1>12 DEF vars, stored, records, buffer, monitor, chain
<1> QED
    BY <1>1, <1>2, <1>3, <1>4, <1>5, <1>6, <1>7, <1>8, <1>9, <1>10, <1>11, <1>12 DEF Next, Seal

\* Every variable keeps its type and the control state of the goroutines agrees
\* (the drain under rt.mu is the guarded one; a batch is half sealed only under
\* a sealer; a sweep runs only in a cancel or a finalize), for all votes, batch
\* sizes and faults (Engine and Storage as a whole).
THEOREM TypeCorrect == Spec => []TypeOK
<1> QED
    BY TypeInit, TypeNext, PTL DEF Spec

-----------------------------------------------------------------------------
(* The state and storage, under every fault.                               *)

\* Who may hold rt.mu, and which background work may be there, by status.
StatusInv ==
    /\ status = NoElection => batches = <<>> /\ rt = "none"
    /\ mu \in {"end", "endWrite", "cancelWrite"} => status \in {Active, Paused}
    /\ "drainAndPublish" \in started \/ drain # "idle" =>
           rt = "loaded" /\ status \in {Ended, Decrypting, Finalizing, Results}
    /\ fin # "idle" => status = Finalizing /\ proc = "up"
    /\ \A r \in Reqs : req[r] # 0 => rt = "loaded" \/ status = Canceled

\* A runtime in use is loaded, and so is whoever seals on it.
RuntimeInv ==
    /\ rt = "loaded" => proc = "up" /\ batchSeq = Len(batches)
    /\ mu \in Sealers => rt = "loaded"
    /\ sealing # {} => rt = "loaded"
    /\ proc = "down" => mu = "free"
    /\ rt = "none" \/ mu = "cancelWrite" => at = [v \in Votes |-> 0]

\* The tree: a clean one is the stored one, and a batch being sealed is the
\* only thing the state has on top of it.
TreeInv ==
    /\ snapshot = batches
    /\ rt = "loaded" /\ tree = "clean" => state = batches
    /\ sealing # {} => tree = "dirty" /\ state = Append(batches, sealing)

StateInv == StatusInv /\ RuntimeInv /\ TreeInv

\* The invariant holds before the election is created.
LEMMA StateInit == Init => StateInv
<1> SUFFICES ASSUME Init PROVE StateInv
    OBVIOUS
<1>1. StatusInv
    BY DEF Init, StatusInv, NoElection
<1>2. RuntimeInv /\ TreeInv
    BY DEF Init, RuntimeInv, TreeInv, Sealers
<1> QED
    BY <1>1, <1>2 DEF StateInv

\* Every step keeps the status where the running goroutines need it
\* (changeStatus, drain, finalizeElection).
LEMMA StatusNext == TypeOK /\ StateInv /\ [Next]_vars => StatusInv'
<1> SUFFICES ASSUME TypeOK, StateInv, [Next]_vars PROVE StatusInv'
    OBVIOUS
<1> USE DEF StateInv, StatusInv, NoElection, Active, Paused, Ended, Decrypting, Finalizing,
            Results, Canceled, up, loaded
<1>1. CASE Voter
  <2>1. CASE \E r \in Reqs : SubmitReject(r)
    BY <2>1 DEF SubmitReject, TypeOK, RuntimeOK, stored, records, monitor
  <2>2. CASE \E r \in Reqs : SubmitCommit(r)
    BY <2>2 DEF SubmitCommit, AddVote, TypeOK, RuntimeOK, StillOpen, monitor
  <2>3. CASE \E r \in Reqs : \E v \in Votes : SubmitBegin(r, v)
    BY <2>3 DEF SubmitBegin, TypeOK, RuntimeOK, stored, records, monitor
  <2> QED
    BY <1>1, <2>1, <2>2, <2>3 DEF Voter
<1>2. CASE Seal
  <2>1. mu \in Sealers /\ rt = "loaded"
    BY <1>2 DEF Seal, SealApply, SealRestoreFails, SealPersist, SealPersistFails, SealDone,
                WantsSeal, RuntimeInv, TypeOK, ControlOK
  <2>2. CASE SealApply \/ SealPersist
    BY <2>1, <2>2 DEF SealApply, SealPersist, SealNext, RuntimeInv, Sealers, monitor
  <2>3. CASE SealRestoreFails \/ SealPersistFails \/ SealDone
    BY <2>1, <2>3 DEF SealRestoreFails, SealPersistFails, SealDone, SealError, Sealers, TypeOK,
                      ControlOK, stored, records
  <2> QED
    BY <1>2, <2>2, <2>3 DEF Seal
<1>3. CASE Monitor
    BY <1>3 DEF Monitor, TickOpen, SealIfStale, TickEnded, stored, records
<1>4. CASE Organizer
  <2>1. CASE CreateElection
    BY <2>1 DEF CreateElection, monitor, TypeOK, ControlOK
  <2>2. CASE \E to \in Status : PauseResume(to)
    BY <2>2 DEF PauseResume, statusChanges, records, monitor
  <2>3. CASE EndBegin \/ EndWrite \/ CancelDone
    BY <2>3 DEF EndBegin, EndWrite, CancelDone, statusChanges, stored, records, monitor
  <2>4. CASE CancelBegin \/ CancelWrite
    BY <2>4 DEF CancelBegin, CancelWrite, statusChanges, stored, records, monitor
  <2>5. CASE \E v \in Votes : CancelVote(v)
    BY <2>5 DEF CancelVote, monitor
  <2> QED
    BY <1>4, <2>1, <2>2, <2>3, <2>4, <2>5 DEF Organizer
<1>5. CASE Drain
    BY <1>5 DEF Drain, DrainStart, DrainFold, DrainFails, DrainPublish, FoldStart, MayPublish,
                RuntimeInv, stored, records, monitor
<1>6. CASE Fold
    BY <1>6 DEF Fold, FoldStart, FoldFails, CommitFold, FoldVote, stored, records, monitor
<1>7. CASE Finalize
    BY <1>7 DEF Finalize, KeyAccepted, FinalizeFails, FinalizeProved, FinalizeDone, SettleVote,
                records, monitor
<1>8. CASE Crash
    BY <1>8 DEF Crash, stored, records
<1>9. CASE Restart
    BY <1>9 DEF Restart, RuntimeInv, Loadable, records, monitor
<1>10. CASE UNCHANGED vars
    BY <1>10 DEF vars, stored, records, monitor
<1> QED
    BY <1>1, <1>2, <1>3, <1>4, <1>5, <1>6, <1>7, <1>8, <1>9, <1>10 DEF Next

\* Every step keeps the runtime what NewEngine and CreateElection made it:
\* there only while the process and the election are.
LEMMA RuntimeNext == TypeOK /\ StateInv /\ [Next]_vars => RuntimeInv'
<1> SUFFICES ASSUME TypeOK, StateInv, [Next]_vars PROVE RuntimeInv'
    OBVIOUS
<1> USE DEF StateInv, RuntimeInv, up, loaded, Sealers
<1>1. CASE Voter
  <2>1. CASE \E r \in Reqs : SubmitCommit(r)
    BY <2>1 DEF SubmitCommit, AddVote, StillOpen, StatusInv, Active, Canceled
  <2>2. CASE \E r \in Reqs : SubmitReject(r) \/ \E v \in Votes : SubmitBegin(r, v)
    BY <2>2 DEF SubmitReject, SubmitBegin, stored, records, buffer
  <2> QED
    BY <1>1, <2>1, <2>2 DEF Voter
<1>2. CASE SealApply
    BY <1>2 DEF SealApply, WantsSeal, SealNext
<1>3. CASE SealPersist
  <2>1. rt = "loaded" /\ batchSeq = Len(batches) /\ mu \in Sealers
    BY <1>3 DEF SealPersist, TypeOK, ControlOK
  <2>2. batches' = Append(batches, sealing)
    BY <1>3, <2>1 DEF SealPersist, PutBatch
  <2>3. Len(batches') = Len(batches) + 1
    BY <2>2 DEF TypeOK, StoredOK, RuntimeOK
  <2> QED
    BY <1>3, <2>1, <2>3 DEF SealPersist, SealNext
<1>4. CASE SealRestoreFails \/ SealPersistFails \/ SealDone
    BY <1>4 DEF SealRestoreFails, SealPersistFails, SealDone, SealError, WantsSeal, stored, records,
                buffer, TypeOK, ControlOK
<1>5. CASE Monitor
  <2>1. CASE TickOpen \/ TickEnded
    BY <2>1 DEF TickOpen, TickEnded, stored, records, buffer
  <2>2. CASE SealIfStale
    <3>1. Buffered # {} => rt = "loaded"
      BY DEF Buffered, TypeOK, RuntimeOK
    <3> QED
      BY <2>2, <3>1 DEF SealIfStale, stored, records, buffer
  <2> QED
    BY <1>5, <2>1, <2>2 DEF Monitor
<1>6. CASE Organizer
  <2>1. CASE CreateElection
    BY <2>1 DEF CreateElection, StatusInv, NoElection, Active, Paused
  <2>2. CASE \E to \in Status : PauseResume(to)
    BY <2>2 DEF PauseResume, records, buffer
  <2>3. CASE EndBegin \/ EndWrite \/ CancelDone
    BY <2>3 DEF EndBegin, EndWrite, CancelDone, stored, records, buffer
  <2>4. CASE CancelBegin
    BY <2>4 DEF CancelBegin, stored, records
  <2>5. CASE CancelWrite
    BY <2>5 DEF CancelWrite, records, buffer, TypeOK, ControlOK
  <2>6. CASE \E v \in Votes : CancelVote(v)
    BY <2>6 DEF CancelVote, buffer
  <2> QED
    BY <1>6, <2>1, <2>2, <2>3, <2>4, <2>5, <2>6 DEF Organizer
<1>7. CASE Drain
    BY <1>7 DEF Drain, DrainStart, DrainFold, DrainFails, DrainPublish, FoldStart, StatusInv,
                stored, records, buffer
<1>8. CASE Fold
    BY <1>8 DEF Fold, FoldStart, FoldFails, CommitFold, FoldVote, stored, records, buffer
<1>9. CASE Finalize
    BY <1>9 DEF Finalize, KeyAccepted, FinalizeFails, FinalizeProved, FinalizeDone, SettleVote,
                records, buffer
<1>10. CASE Crash
    BY <1>10 DEF Crash, stored, records
<1>11. CASE Restart
  <2>1. rt' = "none" => at' = [v \in Votes |-> 0]
    BY <1>11 DEF Restart
  <2>2. proc = "down" /\ mu = "free" /\ rt # "loaded"
    BY <1>11 DEF Restart, TypeOK, RuntimeOK
  <2> QED
    BY <1>11, <2>1, <2>2 DEF Restart, records
<1>12. CASE UNCHANGED vars
    BY <1>12 DEF vars, stored, records, buffer
<1> QED
    BY <1>1, <1>2, <1>3, <1>4, <1>5, <1>6, <1>7, <1>8, <1>9, <1>10, <1>11, <1>12 DEF Next, Seal

\* Every step keeps rt.state and the stored snapshot in step with the stored
\* batches (sealLocked, SealBatch, restoreState, runtimeFromStorage).
LEMMA TreeNext == TypeOK /\ StateInv /\ [Next]_vars => TreeInv'
<1> SUFFICES ASSUME TypeOK, StateInv, [Next]_vars PROVE TreeInv'
    OBVIOUS
<1> USE DEF StateInv, TreeInv, up, loaded
<1>1. CASE Voter
    BY <1>1 DEF Voter, SubmitReject, SubmitBegin, SubmitCommit, AddVote, stored, records, buffer
<1>2. CASE SealApply
  <2>1. SealBase = batches
    BY <1>2 DEF SealApply, WantsSeal, SealBase, dirty, RuntimeInv, TypeOK, RuntimeOK
  <2> QED
    BY <1>2, <2>1 DEF SealApply
<1>3. CASE SealPersist
  <2>1. batches' = Append(batches, sealing)
    BY <1>3 DEF SealPersist, PutBatch, RuntimeInv
  <2> QED
    BY <1>3, <2>1 DEF SealPersist
<1>4. CASE SealRestoreFails \/ SealPersistFails \/ SealDone
  <2>1. CASE SealRestoreFails
    <3>1. SealBase = batches
        BY <2>1 DEF SealRestoreFails, WantsSeal, SealBase, dirty, RuntimeInv, TypeOK, RuntimeOK
    <3> QED
        BY <2>1, <3>1 DEF SealRestoreFails, WantsSeal, dirty, stored, records
  <2>2. CASE SealPersistFails \/ SealDone
    BY <2>2 DEF SealPersistFails, SealDone, stored, records, buffer
  <2> QED
    BY <1>4, <2>1, <2>2
<1>5. CASE Monitor
    BY <1>5 DEF Monitor, TickOpen, TickEnded, SealIfStale, stored, records, buffer
<1>6. CASE Organizer
  <2>1. CASE CreateElection
    BY <2>1 DEF CreateElection, StatusInv, RuntimeInv
  <2>2. CASE \E to \in Status : PauseResume(to)
    BY <2>2 DEF PauseResume, records, buffer
  <2>3. CASE EndBegin \/ EndWrite \/ CancelDone
    BY <2>3 DEF EndBegin, EndWrite, CancelDone, stored, records, buffer
  <2>4. CASE CancelBegin \/ CancelWrite
    BY <2>4 DEF CancelBegin, CancelWrite, stored, records, buffer
  <2>6. CASE \E v \in Votes : CancelVote(v)
    BY <2>6 DEF CancelVote, buffer
  <2> QED
    BY <1>6, <2>1, <2>2, <2>3, <2>4, <2>6 DEF Organizer
<1>7. CASE Drain
    BY <1>7 DEF Drain, DrainStart, DrainFold, DrainFails, DrainPublish, FoldStart, stored, records,
                buffer
<1>8. CASE Fold
    BY <1>8 DEF Fold, FoldStart, FoldFails, CommitFold, FoldVote, stored, records, buffer
<1>9. CASE Finalize
    BY <1>9 DEF Finalize, KeyAccepted, FinalizeFails, FinalizeProved, FinalizeDone, SettleVote,
                records, buffer
<1>10. CASE Crash
    BY <1>10 DEF Crash, stored, records
<1>11. CASE Restart
    BY <1>11 DEF Restart, RuntimeInv, records
<1>12. CASE UNCHANGED vars
    BY <1>12 DEF vars, stored, records, buffer
<1> QED
    BY <1>1, <1>2, <1>3, <1>4, <1>5, <1>6, <1>7, <1>8, <1>9, <1>10, <1>11, <1>12 DEF Next, Seal

\* The types and the invariant hold in every reachable state.
LEMMA StateInvariant == Spec => [](TypeOK /\ StateInv)
<1>1. TypeOK /\ StateInv /\ [Next]_vars => StateInv'
    BY StatusNext, RuntimeNext, TreeNext DEF StateInv
<1> QED
    BY TypeInit, TypeNext, StateInit, <1>1, PTL DEF Spec

\* The stored snapshot is the state after exactly the stored batches, and a
\* clean runtime state is that snapshot, after any number of failed writes,
\* failed restores, crashes and restarts (sealLocked, SealBatch, restoreState).
THEOREM StateMatchesStorageTheorem == Spec => []StateMatchesStorage
<1>1. TypeOK /\ StateInv => StateMatchesStorage
    BY DEF StateInv, RuntimeInv, TreeInv, StateMatchesStorage, TypeOK, RuntimeOK, loaded, dirty
<1> QED
    BY <1>1, StateInvariant, PTL

\* The moves of the election's status, step by step.
LEMMA StatusStep ==
    ASSUME TypeOK, StateInv, [Next]_vars
    PROVE  [\/ status = NoElection /\ status' = Active
            \/ status \in {Active, Paused} /\ status' \in {Active, Paused, Ended, Canceled}
            \/ status = Ended /\ status' = Decrypting
            \/ status = Decrypting /\ status' = Finalizing
            \/ status = Finalizing /\ status' \in {Decrypting, Results}]_status
<1> USE DEF StateInv, StatusInv, up, loaded
<1>1. CASE Voter \/ Seal \/ Monitor \/ Fold \/ Crash
  BY <1>1 DEF Voter, SubmitReject, SubmitBegin, SubmitCommit, AddVote, Seal, SealApply, SealPersist,
              SealRestoreFails, SealPersistFails, SealDone, Monitor, TickOpen, SealIfStale,
              TickEnded, Fold, FoldStart, FoldFails, CommitFold, FoldVote, Crash, stored
<1>2. CASE Organizer
  BY <1>2 DEF Organizer, CreateElection, PauseResume, EndBegin, EndWrite, CancelBegin,
              CancelWrite, CancelDone, CancelVote, statusChanges, stored, Active, Paused
<1>3. CASE Drain
  BY <1>3 DEF Drain, DrainStart, DrainFold, FoldStart, DrainFails, DrainPublish, MayPublish,
              stored
<1>4. CASE Finalize
  BY <1>4 DEF Finalize, KeyAccepted, FinalizeFails, FinalizeProved, FinalizeDone, SettleVote
<1>5. CASE Restart
  BY <1>5 DEF Restart
<1>6. CASE UNCHANGED vars
  BY <1>6 DEF vars, stored
<1> QED
  BY <1>1, <1>2, <1>3, <1>4, <1>5, <1>6 DEF Next

\* The election's status only takes the moves of StatusMoves, whatever the
\* interleaving of the organizer, the drain, the finalize and a restart
\* (changeStatus, drain, SubmitDecryptionKey, finalizeElection, restore).
THEOREM StatusMovesTheorem == Spec => StatusMoves
<1> QED
    BY StatusStep, StateInvariant, PTL DEF Spec, StatusMoves

-----------------------------------------------------------------------------
(* The votes of the batches. *)

published == status \in {Decrypting, Finalizing, Results}

\* Arrival stamps: distinct for distinct votes, and the same in the log and
\* in the buffer.
StampInv ==
    /\ \A v \in Votes : voteSeq[v] <= voteCounter
    /\ \A u, v \in Votes : voteSeq[u] = voteSeq[v] /\ voteSeq[u] # 0 => u = v
    /\ \A v \in Votes : at[v] # 0 => at[v] = voteSeq[v]

\* The keys of the batch being sealed are new to the stored batches, and
\* distinct.
KeyInv ==
    /\ AppliedOnce
    /\ \A v \in sealing : Key[v] \notin AppliedKeys(batches)
    /\ \A u, v \in sealing : Key[u] = Key[v] => u = v

\* Once the drain has sealed, nobody seals again: the buffer is empty, or it
\* was reloaded by a process in which nobody is about to seal.
QuietInv ==
    /\ proc = "down" => started = {}
    /\ published \/ drain = "fold" =>
          \/ at = [v \in Votes |-> 0]
          \/ started = {} /\ mu \notin Sealers /\ drain = "idle"
    /\ published \/ drain = "fold" => sealing = {}
    /\ folding # 0 => folding > folded
    /\ published => folded = Len(batches)
    /\ results # <<>> => published /\ results = batches

\* Submissions hold votes that are not in the log, each its own.
SubmitInv ==
    /\ \A r \in Reqs : req[r] # 0 => voteSeq[req[r]] = 0
    /\ \A q, r \in Reqs : req[q] = req[r] /\ req[q] # 0 => q = r
    /\ status = NoElection => \A v \in Votes : voteSeq[v] = 0

\* The buffer holds exactly the votes of the log that are pending.
BufferInv ==
    /\ rt = "loaded" /\ mu # "cancelWrite" =>
          \A v \in Votes : voteSeq[v] # 0 /\ voteSt[v] = Pending => at[v] # 0
    /\ \A v \in Votes : at[v] # 0 => voteSeq[v] # 0 /\ voteSt[v] = Pending
    /\ mu = "cancelVotes" => rt = "none" /\ status = Canceled
    /\ published \/ drain = "fold" => \A v \in Votes : voteSeq[v] # 0 => voteSt[v] # Pending

\* The batches hold exactly the votes that have left the buffer and are not
\* in error, and every vote of a batch precedes the pending votes of its slot.
BatchInv ==
    /\ LatestWins
    /\ sealing \subseteq FirstOfSlot
    /\ \A v \in foldTodo : InBatch(v, Len(batches))
    /\ \A v \in Votes : InBatch(v, Len(batches)) =>
          /\ voteSeq[v] # 0 /\ voteSt[v] # Pending
          /\ voteSt[v] = Error => status = Canceled
    /\ \A v \in Votes : voteSeq[v] # 0 /\ voteSt[v] \notin {Pending, Error} => InBatch(v, Len(batches))
    /\ \A u, v \in Votes :
          InBatch(u, Len(batches)) /\ voteSeq[v] # 0 /\ voteSt[v] = Pending /\ Slot[u] = Slot[v]
             => voteSeq[u] < voteSeq[v]

VoteInv == SubmitInv /\ BufferInv /\ BatchInv

-----------------------------------------------------------------------------
(* Who writes what. *)

\* Only SealApply and SealPersist touch the batch being sealed and the stored
\* batches, beyond forgetting the batch being sealed.
LEMMA BatchFrame ==
    ASSUME [Next]_vars
    PROVE  SealApply \/ SealPersist \/ (batches' = batches /\ sealing' \in {sealing, {}})
<1> USE DEF stored, records
<1>1. CASE Voter \/ Monitor
    BY <1>1 DEF Voter, SubmitReject, SubmitBegin, SubmitCommit, AddVote, Monitor, TickOpen,
                SealIfStale, TickEnded
<1>2. CASE Seal
    BY <1>2 DEF Seal, SealRestoreFails, SealPersistFails, SealDone
<1>3. CASE Organizer
    BY <1>3 DEF Organizer, CreateElection, PauseResume, EndBegin, EndWrite, CancelBegin,
                CancelWrite, CancelDone, CancelVote
<1>4. CASE Drain \/ Fold
    BY <1>4 DEF Drain, DrainStart, DrainFold, DrainFails, DrainPublish, Fold, FoldStart, FoldFails,
                CommitFold, FoldVote
<1>5. CASE Finalize
    BY <1>5 DEF Finalize, KeyAccepted, FinalizeFails, FinalizeProved, FinalizeDone, SettleVote
<1>6. CASE Crash \/ Restart \/ UNCHANGED vars
    BY <1>6 DEF Crash, Restart, vars
<1> QED
    BY <1>1, <1>2, <1>3, <1>4, <1>5, <1>6 DEF Next

\* Only SubmitCommit stamps a vote, and only Restart puts votes of the log
\* back in the buffer.
LEMMA StampFrame ==
    ASSUME TypeOK, [Next]_vars
    PROVE  \/ \E r \in Reqs : SubmitCommit(r)
           \/ Restart
           \/ /\ voteSeq' = voteSeq /\ voteCounter' = voteCounter
              /\ \A v \in Votes : at'[v] \in {at[v], 0}
<1> USE DEF stored, records, buffer
<1>1. CASE Voter \/ Monitor
    BY <1>1 DEF Voter, SubmitReject, SubmitBegin, Monitor, TickOpen, SealIfStale, TickEnded
<1>2. CASE Seal
    BY <1>2 DEF Seal, SealApply, SealPersist, SealRestoreFails, SealPersistFails, SealDone
<1>3. CASE Organizer
    BY <1>3 DEF Organizer, CreateElection, PauseResume, EndBegin, EndWrite, CancelBegin,
                CancelWrite, CancelDone, CancelVote
<1>4. CASE Drain \/ Fold
    BY <1>4 DEF Drain, DrainStart, DrainFold, DrainFails, DrainPublish, Fold, FoldStart, FoldFails,
                CommitFold, FoldVote
<1>5. CASE Finalize
    BY <1>5 DEF Finalize, KeyAccepted, FinalizeFails, FinalizeProved, FinalizeDone, SettleVote
<1>6. CASE Crash \/ UNCHANGED vars
    BY <1>6 DEF Crash, vars
<1> QED
    BY <1>1, <1>2, <1>3, <1>4, <1>5, <1>6 DEF Next

-----------------------------------------------------------------------------
(* No vote and no key is applied twice. *)

\* Arrival stamps stay distinct, and a restart reloads the ones of the log
\* (AddVote, unsealedVotes).
LEMMA StampNext == TypeOK /\ StampInv /\ [Next]_vars => StampInv'
<1> SUFFICES ASSUME TypeOK, StampInv, [Next]_vars PROVE StampInv'
    OBVIOUS
<1> USE DEF TypeOK, StoredOK, RuntimeOK, StampInv
<1>1. CASE \E r \in Reqs : SubmitCommit(r)
  <2> PICK r \in Reqs : SubmitCommit(r)
    BY <1>1
  <2>1. req[r] \in Votes
    BY DEF SubmitCommit, AddVote
  <2>2. \A v \in Votes : /\ voteSeq'[v] = (IF v = req[r] THEN voteCounter + 1 ELSE voteSeq[v])
                         /\ at'[v] = (IF v = req[r] THEN voteCounter + 1 ELSE at[v])
    BY <2>1 DEF SubmitCommit, AddVote
  <2>3. voteCounter' = voteCounter + 1
    BY DEF SubmitCommit, AddVote
  <2>4. (\A v \in Votes : voteSeq[v] <= voteCounter)'
    BY <2>2, <2>3
  <2>5. (\A u, v \in Votes : voteSeq[u] = voteSeq[v] /\ voteSeq[u] # 0 => u = v)'
    BY <2>2, <2>3
  <2>6. (\A v \in Votes : at[v] # 0 => at[v] = voteSeq[v])'
    BY <2>2
  <2> QED
    BY <2>4, <2>5, <2>6
<1>2. CASE Restart
    BY <1>2 DEF Restart, RestoredAt, records
<1>3. CASE /\ voteSeq' = voteSeq /\ voteCounter' = voteCounter
           /\ \A v \in Votes : at'[v] \in {at[v], 0}
    BY <1>3
<1> QED
    BY <1>1, <1>2, <1>3, StampFrame

\* A key of a batch of s is one of AppliedKeys(s).
LEMMA AppliedKey ==
    ASSUME NEW s \in Seq(SUBSET Votes), NEW i \in 1..Len(s), NEW v \in s[i]
    PROVE  Key[v] \in AppliedKeys(s)
BY DEF AppliedKeys

\* A seal adds only keys the stored batches do not have (applyBatch).
LEMMA KeyNext == TypeOK /\ StateInv /\ StampInv /\ KeyInv /\ [Next]_vars => KeyInv'
<1> SUFFICES ASSUME TypeOK, StateInv, StampInv, KeyInv, [Next]_vars PROVE KeyInv'
    OBVIOUS
<1>1. CASE SealApply
  <2>1. SealBase = batches
    BY <1>1 DEF SealApply, WantsSeal, SealBase, dirty, StateInv, RuntimeInv, TreeInv, TypeOK,
                RuntimeOK
  <2>2. batches' = batches /\ sealing' = Kept
    BY <1>1 DEF SealApply
  <2>3. ASSUME NEW v \in Kept PROVE Key[v] \notin AppliedKeys(batches)
    BY <2>1, <2>3 DEF Kept, Dropped, Refused
  <2>4. ASSUME NEW u \in Kept, NEW v \in Kept, Key[u] = Key[v] PROVE u = v
    <3>1. /\ u \in NextBatch /\ v \in NextBatch
          /\ ~(at[u] < at[v]) /\ ~(at[v] < at[u])
      BY <2>4 DEF Kept, Dropped, Refused
    <3>2. u \in Votes /\ v \in Votes /\ at[u] # 0 /\ at[v] # 0
      BY <3>1 DEF NextBatch, FirstOfSlot, Buffered
    <3>3. at[u] = at[v]
      BY <3>1, <3>2 DEF TypeOK, RuntimeOK
    <3> QED
      BY <3>2, <3>3 DEF StampInv
  <2> QED
    BY <2>2, <2>3, <2>4 DEF KeyInv, AppliedOnce, AppliedKeys
<1>2. CASE SealPersist
  <2>1. batches' = Append(batches, sealing) /\ sealing' = {}
    BY <1>2 DEF SealPersist, PutBatch, StateInv, RuntimeInv
  <2>2. Len(batches') = Len(batches) + 1
    BY <2>1 DEF TypeOK, StoredOK, RuntimeOK
  <2>3. \A i \in 1..Len(batches) : batches'[i] = batches[i]
    BY <2>1 DEF TypeOK, StoredOK, RuntimeOK
  <2>4. batches'[Len(batches) + 1] = sealing
    BY <2>1 DEF TypeOK, StoredOK, RuntimeOK
  <2>5. ASSUME NEW i \in 1..Len(batches)', NEW j \in 1..Len(batches)',
               NEW u \in batches'[i], NEW v \in batches'[j], Key[u] = Key[v]
        PROVE  i = j /\ u = v
    <3>1. CASE i \in 1..Len(batches) /\ j \in 1..Len(batches)
      BY <2>3, <2>5, <3>1 DEF KeyInv, AppliedOnce
    <3>2. CASE i \in 1..Len(batches) /\ j = Len(batches) + 1
      BY <2>3, <2>4, <2>5, <3>2, AppliedKey DEF KeyInv, TypeOK, StoredOK
    <3>3. CASE i = Len(batches) + 1 /\ j \in 1..Len(batches)
      BY <2>3, <2>4, <2>5, <3>3, AppliedKey DEF KeyInv, TypeOK, StoredOK
    <3>4. CASE i = Len(batches) + 1 /\ j = Len(batches) + 1
      BY <2>4, <2>5, <3>4 DEF KeyInv
    <3> QED
      BY <2>2, <3>1, <3>2, <3>3, <3>4 DEF TypeOK, StoredOK
  <2> QED
    BY <2>1, <2>5 DEF KeyInv, AppliedOnce
<1>3. CASE batches' = batches /\ sealing' \in {sealing, {}}
    BY <1>3 DEF KeyInv, AppliedOnce, AppliedKeys
<1> QED
    BY <1>1, <1>2, <1>3, BatchFrame

\* No vote, and no vote-ID tree key, is in two sealed batches, whatever writes
\* fail and wherever the process stops and restarts (sealLocked, applyBatch,
\* unsealedVotes).
THEOREM AppliedOnceTheorem == Spec => []AppliedOnce
<1>1. Init => StampInv /\ KeyInv
    BY DEF Init, StampInv, KeyInv, AppliedOnce
<1>2. KeyInv => AppliedOnce
    BY DEF KeyInv
<1> QED
    BY <1>1, <1>2, StampNext, KeyNext, StateInvariant, PTL DEF Spec

-----------------------------------------------------------------------------
(* The published election is frozen, and its results are its tally. *)

\* An empty buffer has no next batch.
LEMMA EmptyBuffer ==
    ASSUME at = [v \in Votes |-> 0]
    PROVE  Buffered = {} /\ Kept = {}
BY DEF Buffered, Kept, NextBatch, FirstOfSlot

\* Once the drain has sealed, no step of anybody seals again (drain,
\* sealIfStale, SubmitVote).
LEMMA QuietNext == TypeOK /\ StateInv /\ QuietInv /\ [Next]_vars => QuietInv'
<1> SUFFICES ASSUME TypeOK, StateInv, QuietInv, [Next]_vars PROVE QuietInv'
    OBVIOUS
<1> USE DEF QuietInv, published, Active, Paused, Ended, Decrypting, Finalizing, Results, Canceled,
            NoElection, up
<1>1. CASE Voter
  <2>1. CASE \E r \in Reqs : SubmitCommit(r)
    BY <2>1 DEF SubmitCommit, AddVote, StillOpen, StateInv, StatusInv, monitor, chain
  <2>2. CASE \E r \in Reqs : SubmitReject(r) \/ \E v \in Votes : SubmitBegin(r, v)
    BY <2>2 DEF SubmitReject, SubmitBegin, stored, records, buffer, monitor, chain
  <2> QED
    BY <1>1, <2>1, <2>2 DEF Voter
<1>2. CASE SealApply
  <2>1. mu \in Sealers /\ mu' \in {mu, "free"}
    BY <1>2 DEF SealApply, WantsSeal, SealNext
  <2>2. at = [v \in Votes |-> 0] => at' = [v \in Votes |-> 0] /\ sealing' = {}
    BY <1>2, EmptyBuffer DEF SealApply
  <2> QED
    BY <1>2, <2>1, <2>2 DEF SealApply, monitor, chain
<1>3. CASE SealPersist
  <2>1. ~published /\ drain # "fold"
    BY <1>3 DEF SealPersist
  <2> QED
    BY <1>3, <2>1 DEF SealPersist, monitor, chain
<1>4. CASE SealRestoreFails \/ SealPersistFails
    BY <1>4 DEF SealRestoreFails, SealPersistFails, SealError, WantsSeal, TypeOK, ControlOK,
                Sealers, stored, records, buffer, chain
<1>5. CASE SealDone
  <2>1. mu = "drain" => at = [v \in Votes |-> 0]
    BY <1>5 DEF SealDone, WantsSeal, Buffered, TypeOK, RuntimeOK
  <2> QED
    BY <1>5, <2>1 DEF SealDone, Sealers, stored, records, buffer, chain
<1>6. CASE Monitor
  <2>1. CASE SealIfStale
    <3>1. at = [v \in Votes |-> 0] => mu' = "free"
      BY <2>1, EmptyBuffer DEF SealIfStale
    <3> QED
      BY <2>1, <3>1 DEF SealIfStale, Sealers, stored, records, buffer, chain
  <2>2. CASE TickOpen \/ TickEnded
    BY <2>2 DEF TickOpen, TickEnded, StateInv, StatusInv, stored, records, buffer, chain
  <2> QED
    BY <1>6, <2>1, <2>2 DEF Monitor
<1>7. CASE Organizer
  <2>1. CASE CreateElection
    BY <2>1 DEF CreateElection, monitor, chain
  <2>2. CASE \E to \in Status : PauseResume(to)
    BY <2>2 DEF PauseResume, statusChanges, records, buffer, monitor, chain
  <2>3. CASE EndBegin \/ EndWrite \/ CancelDone
    BY <2>3 DEF EndBegin, EndWrite, CancelDone, Sealers, StateInv, StatusInv, statusChanges, stored,
                records, buffer, monitor, chain
  <2>4. CASE CancelBegin \/ CancelWrite
    BY <2>4 DEF CancelBegin, CancelWrite, Sealers, StateInv, StatusInv, stored, records, buffer,
                monitor, chain
  <2>5. CASE \E v \in Votes : CancelVote(v)
    BY <2>5 DEF CancelVote, buffer, monitor, chain
  <2> QED
    BY <1>7, <2>1, <2>2, <2>3, <2>4, <2>5 DEF Organizer
<1>8. CASE Drain \/ Fold
  <2>1. CASE DrainStart \/ DrainFails
    BY <2>1 DEF DrainStart, DrainFails, stored, records, buffer, chain
  <2>2. CASE DrainPublish
    BY <2>2 DEF DrainPublish, MayPublish, stopped, records, buffer, chain
  <2>3. ASSUME NEW n, FoldStart(n) PROVE QuietInv'
    BY <2>3 DEF FoldStart, TypeOK, StoredOK, stored, records, buffer, monitor
  <2>4. CASE CommitFold
    BY <2>4 DEF CommitFold, TypeOK, StoredOK, RuntimeOK, buffer, monitor
  <2>5. CASE FoldFails \/ \E v \in Votes : FoldVote(v)
    BY <2>5 DEF FoldFails, FoldVote, stored, records, buffer, monitor
  <2> QED
    BY <1>8, <2>1, <2>2, <2>3, <2>4, <2>5 DEF Drain, DrainFold, Fold
<1>9. CASE Finalize
  <2>1. CASE FinalizeProved
    <3>1. published
      BY <2>1 DEF FinalizeProved, StateInv, StatusInv
    <3>2. state = batches
      BY <2>1 DEF FinalizeProved, DigestMatches, TypeOK, StoredOK
    <3> QED
      BY <2>1, <3>1, <3>2 DEF FinalizeProved, buffer, monitor, chain
  <2>2. CASE KeyAccepted \/ FinalizeFails \/ FinalizeDone
    BY <2>2 DEF KeyAccepted, FinalizeFails, FinalizeDone, StateInv, StatusInv, records, buffer,
                monitor, chain
  <2>3. CASE \E v \in Votes : SettleVote(v)
    BY <2>3 DEF SettleVote, buffer, monitor, chain
  <2> QED
    BY <1>9, <2>1, <2>2, <2>3 DEF Finalize
<1>10. CASE Crash
    BY <1>10 DEF Crash, stored, records
<1>11. CASE Restart
  <2>1. started = {} /\ mu \notin Sealers /\ drain = "idle" /\ sealing = {}
    BY <1>11 DEF Restart, StateInv, StatusInv, RuntimeInv, Sealers, TypeOK, RuntimeOK
  <2> QED
    BY <1>11, <2>1 DEF Restart, records, monitor, chain
<1>12. CASE UNCHANGED vars
    BY <1>12 DEF vars, stored, records, buffer, monitor, chain
<1> QED
    BY <1>1, <1>2, <1>3, <1>4, <1>5, <1>6, <1>7, <1>8, <1>9, <1>10, <1>11, <1>12 DEF Next, Seal

\* The published election is frozen in every reachable state.
LEMMA QuietInvariant == Spec => []QuietInv
<1>1. Init => QuietInv
    BY DEF Init, QuietInv, published, NoElection, Decrypting, Finalizing, Results
<1> QED
    BY <1>1, QuietNext, StateInvariant, PTL DEF Spec

\* The stored results were computed from exactly the batches of the election,
\* all of them folded, and no later step adds a batch: for any failed writes,
\* repeated finalizes and restarts (drain, Finalize, verifyFinalDigest).
THEOREM ResultsAreTallyTheorem == Spec => []ResultsAreTally
<1>1. QuietInv => ResultsAreTally
    BY DEF QuietInv, ResultsAreTally
<1> QED
    BY <1>1, QuietInvariant, PTL

-----------------------------------------------------------------------------
(* No vote is lost or overtaken, unless a write of the two that lose one   *)
(* fails.                                                                  *)

\* The writes of dropVote and of the canceled status do not fail.
NoLossyFault == "CancelUpdate" \notin Faulty /\ "DropStatus" \notin Faulty

\* What the guarded status writes of storage do to a vote.
LEMMA Moves ==
    ASSUME NEW s \in VoteStatus
    PROVE  /\ MoveTo(s, Batched) = IF s = Pending THEN Batched ELSE s
           /\ MoveTo(s, Folded) = IF s \in {Pending, Batched} THEN Folded ELSE s
           /\ MoveTo(s, Settled) = IF s = Error THEN Error ELSE Settled
           /\ MoveTo(s, Error) = IF s = Settled THEN Settled ELSE Error
BY DEF MoveTo, CanMoveTo, Final, VoteStatus, Pending, Batched, Folded, Settled, Error

\* Whoever leaves the statuses of the votes alone also leaves the rest of
\* what BatchInv speaks of alone, or forgets it.
LEMMA VoteFrame ==
    ASSUME TypeOK, StateInv, [Next]_vars
    PROVE  \/ \E r \in Reqs : SubmitCommit(r)
           \/ SealApply \/ SealPersist \/ CommitFold
           \/ \E v \in Votes : CancelVote(v) \/ FoldVote(v) \/ SettleVote(v)
           \/ /\ voteSeq' = voteSeq /\ voteSt' = voteSt /\ batches' = batches
              /\ sealing' = {} \/ (sealing' = sealing /\ at' = at)
              /\ foldTodo' \in {foldTodo, {}}
              /\ status = Canceled => status' = Canceled
<1> USE DEF stored, records, buffer, chain, Active, Paused, Ended, Decrypting, Finalizing, Results,
            Canceled, NoElection, StateInv, StatusInv
<1>1. CASE Voter \/ Monitor
    BY <1>1 DEF Voter, SubmitReject, SubmitBegin, Monitor, TickOpen, SealIfStale, TickEnded
<1>2. CASE Seal
    BY <1>2 DEF Seal, SealRestoreFails, SealPersistFails, SealDone
<1>3. CASE Organizer
  <2>1. CASE CreateElection
    BY <2>1 DEF CreateElection, RuntimeInv
  <2>2. CASE CancelBegin \/ CancelWrite \/ CancelDone
    BY <2>2 DEF CancelBegin, CancelWrite, CancelDone, TypeOK, ControlOK, Sealers
  <2>3. CASE EndBegin \/ EndWrite
    BY <2>3 DEF EndBegin, EndWrite
  <2>4. CASE \E to \in Status : PauseResume(to)
    BY <2>4 DEF PauseResume, statusChanges
  <2> QED
    BY <1>3, <2>1, <2>2, <2>3, <2>4 DEF Organizer
<1>4. CASE Drain \/ Fold
    BY <1>4 DEF Drain, DrainStart, DrainFold, DrainFails, DrainPublish, MayPublish, Fold, FoldStart,
                FoldFails
<1>5. CASE Finalize
    BY <1>5 DEF Finalize, KeyAccepted, FinalizeFails, FinalizeProved, FinalizeDone
<1>6. CASE Crash \/ UNCHANGED vars
    BY <1>6 DEF Crash, vars
<1>7. CASE Restart
    BY <1>7 DEF Restart, RuntimeInv, up
<1> QED
    BY <1>1, <1>2, <1>3, <1>4, <1>5, <1>6, <1>7 DEF Next

\* A request that holds the locks of a vote is the only one, and the vote is
\* not in the log yet (SubmitVote's dedup locks and duplicate check).
LEMMA SubmitNext == TypeOK /\ StateInv /\ SubmitInv /\ [Next]_vars => SubmitInv'
<1> SUFFICES ASSUME TypeOK, StateInv, SubmitInv, [Next]_vars PROVE SubmitInv'
    OBVIOUS
<1> USE DEF SubmitInv, Active, NoElection
<1>1. CASE \E r \in Reqs : SubmitCommit(r)
  <2> PICK r \in Reqs : SubmitCommit(r)
    BY <1>1
  <2>1. req[r] \in Votes
    BY DEF SubmitCommit, AddVote, TypeOK, RuntimeOK
  <2>2. \A v \in Votes : voteSeq'[v] = IF v = req[r] THEN voteCounter + 1 ELSE voteSeq[v]
    BY <2>1 DEF SubmitCommit, AddVote, TypeOK, StoredOK
  <2>3. \A q \in Reqs : req'[q] = IF q = r THEN 0 ELSE req[q]
    BY DEF SubmitCommit, AddVote, TypeOK, RuntimeOK
  <2> QED
    BY <2>1, <2>2, <2>3 DEF SubmitCommit, AddVote, StillOpen, TypeOK, RuntimeOK
<1>2. CASE \E r \in Reqs : SubmitReject(r)
    BY <1>2 DEF SubmitReject, TypeOK, RuntimeOK, stored, records
<1>3. CASE \E r \in Reqs : \E v \in Votes : SubmitBegin(r, v)
    BY <1>3 DEF SubmitBegin, LockVoteID, LockAddress, Accepted, TypeOK, RuntimeOK, stored, records
<1>4. CASE ~Voter
  <2>1. voteSeq' = voteSeq /\ (req' = req \/ req' = [r \in Reqs |-> 0])
    BY <1>4 DEF Next, vars, Seal, SealApply, SealPersist, SealRestoreFails, SealPersistFails,
                SealDone, Monitor, TickOpen, SealIfStale, TickEnded, Organizer, CreateElection,
                PauseResume, EndBegin, EndWrite, CancelBegin, CancelWrite, CancelDone, CancelVote,
                Drain, DrainStart, DrainFold, DrainFails, DrainPublish, Fold, FoldStart, FoldFails,
                CommitFold, FoldVote, Finalize, KeyAccepted, FinalizeFails, FinalizeProved,
                FinalizeDone, SettleVote, Crash, Restart, stored, records
  <2>2. status' = NoElection => status = NoElection
    BY StatusStep DEF Paused, Ended, Decrypting, Finalizing, Results, Canceled
  <2> QED
    BY <2>1, <2>2
<1> QED
    BY <1>1, <1>2, <1>3, <1>4 DEF Voter

\* Every step keeps the accepted, pending votes of a loaded election in its
\* buffer (SubmitVote, sealLocked, unsealedVotes).
LEMMA BufferNext ==
    ASSUME NoLossyFault, TypeOK, StateInv, QuietInv, VoteInv, [Next]_vars
    PROVE  BufferInv'
<1> USE DEF VoteInv, BufferInv, published, Active, Paused, Ended, Decrypting, Finalizing, Results,
            Canceled, NoElection, up, loaded
<1>1. CASE \E r \in Reqs : SubmitCommit(r)
  <2> PICK r \in Reqs : SubmitCommit(r)
    BY <1>1
  <2>1. req[r] \in Votes
    BY DEF SubmitCommit, AddVote, TypeOK, RuntimeOK
  <2>2. \A v \in Votes : /\ voteSeq'[v] = (IF v = req[r] THEN voteCounter + 1 ELSE voteSeq[v])
                         /\ at'[v] = (IF v = req[r] THEN voteCounter + 1 ELSE at[v])
                         /\ voteSt'[v] = (IF v = req[r] THEN Pending ELSE voteSt[v])
    BY <2>1 DEF SubmitCommit, AddVote, TypeOK, StoredOK, RuntimeOK
  <2>3. voteCounter + 1 # 0
    BY DEF TypeOK, StoredOK
  <2>4. mu = "free" /\ mu' = "submit" /\ rt' = rt /\ status' = Active /\ status = Active /\ drain' # "fold"
    BY DEF SubmitCommit, AddVote, StillOpen, StateInv, StatusInv, monitor
  <2> QED
    BY <2>2, <2>3, <2>4
<1>2. CASE SealApply
  <2>1. voteSt' = SetVoteStatus(Dropped, Error)
    BY <1>2 DEF SealApply, NoLossyFault
  <2>2. Dropped \subseteq Votes
    BY DEF Dropped, Refused, NextBatch, FirstOfSlot, Buffered
  <2>3. \A v \in Votes : /\ at'[v] = (IF v \in Dropped THEN 0 ELSE at[v])
                         /\ voteSt'[v] = (IF v \in Dropped THEN MoveTo(voteSt[v], Error) ELSE voteSt[v])
    BY <1>2, <2>1 DEF SealApply, SetVoteStatus
  <2>4. \A v \in Votes : MoveTo(voteSt[v], Error) # Pending
    BY DEF MoveTo, CanMoveTo, Final, Pending, Error, Settled
  <2>5. mu \in Sealers /\ mu' \in {mu, "free"}
    BY <1>2 DEF SealApply, WantsSeal, SealNext
  <2> QED
    BY <1>2, <2>3, <2>4, <2>5 DEF SealApply, Sealers, monitor
<1>3. CASE SealPersist
  <2>1. \A v \in Votes : /\ at'[v] = (IF v \in sealing THEN 0 ELSE at[v])
                         /\ voteSt'[v] = (IF v \in sealing THEN MoveTo(voteSt[v], Batched) ELSE voteSt[v])
    BY <1>3 DEF SealPersist, SetVoteStatus
  <2>2. \A v \in Votes : MoveTo(voteSt[v], Batched) # Pending
    BY Moves DEF TypeOK, StoredOK, Pending, Batched
  <2>3. mu \in Sealers /\ mu' \in {mu, "free"}
    BY <1>3 DEF SealPersist, SealNext, TypeOK, ControlOK
  <2> QED
    BY <1>3, <2>1, <2>2, <2>3 DEF SealPersist, Sealers, monitor
<1>4. CASE \E v \in Votes : CancelVote(v)
  <2>1. rt = "none" /\ at = [v \in Votes |-> 0] /\ status = Canceled /\ drain # "fold"
    BY <1>4 DEF CancelVote, StateInv, StatusInv, RuntimeInv
  <2> QED
    BY <1>4, <2>1 DEF CancelVote, buffer, monitor
<1>5. ASSUME NEW v \in Votes, FoldVote(v) \/ SettleVote(v) PROVE BufferInv'
  <2>1. voteSeq[v] # 0 => voteSt[v] # Pending
    <3>1. CASE FoldVote(v)
      BY <3>1 DEF FoldVote, BatchInv
    <3>2. CASE SettleVote(v)
      BY <3>2 DEF SettleVote, StateInv, StatusInv
    <3> QED
      BY <1>5, <3>1, <3>2
  <2>2. \A u \in Votes : u # v => voteSt'[u] = voteSt[u]
    BY <1>5 DEF FoldVote, SettleVote, SetVoteStatus, TypeOK, StoredOK
  <2>3. voteSeq[v] # 0 => voteSt'[v] # Pending
    <3>1. voteSt'[v] \in {voteSt[v], MoveTo(voteSt[v], Folded), MoveTo(voteSt[v], Settled)}
      BY <1>5 DEF FoldVote, SettleVote, SetVoteStatus
    <3> QED
      BY <2>1, <3>1, Moves DEF TypeOK, StoredOK, Pending, Folded, Settled, Error
  <2>4. UNCHANGED <<voteSeq, at, rt, mu, status, drain>>
    BY <1>5 DEF FoldVote, SettleVote, buffer, monitor
  <2> QED
    BY <2>1, <2>2, <2>3, <2>4
<1>6. CASE SealDone
  <2>1. mu = "drain" => at = [v \in Votes |-> 0]
    BY <1>6 DEF SealDone, WantsSeal, Buffered, TypeOK, RuntimeOK
  <2>2. rt = "loaded"
    BY <1>6 DEF SealDone, StateInv, RuntimeInv
  <2> QED
    BY <1>6, <2>1, <2>2 DEF SealDone, Sealers, stored, records, buffer
<1>7. CASE SealRestoreFails \/ SealPersistFails
    BY <1>7 DEF SealRestoreFails, SealPersistFails, SealError, Sealers, WantsSeal, TypeOK, ControlOK,
                stored, records, buffer
<1>8. CASE Voter /\ ~\E r \in Reqs : SubmitCommit(r)
    BY <1>8 DEF Voter, SubmitReject, SubmitBegin, stored, records, buffer, monitor
<1>9. CASE Monitor
    BY <1>9 DEF Monitor, TickOpen, TickEnded, SealIfStale, stored, records, buffer
<1>10. CASE CreateElection
    BY <1>10 DEF CreateElection, SubmitInv, StateInv, StatusInv, monitor
<1>11. CASE CancelBegin
    BY <1>11 DEF CancelBegin, stored, records, monitor
<1>12. CASE CancelWrite
    BY <1>12 DEF CancelWrite, NoLossyFault, StateInv, StatusInv, RuntimeInv, records, buffer, monitor
<1>13. CASE EndBegin \/ EndWrite \/ CancelDone
    BY <1>13 DEF EndBegin, EndWrite, CancelDone, stored, records, buffer, monitor
<1>14. CASE \E to \in Status : PauseResume(to)
    BY <1>14 DEF PauseResume, statusChanges, records, buffer, monitor
<1>15. CASE Drain
    BY <1>15 DEF Drain, DrainStart, DrainFold, DrainFails, DrainPublish, MayPublish, FoldStart,
                 stored, records, buffer, monitor
<1>16. CASE (\E n \in 1..Len(batches) : FoldStart(n)) \/ FoldFails \/ CommitFold
    BY <1>16 DEF FoldStart, FoldFails, CommitFold, stored, records, buffer, monitor
<1>17. CASE KeyAccepted \/ FinalizeFails \/ FinalizeProved \/ FinalizeDone
    BY <1>17 DEF KeyAccepted, FinalizeFails, FinalizeProved, FinalizeDone, StateInv, StatusInv,
                 records, buffer, monitor
<1>18. CASE Crash
    BY <1>18 DEF Crash, stored, records
<1>19. CASE Restart
  <2>1. mu = "free" /\ drain # "fold"
    BY <1>19 DEF Restart, StateInv, StatusInv, RuntimeInv, TypeOK, RuntimeOK
  <2>2. \A v \in Votes : at'[v] = IF rt' = "loaded" /\ v \in Unsealed THEN voteSeq[v] ELSE 0
    BY <1>19 DEF Restart, RestoredAt
  <2>3. \A v \in Votes : v \in Unsealed <=> voteSeq[v] # 0 /\ voteSt[v] = Pending
    BY DEF Unsealed, VotesWithStatus, Accepted, BatchInv
  <2> QED
    BY <1>19, <2>1, <2>2, <2>3 DEF Restart, records, monitor
<1>20. CASE UNCHANGED vars
    BY <1>20 DEF vars, stored, records, buffer, monitor
<1> QED
    BY <1>1, <1>2, <1>3, <1>4, <1>5, <1>6, <1>7, <1>8, <1>9, <1>10, <1>11, <1>12, <1>13, <1>14,
       <1>15, <1>16, <1>17, <1>18, <1>19, <1>20 DEF Next, Seal, Organizer, Fold, Finalize

\* Sealing a batch: the votes of the batches afterwards.
LEMMA SealedBatch ==
    ASSUME TypeOK, StateInv, SealPersist
    PROVE  /\ Len(batches') = Len(batches) + 1
           /\ \A i \in 1..Len(batches) : batches'[i] = batches[i]
           /\ batches'[Len(batches) + 1] = sealing
           /\ \A v \in Votes : InBatch(v, Len(batches))' <=> v \in sealing \/ InBatch(v, Len(batches))
<1>1. batches' = Append(batches, sealing)
    BY DEF SealPersist, PutBatch, StateInv, RuntimeInv
<1>2. batches \in Seq(SUBSET Votes) /\ sealing \in SUBSET Votes
    BY DEF TypeOK, StoredOK, RuntimeOK
<1>3. /\ Len(batches') = Len(batches) + 1
      /\ \A i \in 1..Len(batches) : batches'[i] = batches[i]
      /\ batches'[Len(batches) + 1] = sealing
    BY <1>1, <1>2
<1>4. Len(batches) \in Nat
    BY <1>2
<1>5. ASSUME NEW v \in Votes
      PROVE  InBatch(v, Len(batches))' <=> v \in sealing \/ InBatch(v, Len(batches))
  <2>1. ASSUME v \in sealing PROVE InBatch(v, Len(batches))'
    BY <1>3, <1>4, <2>1 DEF InBatch
  <2>2. ASSUME InBatch(v, Len(batches)) PROVE InBatch(v, Len(batches))'
    BY <1>3, <1>4, <2>2 DEF InBatch
  <2>3. ASSUME InBatch(v, Len(batches))' PROVE v \in sealing \/ InBatch(v, Len(batches))
    <3> PICK i \in 1..(Len(batches) + 1) : v \in batches'[i]
      BY <1>3, <2>3 DEF InBatch
    <3>1. CASE i = Len(batches) + 1
      BY <1>3, <3>1
    <3>2. CASE i \in 1..Len(batches)
      BY <1>3, <3>2 DEF InBatch
    <3> QED
      BY <1>4, <3>1, <3>2
  <2> QED
    BY <2>1, <2>2, <2>3
<1> QED
    BY <1>3, <1>5

\* Every step keeps the votes of the batches past pending, and behind no
\* earlier vote of their slot (nextBatch, SealBatch, setVotesStatus).
LEMMA BatchNext ==
    ASSUME NoLossyFault, TypeOK, StateInv, StampInv, VoteInv, QuietInv, [Next]_vars
    PROVE  BatchInv'
<1> USE DEF VoteInv, BatchInv
<1>0. foldTodo \subseteq Votes
    BY DEF TypeOK, RuntimeOK
<1>1. ASSUME NEW r \in Reqs, SubmitCommit(r) PROVE BatchInv'
  <2>1. req[r] \in Votes /\ voteSeq[req[r]] = 0
    BY <1>1 DEF SubmitCommit, AddVote, SubmitInv, TypeOK, RuntimeOK
  <2>2. \A v \in Votes : /\ voteSeq'[v] = (IF v = req[r] THEN voteCounter + 1 ELSE voteSeq[v])
                         /\ voteSt'[v] = (IF v = req[r] THEN Pending ELSE voteSt[v])
    BY <1>1, <2>1 DEF SubmitCommit, AddVote, TypeOK, StoredOK
  <2>3. sealing' = {} /\ batches' = batches /\ foldTodo' = foldTodo /\ status' = status
    BY <1>1 DEF SubmitCommit, AddVote, TypeOK, ControlOK, Sealers, chain
  <2>4. \A v \in Votes : InBatch(v, Len(batches))' <=> InBatch(v, Len(batches))
    BY <2>3 DEF InBatch
  <2>5. \A v \in Votes : InBatch(v, Len(batches)) => v # req[r]
    BY <2>1
  <2>6. LatestWins'
    <3>1. ASSUME NEW i \in 1..Len(batches), NEW v \in batches[i]
          PROVE  v \in Votes /\ voteSeq'[v] = voteSeq[v]
      <4>1. v \in Votes
        BY <3>1 DEF TypeOK, StoredOK
      <4>2. InBatch(v, Len(batches))
        BY <3>1 DEF InBatch
      <4> QED
        BY <2>2, <2>5, <4>1, <4>2
    <3> QED
      BY <2>3, <3>1 DEF LatestWins
  <2>7. \A v \in Votes : voteSeq[v] \in Nat /\ voteSeq[v] <= voteCounter /\ voteCounter \in Nat
    BY DEF TypeOK, StoredOK, StampInv
  <2> QED
    BY <1>0, <2>2, <2>3, <2>4, <2>5, <2>6, <2>7 DEF Pending, Error
<1>2. CASE SealApply
  <2>1. \A v \in Votes : voteSt'[v] = IF v \in Dropped THEN MoveTo(voteSt[v], Error) ELSE voteSt[v]
    BY <1>2 DEF SealApply, SetVoteStatus, NoLossyFault
  <2>2. \A v \in Dropped : v \in Votes /\ voteSt[v] = Pending
    BY DEF Dropped, Refused, NextBatch, FirstOfSlot, Buffered, BufferInv
  <2>3. \A v \in Votes : voteSt'[v] = IF v \in Dropped THEN Error ELSE voteSt[v]
    BY <2>1, <2>2 DEF MoveTo, CanMoveTo, Final, Pending, Settled, Error
  <2>4. UNCHANGED <<voteSeq, batches, foldTodo, status>> /\ sealing' = Kept
    BY <1>2 DEF SealApply, chain
  <2>5. (sealing \subseteq FirstOfSlot)'
    <3>1. \A v \in Votes : at'[v] = IF v \in Dropped THEN 0 ELSE at[v]
      BY <1>2 DEF SealApply
    <3>2. Kept \subseteq FirstOfSlot \ Dropped
      BY DEF Kept, NextBatch
    <3> QED
      BY <2>4, <3>1, <3>2 DEF FirstOfSlot, Buffered
  <2>6. \A v \in Votes : InBatch(v, Len(batches))' <=> InBatch(v, Len(batches))
    BY <2>4 DEF InBatch
  <2>7. LatestWins'
    BY <2>4 DEF LatestWins
  <2>8. \A v \in Votes : InBatch(v, Len(batches)) => v \notin Dropped
    BY <2>2
  <2> QED
    BY <1>0, <2>3, <2>4, <2>5, <2>6, <2>7, <2>8 DEF Pending, Error
<1>3. CASE SealPersist
  <2>1. UNCHANGED <<voteSeq, foldTodo, status>> /\ sealing' = {}
    BY <1>3 DEF SealPersist, chain
  <2>2. \A v \in sealing : v \in Votes /\ at[v] # 0 /\ voteSeq[v] # 0 /\ voteSt[v] = Pending
    BY DEF FirstOfSlot, Buffered, BufferInv
  <2>3. \A v \in Votes : voteSt'[v] = IF v \in sealing THEN Batched ELSE voteSt[v]
    BY <1>3, <2>2 DEF SealPersist, SetVoteStatus, MoveTo, CanMoveTo, Final, Pending, Batched,
                      Settled, Error
  <2>4. ASSUME NEW u \in Votes, NEW v \in Votes, u \in sealing, v \notin sealing,
               voteSeq[v] # 0, voteSt[v] = Pending, Slot[u] = Slot[v]
        PROVE  voteSeq[u] < voteSeq[v]
    <3>1. rt = "loaded" /\ mu # "cancelWrite"
      BY <1>3 DEF SealPersist, StateInv, RuntimeInv, TypeOK, ControlOK, Sealers
    <3>2. at[v] # 0 /\ at[u] # 0
      BY <2>2, <2>4, <3>1 DEF BufferInv
    <3>3. at[u] <= at[v]
      BY <2>4, <3>2 DEF FirstOfSlot, Buffered
    <3>4. at[u] = voteSeq[u] /\ at[v] = voteSeq[v] /\ voteSeq[u] # voteSeq[v]
      BY <2>4, <3>2 DEF StampInv
    <3> QED
      BY <3>3, <3>4 DEF TypeOK, StoredOK
  <2>5. LatestWins'
    <3>1. ASSUME NEW i \in 1..Len(batches)', NEW j \in 1..Len(batches)',
                 NEW u \in batches'[i], NEW v \in batches'[j],
                 Slot[u] = Slot[v], voteSeq[u] < voteSeq[v]
          PROVE  i < j
      <4>1. Len(batches)' = Len(batches) + 1 /\ Len(batches) \in Nat
        BY <1>3, SealedBatch DEF TypeOK, StoredOK
      <4>2. CASE i \in 1..Len(batches) /\ j \in 1..Len(batches)
        BY <1>3, <3>1, <4>2, SealedBatch DEF LatestWins
      <4>3. CASE i \in 1..Len(batches) /\ j = Len(batches) + 1
        BY <4>1, <4>3
      <4>4. CASE i = Len(batches) + 1 /\ j \in 1..Len(batches)
        <5>1. u \in sealing /\ v \in batches[j] /\ v \in Votes
          BY <1>3, <4>4, SealedBatch DEF TypeOK, StoredOK
        <5>2. InBatch(v, Len(batches))
          BY <4>4, <5>1 DEF InBatch
        <5>3. voteSeq[v] < voteSeq[u]
          BY <2>2, <3>1, <5>1, <5>2
        <5> QED
          BY <2>2, <3>1, <5>1, <5>3 DEF TypeOK, StoredOK
      <4>5. CASE i = Len(batches) + 1 /\ j = Len(batches) + 1
        <5>1. u \in sealing /\ v \in sealing
          BY <1>3, <4>5, SealedBatch
        <5>2. at[u] = at[v]
          BY <2>2, <3>1, <5>1 DEF FirstOfSlot, Buffered, TypeOK, RuntimeOK
        <5>3. voteSeq[u] = voteSeq[v]
          BY <2>2, <5>1, <5>2 DEF StampInv
        <5> QED
          BY <2>2, <3>1, <5>1, <5>3 DEF TypeOK, StoredOK
      <4> QED
        BY <4>1, <4>2, <4>3, <4>4, <4>5
    <3> QED
      BY <2>1, <3>1 DEF LatestWins
  <2>6. \A v \in Votes : InBatch(v, Len(batches))' <=> v \in sealing \/ InBatch(v, Len(batches))
    BY <1>3, SealedBatch
  <2> QED
    BY <1>0, <2>1, <2>2, <2>3, <2>4, <2>5, <2>6 DEF Pending, Batched, Error
<1>4. ASSUME NEW v \in Votes, CancelVote(v) \/ FoldVote(v) \/ SettleVote(v) PROVE BatchInv'
  <2>1. UNCHANGED <<voteSeq, batches, sealing, at, status>> /\ foldTodo' \subseteq foldTodo
    BY <1>4 DEF CancelVote, FoldVote, SettleVote, buffer, chain
  <2>2. \A u \in Votes : InBatch(u, Len(batches))' <=> InBatch(u, Len(batches))
    BY <2>1 DEF InBatch
  <2>3. LatestWins' /\ (sealing \subseteq FirstOfSlot)'
    BY <2>1 DEF LatestWins, FirstOfSlot, Buffered
  <2>4. \A u \in Votes : u # v => voteSt'[u] = voteSt[u]
    BY <1>4 DEF CancelVote, FoldVote, SettleVote, SetVoteStatus, TypeOK, StoredOK
  <2>5. voteSt[v] \in VoteStatus
    BY DEF TypeOK, StoredOK
  <2>6. CASE CancelVote(v)
    <3>1. status = Canceled
      BY <2>6 DEF CancelVote, BufferInv
    <3>2. voteSt'[v] \in {voteSt[v], Error} /\ (voteSt[v] = Pending => voteSt'[v] \in {Pending, Error})
      BY <2>5, <2>6, Moves DEF CancelVote, SetVoteStatus, TypeOK, StoredOK
    <3> QED
      BY <1>0, <2>1, <2>2, <2>3, <2>4, <3>1, <3>2 DEF Pending, Error
  <2>7. CASE FoldVote(v)
    <3>1. InBatch(v, Len(batches))
      BY <2>7 DEF FoldVote
    <3>2. voteSt'[v] \in {voteSt[v], Folded}
      BY <2>5, <2>7, Moves DEF FoldVote, SetVoteStatus, TypeOK, StoredOK
    <3> QED
      BY <1>0, <2>1, <2>2, <2>3, <2>4, <3>1, <3>2 DEF Pending, Folded, Error
  <2>8. CASE SettleVote(v)
    <3>1. voteSeq[v] # 0 => voteSt[v] # Pending
      BY <2>8 DEF SettleVote, StateInv, StatusInv, BufferInv, published
    <3>2. voteSt'[v] = voteSt[v] \/ (voteSt'[v] = Settled /\ voteSt[v] # Error)
      BY <2>5, <2>8, Moves DEF SettleVote, SetVoteStatus, TypeOK, StoredOK
    <3> QED
      BY <1>0, <2>1, <2>2, <2>3, <2>4, <3>1, <3>2 DEF Pending, Settled, Error
  <2> QED
    BY <1>4, <2>6, <2>7, <2>8
<1>5. CASE CommitFold
  <2>1. UNCHANGED <<voteSeq, voteSt, batches, sealing, at, status>>
    BY <1>5 DEF CommitFold, buffer
  <2>2. ASSUME NEW v \in foldTodo' PROVE InBatch(v, Len(batches))
    <3>1. PICK i \in (folded + 1)..folding : v \in batches[i]
      BY <1>5, <2>2 DEF CommitFold
    <3>2. i \in 1..Len(batches)
      BY <3>1 DEF TypeOK, StoredOK, RuntimeOK
    <3> QED
      BY <3>1, <3>2 DEF InBatch
  <2> QED
    BY <2>1, <2>2 DEF LatestWins, FirstOfSlot, Buffered, InBatch
<1>6. CASE /\ voteSeq' = voteSeq /\ voteSt' = voteSt /\ batches' = batches
           /\ sealing' = {} \/ (sealing' = sealing /\ at' = at)
           /\ foldTodo' \in {foldTodo, {}}
           /\ status = Canceled => status' = Canceled
    BY <1>6 DEF LatestWins, FirstOfSlot, Buffered, InBatch
<1> QED
    BY <1>1, <1>2, <1>3, <1>4, <1>5, <1>6, VoteFrame

\* The invariants of the votes hold in every reachable state, without the two
\* lossy faults.
LEMMA VoteInvariant ==
    ASSUME NoLossyFault
    PROVE  Spec => [](QuietInv /\ VoteInv)
<1>1. Init => StampInv /\ VoteInv
  <2> SUFFICES ASSUME Init PROVE StampInv /\ VoteInv
    OBVIOUS
  <2>1. StampInv /\ SubmitInv
    BY DEF Init, StampInv, SubmitInv
  <2>2. BufferInv
    BY DEF Init, BufferInv, published, NoElection, Decrypting, Finalizing, Results
  <2>3. BatchInv
    BY DEF Init, BatchInv, LatestWins, InBatch, FirstOfSlot, Buffered, Pending, Error
  <2> QED
    BY <2>1, <2>2, <2>3 DEF VoteInv
<1>2. TypeOK /\ StateInv /\ StampInv /\ QuietInv /\ VoteInv /\ [Next]_vars => VoteInv'
  <2> SUFFICES ASSUME TypeOK, StateInv, StampInv, QuietInv, VoteInv, [Next]_vars PROVE VoteInv'
    OBVIOUS
  <2>1. SubmitInv'
    BY SubmitNext DEF VoteInv
  <2> QED
    BY <2>1, NoLossyFault, BufferNext, BatchNext DEF VoteInv
<1> QED
    BY <1>1, <1>2, StampNext, StateInvariant, QuietInvariant, PTL DEF Spec

\* While an election is loaded, an accepted vote that is still pending is in
\* the buffer: no failed seal, status change, crash or restart loses it
\* (SubmitVote, sealLocked, unsealedVotes).
THEOREM NoVoteForgottenTheorem ==
    ASSUME NoLossyFault
    PROVE  Spec => []NoVoteForgotten
<1>1. VoteInv => NoVoteForgotten
    BY DEF VoteInv, BufferInv, NoVoteForgotten, Accepted, Buffered, loaded
<1> QED
    BY <1>1, NoLossyFault, VoteInvariant, PTL

\* The votes of one slot are sealed in submission order, in different
\* batches, across failed seals and restarts (nextBatch, unsealedVotes).
THEOREM LatestWinsTheorem ==
    ASSUME NoLossyFault
    PROVE  Spec => []LatestWins
<1>1. VoteInv => LatestWins
    BY DEF VoteInv, BatchInv
<1> QED
    BY <1>1, NoLossyFault, VoteInvariant, PTL

\* Once the encrypted results are published, every accepted vote is either in
\* a folded batch or marked as error, never both (SubmitVote, drain).
THEOREM TallyCompleteTheorem ==
    ASSUME NoLossyFault
    PROVE  Spec => []TallyComplete
<1>1. QuietInv /\ VoteInv => TallyComplete
    BY DEF QuietInv, VoteInv, BufferInv, BatchInv, TallyComplete, published, Accepted,
           Decrypting, Finalizing, Results, Canceled
<1> QED
    BY <1>1, NoLossyFault, VoteInvariant, PTL

-----------------------------------------------------------------------------
(* Settled votes are counted. *)

\* The finalize that settles has stored its results.
SettleInv ==
    /\ fin = "settling" => results # <<>>
    /\ SettledIsCounted

\* A guarded write of a status other than settled settles no vote, and none
\* takes a vote out of settled or error.
LEMMA StatusWrite ==
    ASSUME NEW vs, NEW st \in {Batched, Folded, Error}, TypeOK, voteSt' = SetVoteStatus(vs, st), NEW v \in Votes
    PROVE  /\ voteSt'[v] = Settled <=> voteSt[v] = Settled
           /\ Final(voteSt[v]) => voteSt'[v] = voteSt[v]
           /\ voteSt'[v] = Error => voteSt[v] = Error \/ (st = Error /\ v \in vs)
<1>1. voteSt'[v] = IF v \in vs THEN MoveTo(voteSt[v], st) ELSE voteSt[v]
    BY DEF SetVoteStatus
<1>2. voteSt[v] \in VoteStatus
    BY DEF TypeOK, StoredOK
<1> QED
    BY <1>1, <1>2 DEF MoveTo, CanMoveTo, Final, VoteStatus, Pending, Batched, Folded, Settled, Error

\* Only a finalize settles votes.
LEMMA SettleFrame ==
    ASSUME TypeOK, StateInv, [Next]_vars
    PROVE  \/ \E v \in Votes : SettleVote(v)
           \/ \A v \in Votes : voteSt'[v] = Settled => voteSt[v] = Settled /\ voteSeq'[v] = voteSeq[v]
<1>1. CASE \E r \in Reqs : SubmitCommit(r)
  <2> PICK r \in Reqs : SubmitCommit(r)
    BY <1>1
  <2>1. req[r] \in Votes /\ voteSt \in [Votes -> VoteStatus] /\ voteSeq \in [Votes -> Nat]
    BY DEF SubmitCommit, TypeOK, RuntimeOK, StoredOK
  <2> QED
    BY <2>1 DEF SubmitCommit, AddVote, Pending, Settled
<1>2. CASE SealApply
  <2>1. voteSeq' = voteSeq /\ \E vs : voteSt' = SetVoteStatus(vs, Error)
    BY <1>2 DEF SealApply
  <2> QED
    BY <2>1, StatusWrite
<1>3. CASE SealPersist
  <2>1. voteSeq' = voteSeq /\ voteSt' = SetVoteStatus(sealing, Batched)
    BY <1>3 DEF SealPersist
  <2> QED
    BY <2>1, StatusWrite
<1>4. ASSUME NEW w \in Votes, CancelVote(w) \/ FoldVote(w)
      PROVE  \A v \in Votes : voteSt'[v] = Settled => voteSt[v] = Settled /\ voteSeq'[v] = voteSeq[v]
  <2>1. /\ voteSeq' = voteSeq
        /\ voteSt' = voteSt \/ voteSt' = SetVoteStatus({w}, Error) \/ voteSt' = SetVoteStatus({w}, Folded)
    BY <1>4 DEF CancelVote, FoldVote
  <2> QED
    BY <2>1, StatusWrite
<1>5. CASE CommitFold
    BY <1>5 DEF CommitFold
<1> QED
    BY <1>1, <1>2, <1>3, <1>4, <1>5, VoteFrame

\* Only a finalize stores results and goes on to settle.
LEMMA ResultsFrame ==
    ASSUME TypeOK, [Next]_vars
    PROVE  FinalizeProved \/ (results' = results /\ fin' \in {fin, "idle", "proving"})
<1> USE DEF stored, records
<1>1. CASE Voter \/ Monitor
    BY <1>1 DEF Voter, SubmitReject, SubmitBegin, SubmitCommit, Monitor, TickOpen, SealIfStale, TickEnded
<1>2. CASE Seal
    BY <1>2 DEF Seal, SealApply, SealPersist, SealRestoreFails, SealPersistFails, SealDone
<1>3. CASE Organizer
    BY <1>3 DEF Organizer, CreateElection, PauseResume, EndBegin, EndWrite, CancelBegin,
                CancelWrite, CancelDone, CancelVote
<1>4. CASE Drain \/ Fold
    BY <1>4 DEF Drain, DrainStart, DrainFold, DrainFails, DrainPublish, Fold, FoldStart, FoldFails,
                CommitFold, FoldVote
<1>5. CASE Finalize
    BY <1>5 DEF Finalize, KeyAccepted, FinalizeFails, FinalizeDone, SettleVote
<1>6. CASE Crash \/ Restart \/ UNCHANGED vars
    BY <1>6 DEF Crash, Restart, vars
<1> QED
    BY <1>1, <1>2, <1>3, <1>4, <1>5, <1>6 DEF Next

\* The results of a finalize are the batches of the election, and there is one.
LEMMA ProvedResults ==
    ASSUME TypeOK, FinalizeProved
    PROVE  results' = batches /\ results' # <<>> /\ UNCHANGED <<voteSt, voteSeq, batches, folded, status>>
<1>1. batches \in Seq(SUBSET Votes) /\ folded = Len(batches) /\ folded > 0 /\ results' = SubSeq(batches, 1, folded)
    BY DEF TypeOK, StoredOK, FinalizeProved, DigestMatches
<1>2. SubSeq(batches, 1, Len(batches)) = batches
    BY <1>1
<1> QED
    BY <1>1, <1>2 DEF FinalizeProved

\* A vote is settled from the batches of a published election, and those are
\* its results (finalizeElection).
LEMMA SettleNext ==
    ASSUME TypeOK, StateInv, QuietInv, VoteInv, SettleInv, [Next]_vars
    PROVE  SettleInv'
<1> USE DEF SettleInv, SettledIsCounted, Accepted
<1>1. CASE FinalizeProved
  <2>1. results = <<>> \/ results = batches
    BY DEF QuietInv
  <2>2. results' = batches /\ results' # <<>> /\ UNCHANGED <<voteSt, voteSeq>>
    BY <1>1, ProvedResults
  <2>3. results = <<>> => Len(results) = 0
    OBVIOUS
  <2> QED
    BY <2>1, <2>2, <2>3
<1>2. CASE results' = results /\ fin' \in {fin, "idle", "proving"}
  <2>1. (fin = "settling" => results # <<>>)'
    BY <1>2
  <2>2. ASSUME NEW v \in Votes, SettleVote(v) PROVE SettledIsCounted'
    <3>1. status = Finalizing /\ results = batches /\ voteSeq' = voteSeq
      BY <2>2 DEF SettleVote, StateInv, StatusInv, QuietInv
    <3>2. voteSt[v] \in VoteStatus /\ voteSt \in [Votes -> VoteStatus]
      BY DEF TypeOK, StoredOK
    <3>3. \A u \in Votes : u # v => voteSt'[u] = voteSt[u]
      BY <2>2, <3>2 DEF SettleVote, SetVoteStatus
    <3>4. voteSt'[v] = Settled => voteSt[v] \notin {Error}
      BY <2>2, <3>2, Moves DEF SettleVote, SetVoteStatus, Settled, Error
    <3>5. voteSeq[v] # 0 => voteSt[v] # Pending
      BY <3>1 DEF VoteInv, BufferInv, published
    <3>6. voteSeq[v] # 0 /\ voteSt'[v] = Settled => \E i \in 1..Len(results) : v \in results[i]
      BY <3>1, <3>4, <3>5 DEF VoteInv, BatchInv, InBatch
    <3> QED
      BY <1>2, <3>1, <3>3, <3>6
  <2>3. CASE \A v \in Votes : voteSt'[v] = Settled => voteSt[v] = Settled /\ voteSeq'[v] = voteSeq[v]
    BY <1>2, <2>3
  <2> QED
    BY <2>1, <2>2, <2>3, SettleFrame
<1> QED
    BY <1>1, <1>2, ResultsFrame

\* A vote reads settled only when the stored results count it, for any failed
\* writes but the two that lose a vote (finalizeElection, setVotesStatus).
THEOREM SettledIsCountedTheorem ==
    ASSUME NoLossyFault
    PROVE  Spec => []SettledIsCounted
<1>1. Init => SettleInv
    BY DEF Init, SettleInv, SettledIsCounted, Accepted
<1>2. SettleInv => SettledIsCounted
    BY DEF SettleInv
<1>3. TypeOK /\ StateInv /\ QuietInv /\ VoteInv /\ SettleInv /\ [Next]_vars => SettleInv'
    BY SettleNext
<1> QED
    BY <1>1, <1>2, <1>3, NoLossyFault, StateInvariant, VoteInvariant, PTL DEF Spec

-----------------------------------------------------------------------------
(* The votes follow their election. *)

\* The writes of the sweep do not fail, and the process does not stop in it.
\* A cancel's sweep is not run again.
NoSweepFault == "VoteStatus" \notin Faulty /\ "Crash" \notin Faulty

\* What the sweeps of a finalize and of a cancel have left to mark is in todo.
SweepInv ==
    /\ proc = "up"
    /\ fin = "settling" => \A v \in Votes : voteSeq[v] # 0 => v \in todo \/ Final(voteSt[v])
    /\ status = Results => \A v \in Votes : voteSeq[v] # 0 => Final(voteSt[v])
    /\ mu = "cancelVotes" =>
          status = Canceled /\ \A v \in Votes : voteSeq[v] # 0 => v \in todo \/ voteSt[v] = Error
    /\ status = Canceled /\ mu # "cancelVotes" => \A v \in Votes : voteSeq[v] # 0 => voteSt[v] = Error
    /\ \A v \in Votes : voteSeq[v] # 0 /\ voteSt[v] = Settled => published

\* What a step that writes no settled status, accepts no vote and starts no
\* sweep keeps.
LEMMA SweepKept ==
    ASSUME SweepInv, TypeOK, TypeOK', voteSeq' = voteSeq, proc' = proc, todo' = todo,
           fin' = "settling" => fin = "settling",
           status' = Results => status = Results,
           status' = Canceled <=> status = Canceled,
           mu' = "cancelVotes" <=> mu = "cancelVotes",
           published => published',
           \A v \in Votes : /\ voteSt'[v] = Settled => voteSt[v] = Settled
                            /\ Final(voteSt[v]) => voteSt'[v] = voteSt[v]
    PROVE  SweepInv'
BY DEF SweepInv, Final

\* Every vote is marked when its sweep ends, and what is marked stays: a fold
\* that marks votes meanwhile leaves the final ones alone (setVotesStatus).
LEMMA SweepNext ==
    ASSUME NoSweepFault, TypeOK, TypeOK', StateInv, QuietInv, SweepInv, [Next]_vars
    PROVE  SweepInv'
<1> USE DEF published, Active, Paused, Ended, Decrypting, Finalizing, Results, Canceled, NoElection
<1>a. ASSUME UNCHANGED <<voteSeq, voteSt, proc, todo>>,
             fin' = "settling" => fin = "settling",
             status' = Results => status = Results,
             status' = Canceled <=> status = Canceled,
             mu' = "cancelVotes" <=> mu = "cancelVotes",
             published => published'
      PROVE  SweepInv'
    BY <1>a, SweepKept
<1>1. CASE Voter
  <2>1. CASE \E r \in Reqs : SubmitReject(r)
    BY <2>1, <1>a DEF SubmitReject, stored, records
  <2>2. CASE \E r \in Reqs : \E v \in Votes : SubmitBegin(r, v)
    BY <2>2, <1>a DEF SubmitBegin, stored, records
  <2>3. CASE \E r \in Reqs : SubmitCommit(r)
    <3> PICK r \in Reqs : SubmitCommit(r)
      BY <2>3
    <3>1. req[r] \in Votes
      BY DEF SubmitCommit, TypeOK, RuntimeOK
    <3>2. status = Active /\ status' = Active /\ mu' = "submit" /\ fin' = fin /\ fin = "idle" /\ proc' = proc
      BY DEF SubmitCommit, StillOpen, TypeOK, ControlOK, StateInv, StatusInv
    <3>3. \A v \in Votes : voteSeq'[v] # 0 => voteSt'[v] # Settled
      BY <3>1, <3>2 DEF SubmitCommit, AddVote, TypeOK, StoredOK, SweepInv, Pending, Settled
    <3> QED
      BY <3>2, <3>3 DEF SweepInv
  <2> QED
    BY <1>1, <2>1, <2>2, <2>3 DEF Voter
<1>2. CASE SealApply
  <2>1. \E vs : voteSt' = SetVoteStatus(vs, Error)
    BY <1>2 DEF SealApply
  <2>2. mu # "cancelVotes" /\ mu' # "cancelVotes"
    BY <1>2 DEF SealApply, WantsSeal, SealNext, Sealers
  <2> QED
    BY <1>2, <2>1, <2>2, StatusWrite, SweepKept DEF SealApply
<1>3. CASE SealPersist
  <2>1. mu # "cancelVotes" /\ mu' # "cancelVotes"
    BY <1>3 DEF SealPersist, SealNext, Sealers, TypeOK, ControlOK
  <2> QED
    BY <1>3, <2>1, StatusWrite, SweepKept DEF SealPersist
<1>4. CASE SealRestoreFails \/ SealPersistFails \/ SealDone
  <2>1. mu # "cancelVotes" /\ mu' # "cancelVotes"
    BY <1>4 DEF SealRestoreFails, SealPersistFails, SealDone, WantsSeal, SealError, Sealers, TypeOK, ControlOK
  <2> QED
    BY <1>4, <2>1, <1>a DEF SealRestoreFails, SealPersistFails, SealDone, stored, records
<1>5. CASE Monitor
    BY <1>5, <1>a DEF Monitor, TickOpen, SealIfStale, TickEnded, stored, records
<1>6. CASE Organizer
  <2>1. CASE CreateElection
    <3>1. fin = "idle" /\ mu # "cancelVotes"
      BY <2>1 DEF CreateElection, SweepInv, StateInv, StatusInv, TypeOK, ControlOK
    <3> QED
      BY <2>1, <3>1, <1>a DEF CreateElection
  <2>2. CASE (\E to \in Status : PauseResume(to)) \/ EndBegin
    BY <2>2, <1>a DEF PauseResume, EndBegin, statusChanges, stored, records
  <2>3. CASE EndWrite
    BY <2>3, <1>a DEF EndWrite, StateInv, StatusInv, records
  <2>4. CASE CancelBegin
    BY <2>4, <1>a DEF CancelBegin, stored, records
  <2>5. CASE CancelWrite
    <3>1. status \in {Active, Paused} /\ fin = "idle" /\ UNCHANGED <<voteSeq, voteSt, proc, fin>>
      BY <2>5 DEF CancelWrite, records, StateInv, StatusInv, TypeOK, ControlOK
    <3>2. CASE status' = Canceled /\ mu' = "cancelVotes" /\ todo' = Accepted
      BY <3>1, <3>2 DEF SweepInv, Accepted
    <3>3. CASE mu' = "free" /\ UNCHANGED <<status, todo>>
      BY <2>5, <3>1, <3>3, <1>a DEF CancelWrite
    <3> QED
      BY <2>5, <3>2, <3>3 DEF CancelWrite
  <2>6. CASE CancelDone
    BY <2>6 DEF CancelDone, stored, records, SweepInv
  <2>7. ASSUME NEW w \in Votes, CancelVote(w) PROVE SweepInv'
    <3>1. voteSt' = SetVoteStatus({w}, Error) /\ todo' = todo \ {w} /\ UNCHANGED <<voteSeq, status, mu, fin, proc>>
      BY <2>7 DEF CancelVote, NoSweepFault
    <3>2. status = Canceled /\ mu = "cancelVotes" /\ fin = "idle"
      BY <2>7 DEF CancelVote, SweepInv, StateInv, StatusInv, TypeOK, ControlOK
    <3>3. \A v \in Votes : voteSt'[v] = IF v = w THEN MoveTo(voteSt[w], Error) ELSE voteSt[v]
      BY <3>1 DEF SetVoteStatus
    <3>4. voteSt[w] \in VoteStatus
      BY DEF TypeOK, StoredOK
    <3>5. voteSeq[w] # 0 => voteSt[w] # Settled
      BY <3>2 DEF SweepInv
    <3>6. voteSeq[w] # 0 => voteSt'[w] = Error
      BY <3>3, <3>4, <3>5, Moves
    <3>7. \A v \in Votes : voteSeq[v] # 0 => voteSt'[v] # Settled /\ (v \in todo' \/ voteSt'[v] = Error)
      BY <3>1, <3>2, <3>3, <3>6 DEF SweepInv, Settled, Error
    <3> QED
      BY <3>1, <3>2, <3>7 DEF SweepInv
  <2> QED
    BY <1>6, <2>1, <2>2, <2>3, <2>4, <2>5, <2>6, <2>7 DEF Organizer
<1>7. CASE Drain
    BY <1>7, <1>a DEF Drain, DrainStart, DrainFold, FoldStart, DrainFails, DrainPublish, MayPublish, stored, records
<1>8. CASE Fold
  <2>1. CASE (\E n \in 1..Len(batches) : FoldStart(n)) \/ FoldFails \/ CommitFold
    BY <2>1, <1>a DEF FoldStart, FoldFails, CommitFold, stored, records
  <2>2. ASSUME NEW w \in Votes, FoldVote(w) PROVE SweepInv'
    BY <2>2, <1>a, StatusWrite, SweepKept DEF FoldVote
  <2> QED
    BY <1>8, <2>1, <2>2 DEF Fold
<1>9. CASE Finalize
  <2>1. CASE KeyAccepted \/ FinalizeFails
    BY <2>1, <1>a DEF KeyAccepted, FinalizeFails, records, StateInv, StatusInv
  <2>2. CASE FinalizeProved
    <3>1. status = Finalizing /\ status' = status /\ mu' = mu /\ todo' = Accepted /\ UNCHANGED <<voteSeq, voteSt, proc>>
      BY <2>2 DEF FinalizeProved, StateInv, StatusInv
    <3> QED
      BY <3>1 DEF SweepInv, Accepted
  <2>3. CASE FinalizeDone
    <3>1. status = Finalizing /\ todo = {} /\ fin = "settling" /\ fin' = "idle" /\ mu' = mu
      BY <2>3 DEF FinalizeDone, StateInv, StatusInv
    <3>2. status' \in {Results, Finalizing} /\ UNCHANGED <<voteSeq, voteSt, proc>>
      BY <2>3, <3>1 DEF FinalizeDone, records
    <3> QED
      BY <3>1, <3>2 DEF SweepInv
  <2>4. ASSUME NEW w \in Votes, SettleVote(w) PROVE SweepInv'
    <3>1. voteSt' = SetVoteStatus({w}, Settled) /\ todo' = todo \ {w} /\ UNCHANGED <<voteSeq, status, mu, fin, proc>>
      BY <2>4 DEF SettleVote, NoSweepFault
    <3>2. status = Finalizing /\ mu # "cancelVotes"
      BY <2>4 DEF SettleVote, SweepInv, StateInv, StatusInv
    <3>3. \A v \in Votes : voteSt'[v] = IF v = w THEN MoveTo(voteSt[w], Settled) ELSE voteSt[v]
      BY <3>1 DEF SetVoteStatus
    <3>4. voteSt[w] \in VoteStatus
      BY DEF TypeOK, StoredOK
    <3>5. Final(voteSt'[w])
      BY <3>3, <3>4, Moves DEF Final
    <3> QED
      BY <3>1, <3>2, <3>3, <3>5 DEF SweepInv
  <2> QED
    BY <1>9, <2>1, <2>2, <2>3, <2>4 DEF Finalize
<1>10. CASE Crash \/ Restart
    BY <1>10 DEF Crash, Restart, NoSweepFault, SweepInv, up
<1>11. CASE UNCHANGED vars
    BY <1>11, <1>a DEF vars, stored, records
<1> QED
    BY <1>1, <1>2, <1>3, <1>4, <1>5, <1>6, <1>7, <1>8, <1>9, <1>10, <1>11 DEF Next, Seal

\* Once an election shows its results every vote reads settled or error, and
\* once a cancel returned every vote reads error, whatever else fails and
\* whatever a fold marks meanwhile (finalizeElection, changeStatus, fold).
THEOREM VotesFollowTheorem ==
    ASSUME NoSweepFault
    PROVE  Spec => []VotesFollow
<1>1. Init => SweepInv
    BY DEF Init, SweepInv, NoElection, Results, Canceled
<1>2. SweepInv => VotesFollow
    BY DEF SweepInv, VotesFollow, Accepted
<1>3. TypeOK /\ TypeOK' /\ StateInv /\ QuietInv /\ SweepInv /\ [Next]_vars => SweepInv'
    BY NoSweepFault, SweepNext
<1> QED
    BY <1>1, <1>2, <1>3, StateInvariant, QuietInvariant, PTL DEF Spec
-----------------------------------------------------------------------------
(* Election implements BallotBox. *)

\* The counter counts the log, and no empty batch is stored.
CountInv ==
    /\ voteCounter = Cardinality(Accepted)
    /\ \A i \in 1..Len(batches) : batches[i] # {}

\* AddVote moves the counter with the log, and a seal that keeps no vote
\* stores no batch (AddVote, sealLocked).
LEMMA CountNext ==
    ASSUME TypeOK, StateInv, SubmitInv, CountInv, [Next]_vars
    PROVE  CountInv'
<1>1. (voteCounter = Cardinality(Accepted))'
  <2>1. ASSUME NEW r \in Reqs, SubmitCommit(r) PROVE (voteCounter = Cardinality(Accepted))'
    <3>1. req[r] \in Votes /\ req[r] \notin Accepted
      BY <2>1 DEF SubmitCommit, TypeOK, RuntimeOK, SubmitInv, Accepted
    <3>2. voteSeq' = [voteSeq EXCEPT ![req[r]] = voteCounter + 1] /\ voteCounter' = voteCounter + 1
      BY <2>1 DEF SubmitCommit, AddVote
    <3>3. Accepted' = Accepted \union {req[r]}
      BY <3>1, <3>2 DEF Accepted, TypeOK, StoredOK
    <3>4. IsFiniteSet(Accepted)
      BY VotesAssumption, FS_Subset DEF Accepted
    <3> QED
      BY <3>1, <3>2, <3>3, <3>4, FS_AddElement DEF CountInv
  <2>2. CASE voteSeq' = voteSeq /\ voteCounter' = voteCounter
    BY <2>2 DEF CountInv, Accepted
  <2>3. CASE Restart
    BY <2>2, <2>3 DEF Restart, records
  <2> QED
    BY <2>1, <2>2, <2>3, StampFrame
<1>2. (\A i \in 1..Len(batches) : batches[i] # {})'
  <2>1. CASE SealPersist
    <3>1. sealing # {} /\ Len(batches) \in Nat
      BY <2>1 DEF SealPersist, TypeOK, StoredOK
    <3> QED
      BY <2>1, <3>1, SealedBatch DEF CountInv
  <2>2. CASE batches' = batches
    BY <2>2 DEF CountInv
  <2>3. CASE SealApply
    BY <2>2, <2>3 DEF SealApply
  <2> QED
    BY <2>1, <2>2, <2>3, BatchFrame
<1> QED
    BY <1>1, <1>2 DEF CountInv

\* A nonempty set of votes has one that arrived first.
LEMMA FirstArrival ==
    ASSUME TypeOK, NEW S \in SUBSET Votes, S # {}
    PROVE  \E m \in S : \A u \in S : ~(at[u] < at[m])
<1> DEFINE T == {at[u] : u \in S}
<1>1. T \subseteq Nat /\ T # {}
    BY DEF TypeOK, RuntimeOK
<1>2. PICK x \in T : \A y \in T : ~(<<y, x>> \in OpToRel(<, Nat))
    BY <1>1, NatLessThanWellFounded, WFMin
<1>3. \A y \in T : ~(y < x)
    BY <1>1, <1>2 DEF OpToRel
<1> QED
    BY <1>3

\* Of the votes a seal drops, each has the key of a vote that stays: one of a
\* stored batch, or the first of its key in the batch being sealed
\* (applyBatch).
LEMMA DroppedFor ==
    ASSUME TypeOK, VoteInv, SealBase = batches, status # Canceled, NEW v \in Dropped
    PROVE  \E u \in (Accepted \ VotesWithStatus(Error)) \ Dropped : Key[u] = Key[v]
<1>1. \A u \in NextBatch : u \in Votes /\ voteSeq[u] # 0 /\ voteSt[u] = Pending
    BY DEF NextBatch, FirstOfSlot, Buffered, VoteInv, BufferInv
<1>2. v \in NextBatch /\ Dropped \subseteq NextBatch
    BY DEF Dropped, Refused
<1>3. CASE Key[v] \in AppliedKeys(batches)
  <2>1. PICK i \in 1..Len(batches) : \E u \in batches[i] : Key[u] = Key[v]
    BY <1>3 DEF AppliedKeys
  <2>2. PICK u \in batches[i] : Key[u] = Key[v]
    BY <2>1
  <2>3. u \in Votes /\ InBatch(u, Len(batches))
    BY DEF TypeOK, StoredOK, InBatch
  <2>4. voteSeq[u] # 0 /\ voteSt[u] # Pending /\ voteSt[u] # Error
    BY <2>3 DEF VoteInv, BatchInv
  <2>5. u \notin Dropped
    BY <1>1, <1>2, <2>4
  <2> QED
    BY <2>2, <2>3, <2>4, <2>5 DEF Accepted, VotesWithStatus
<1>4. CASE Key[v] \notin AppliedKeys(batches)
  <2> DEFINE S == {u \in NextBatch : Key[u] = Key[v]}
  <2>1. S \in SUBSET Votes /\ S # {}
    BY <1>1, <1>2
  <2> HIDE DEF S
  <2>2. PICK m \in S : \A u \in S : ~(at[u] < at[m])
    BY <2>1, FirstArrival
  <2>3. m \in NextBatch /\ Key[m] = Key[v]
    BY DEF S
  <2>4. m \notin Dropped
    BY <1>4, <2>2, <2>3 DEF Dropped, Refused, S
  <2>5. m \in Accepted \ VotesWithStatus(Error)
    BY <1>1, <2>3 DEF Accepted, VotesWithStatus, Pending, Error
  <2> QED
    BY <2>3, <2>4, <2>5
<1> QED
    BY <1>3, <1>4

\* When every vote of the log is in a batch or in error, the votes the batches
\* count are the last valid ones of every slot.
LEMMA CountedIsLatest ==
    ASSUME TypeOK, StampInv, AppliedOnce, LatestWins, NEW V \in SUBSET Votes,
           \A v \in Votes : v \in V <=> InBatch(v, Len(batches)),
           \A v \in V : voteSeq[v] # 0
    PROVE  CountedIn(batches) = {v \in V : \A u \in V : Slot[u] = Slot[v] => voteSeq[u] <= voteSeq[v]}
<1> DEFINE L == {v \in V : \A u \in V : Slot[u] = Slot[v] => voteSeq[u] <= voteSeq[v]}
<1>0. /\ batches \in Seq(SUBSET Votes) /\ Len(batches) \in Nat
      /\ \A v \in Votes : voteSeq[v] \in Nat
    BY DEF TypeOK, StoredOK
<1>1. ASSUME NEW v \in CountedIn(batches) PROVE v \in L
  <2>1. v \in Votes
    BY DEF CountedIn
  <2>2. PICK i \in 1..Len(batches) :
            v \in batches[i] /\ \A j \in (i + 1)..Len(batches) : \A u \in batches[j] : Slot[u] # Slot[v]
    BY DEF CountedIn
  <2>3. v \in V
    BY <2>1, <2>2 DEF InBatch
  <2>4. ASSUME NEW u \in V, Slot[u] = Slot[v], ~(voteSeq[u] <= voteSeq[v]) PROVE FALSE
    <3>1. PICK j \in 1..Len(batches) : u \in batches[j]
      BY DEF InBatch
    <3>2. voteSeq[v] < voteSeq[u]
      BY <1>0, <2>1, <2>4
    <3>3. i < j
      BY <2>2, <2>4, <3>1, <3>2 DEF LatestWins
    <3>4. j \in (i + 1)..Len(batches)
      BY <1>0, <3>3
    <3> QED
      BY <2>2, <2>4, <3>1, <3>4
  <2> QED
    BY <2>3, <2>4
<1>2. ASSUME NEW v \in L PROVE v \in CountedIn(batches)
  <2>1. v \in Votes /\ v \in V
    OBVIOUS
  <2>2. PICK i \in 1..Len(batches) : v \in batches[i]
    BY <2>1 DEF InBatch
  <2>3. ASSUME NEW j \in (i + 1)..Len(batches), NEW u \in batches[j], Slot[u] = Slot[v] PROVE FALSE
    <3>1. j \in 1..Len(batches) /\ i < j
      BY <1>0
    <3>2. u \in Votes /\ u \in V
      BY <1>0, <3>1 DEF InBatch
    <3>3. voteSeq[u] <= voteSeq[v]
      BY <2>3, <3>2
    <3>4. CASE voteSeq[u] = voteSeq[v]
      <4>1. u = v
        BY <2>1, <3>2, <3>4 DEF StampInv
      <4> QED
        BY <2>2, <3>1, <4>1 DEF AppliedOnce
    <3>5. CASE voteSeq[u] < voteSeq[v]
      BY <2>2, <2>3, <3>1, <3>5 DEF LatestWins
    <3> QED
      BY <1>0, <2>1, <3>2, <3>3, <3>4, <3>5
  <2> QED
    BY <2>1, <2>2, <2>3 DEF CountedIn
<1> QED
    BY <1>1, <1>2
\* The steps BallotBox does not see as a change of the votes or the results:
\* all but a submission, a seal, a cancel's sweep and a finalize.
LEMMA VoidFrame ==
    ASSUME TypeOK, StateInv, [Next]_vars
    PROVE  \/ \E r \in Reqs : SubmitCommit(r)
           \/ SealApply
           \/ \E v \in Votes : CancelVote(v)
           \/ voteSeq' = voteSeq /\ VotesWithStatus(Error)' = VotesWithStatus(Error)
<1> USE DEF VotesWithStatus, Accepted
<1>1. ASSUME voteSeq' = voteSeq, \A v \in Votes : voteSt'[v] = Error <=> voteSt[v] = Error
      PROVE  voteSeq' = voteSeq /\ VotesWithStatus(Error)' = VotesWithStatus(Error)
    BY <1>1
<1>2. CASE SealPersist
  <2>1. voteSeq' = voteSeq /\ voteSt' = SetVoteStatus(sealing, Batched)
    BY <1>2 DEF SealPersist
  <2>2. \A v \in Votes : voteSt'[v] = Error <=> voteSt[v] = Error
    BY <2>1, StatusWrite DEF Final, Batched, Error
  <2> QED
    BY <1>1, <2>1, <2>2
<1>3. ASSUME NEW w \in Votes, FoldVote(w) \/ SettleVote(w)
      PROVE  voteSeq' = voteSeq /\ VotesWithStatus(Error)' = VotesWithStatus(Error)
  <2>1. /\ voteSeq' = voteSeq
        /\ voteSt' = voteSt \/ voteSt' = SetVoteStatus({w}, Folded) \/ voteSt' = SetVoteStatus({w}, Settled)
    BY <1>3 DEF FoldVote, SettleVote
  <2>2. CASE voteSt' = voteSt
    BY <1>1, <2>1, <2>2
  <2>3. CASE voteSt' = SetVoteStatus({w}, Folded)
    <3>1. \A v \in Votes : voteSt'[v] = Error <=> voteSt[v] = Error
      BY <2>3, StatusWrite DEF Final, Folded, Error
    <3> QED
      BY <1>1, <2>1, <3>1
  <2>4. CASE voteSt' = SetVoteStatus({w}, Settled)
    <3>1. \A v \in Votes : voteSt[v] \in VoteStatus
      BY DEF TypeOK, StoredOK
    <3>2. \A v \in Votes : voteSt'[v] = Error <=> voteSt[v] = Error
      BY <2>4, <3>1, Moves DEF SetVoteStatus, Settled, Error
    <3> QED
      BY <1>1, <2>1, <3>2
  <2> QED
    BY <2>1, <2>2, <2>3, <2>4
<1>4. CASE CommitFold
    BY <1>4 DEF CommitFold
<1> QED
    BY <1>1, <1>2, <1>3, <1>4, VoteFrame

\* Only the drain publishes, and only a finalize announces.
LEMMA PublishFrame ==
    ASSUME TypeOK, StateInv, [Next]_vars
    PROVE  /\ status = Ended /\ status' = Decrypting => DrainPublish
           /\ status = Finalizing /\ status' = Results => FinalizeDone
<1> USE DEF stored, Active, Paused, Ended, Decrypting, Finalizing, Results, Canceled, NoElection
<1>1. CASE Voter \/ Seal \/ Monitor \/ Fold \/ Crash
  BY <1>1 DEF Voter, SubmitReject, SubmitBegin, SubmitCommit, Seal, SealApply, SealPersist,
              SealRestoreFails, SealPersistFails, SealDone, Monitor, TickOpen, SealIfStale,
              TickEnded, Fold, FoldStart, FoldFails, CommitFold, FoldVote, Crash
<1>2. CASE Organizer
  BY <1>2 DEF Organizer, CreateElection, PauseResume, EndBegin, EndWrite, CancelBegin,
              CancelWrite, CancelDone, CancelVote
<1>3. CASE DrainStart \/ DrainFold \/ DrainFails
  BY <1>3 DEF DrainStart, DrainFold, FoldStart, DrainFails
<1>4. CASE DrainPublish
  <2>1. status' \in {status, Decrypting}
    BY <1>4 DEF DrainPublish
  <2> QED
    BY <1>4, <2>1
<1>5. CASE KeyAccepted \/ FinalizeFails \/ FinalizeProved \/ \E v \in Votes : SettleVote(v)
  BY <1>5 DEF KeyAccepted, FinalizeFails, FinalizeProved, SettleVote, StateInv, StatusInv
<1>6. CASE FinalizeDone
  <2>1. status' \in {status, Results}
    BY <1>6 DEF FinalizeDone
  <2> QED
    BY <1>6, <2>1
<1>7. CASE Restart \/ UNCHANGED vars
  BY <1>7 DEF Restart, vars
<1> QED
  BY <1>1, <1>2, <1>3, <1>4, <1>5, <1>6, <1>7 DEF Next, Drain, Finalize

\* The votes behind the published ciphertext, as the mapping reads them.
Box == IF published THEN CountedIn(SubSeq(batches, 1, folded)) ELSE {}

\* A published election has all its batches folded, so the ciphertext is that
\* of all its batches, and it stays: nothing is sealed any more.
LEMMA BoxFrame ==
    ASSUME TypeOK, QuietInv, TypeOK', QuietInv', [Next]_vars
    PROVE  /\ published => Box = CountedIn(batches)
           /\ published' => Box' = CountedIn(batches')
           /\ published /\ published' => Box' = Box
<1>1. published => Box = CountedIn(batches)
  <2>1. SubSeq(batches, 1, Len(batches)) = batches
    BY DEF TypeOK, StoredOK
  <2> QED
    BY <2>1 DEF QuietInv, Box
<1>2. published' => Box' = CountedIn(batches')
  <2>1. SubSeq(batches', 1, Len(batches')) = batches'
    BY DEF TypeOK, StoredOK
  <2> QED
    BY <2>1 DEF QuietInv, Box, CountedIn
<1>3. published => batches' = batches
    BY BatchFrame DEF SealApply, SealPersist, QuietInv
<1>4. published => CountedIn(batches') = CountedIn(batches)
    BY <1>3
<1> QED
    BY <1>1, <1>2, <1>4

\* A step that leaves the mapped state alone is invisible.
LEMMA Invisible ==
    ASSUME PhaseOf(status)' = PhaseOf(status), voteSeq' = voteSeq,
           VotesWithStatus(Error)' = VotesWithStatus(Error), Box' = Box, results' = results
    PROVE  UNCHANGED Promise!vars
BY DEF Promise!vars, Box, published, CountedIn

\* Every step of the engine is a step of the ballot box or invisible to it.
LEMMA PromiseNext ==
    ASSUME NoLossyFault, TypeOK, TypeOK', StateInv, StampInv, KeyInv, QuietInv, QuietInv', VoteInv,
           SettleInv, CountInv, [Next]_vars
    PROVE  [Promise!Next]_(Promise!vars)
<1> DEFINE Void == VotesWithStatus(Error)
<1> DEFINE Valid == Accepted \ Void
<1>0. Promise!Cast = Accepted /\ Promise!Valid = Valid
    BY DEF Promise!Cast, Promise!Valid, Accepted
<1>1. ASSUME NEW r \in Reqs, SubmitCommit(r) PROVE Promise!Next
  <2>1. req[r] \in Votes /\ req[r] \notin Accepted /\ status = Active
    BY <1>1 DEF SubmitCommit, StillOpen, TypeOK, RuntimeOK, VoteInv, SubmitInv, Accepted
  <2>2. /\ voteSeq' = [voteSeq EXCEPT ![req[r]] = voteCounter + 1]
        /\ voteSt' = [voteSt EXCEPT ![req[r]] = Pending]
        /\ UNCHANGED <<status, results>>
    BY <1>1 DEF SubmitCommit, AddVote
  <2>3. Void' = Void
    BY <2>1, <2>2 DEF VotesWithStatus, Accepted, TypeOK, StoredOK, Pending, Error
  <2>4. PhaseOf(status) = "open" /\ PhaseOf(status') = "open" /\ ~published /\ ~published'
    BY <2>1, <2>2 DEF published, PhaseOf, Active, Paused, Ended, Decrypting, Finalizing, Results,
                      Canceled, NoElection
  <2>5. voteSeq' = [voteSeq EXCEPT ![req[r]] = Cardinality(Promise!Cast) + 1]
    BY <1>0, <2>2 DEF CountInv
  <2>6. CountedIn(results)' = CountedIn(results)
    BY <2>2 DEF CountedIn
  <2>7. Promise!CastVote(req[r])
    <3>0. Promise!Cardinality(Promise!Cast) = Cardinality(Promise!Cast)
      BY DEF Promise!Cardinality, Cardinality
    <3>1. req[r] \notin Promise!Cast
      BY <1>0, <2>1
    <3> HIDE DEF Void
    <3>2. UNCHANGED <<PhaseOf(status), VotesWithStatus(Error), CountedIn(results)>>
      BY <2>3, <2>4, <2>6 DEF Void
    <3> QED
      BY <2>4, <2>5, <3>0, <3>1, <3>2 DEF Promise!CastVote, published
  <2> QED
    BY <2>1, <2>7 DEF Promise!Next
<1>2. CASE SealApply
  <2>1. /\ UNCHANGED <<status, voteSeq, results, batches, folded>> /\ mu \in Sealers
        /\ voteSt' = SetVoteStatus(Dropped, Error)
    BY <1>2 DEF SealApply, WantsSeal, NoLossyFault
  <2>2. \A v \in Dropped : v \in Votes /\ voteSeq[v] # 0 /\ voteSt[v] = Pending
    BY DEF Dropped, Refused, NextBatch, FirstOfSlot, Buffered, VoteInv, BufferInv
  <2>3. \A v \in Votes : voteSt'[v] = IF v \in Dropped THEN Error ELSE voteSt[v]
    BY <2>1, <2>2, Moves DEF SetVoteStatus, VoteStatus, Pending, Settled, Error
  <2>4. Void' = Void \union Dropped /\ Dropped \in SUBSET Valid
    BY <2>1, <2>2, <2>3 DEF VotesWithStatus, Accepted, Pending, Error
  <2>5. CASE Dropped = {}
    BY <2>1, <2>4, <2>5, Invisible DEF Box, published, CountedIn, PhaseOf
  <2>6. CASE Dropped # {}
    <3>1. ~published
      BY <2>1, <2>6, EmptyBuffer DEF QuietInv, Dropped, Refused, NextBatch, FirstOfSlot, Buffered
    <3>2. status # NoElection
      BY <2>1 DEF StateInv, StatusInv, RuntimeInv
    <3>3. CASE status = Canceled
      <4>1. Promise!Annul(Dropped)
        BY <2>1, <2>4, <3>3 DEF Promise!Annul, CountedIn, PhaseOf, Active, Paused, Ended,
                                 Decrypting, Finalizing, Results, Canceled, NoElection
      <4> QED
        BY <1>0, <2>4, <4>1 DEF Promise!Next
    <3>4. CASE status \in {Active, Paused, Ended}
      <4>1. SealBase = batches
        BY <1>2 DEF SealApply, WantsSeal, SealBase, dirty, StateInv, RuntimeInv, TreeInv, TypeOK,
                    RuntimeOK
      <4>2. \A v \in Dropped : \E u \in Valid \ Dropped : Key[u] = Key[v]
        BY <3>4, <4>1, DroppedFor DEF Active, Paused, Ended, Canceled
      <4>3. Promise!Refuse(Dropped)
        BY <1>0, <2>1, <2>4, <3>4, <4>2
           DEF Promise!Refuse, CountedIn, PhaseOf, Active, Paused, Ended, Decrypting, Finalizing,
               Results, Canceled, NoElection
      <4> QED
        BY <1>0, <2>4, <4>3 DEF Promise!Next
    <3> QED
      BY <3>1, <3>2, <3>3, <3>4 DEF TypeOK, StoredOK, Status, published
  <2> QED
    BY <2>5, <2>6
<1>3. ASSUME NEW v \in Votes, CancelVote(v) PROVE [Promise!Next]_(Promise!vars)
  <2>1. status = Canceled /\ UNCHANGED <<status, voteSeq, results, batches, folded>>
    BY <1>3 DEF CancelVote, VoteInv, BufferInv
  <2>2. \A u \in Votes : voteSt'[u] = IF u = v THEN voteSt'[v] ELSE voteSt[u]
    BY <1>3 DEF CancelVote, SetVoteStatus
  <2>3. voteSt'[v] \in {voteSt[v], Error} /\ (voteSt[v] = Error => voteSt'[v] = Error)
    BY <1>3, Moves DEF CancelVote, SetVoteStatus, TypeOK, StoredOK
  <2>4. CASE Void' = Void
    BY <2>1, <2>4, Invisible DEF Box, published, CountedIn, PhaseOf
  <2>5. CASE Void' # Void
    <3>1. {v} \in SUBSET Valid /\ Void' = Void \union {v}
      BY <2>1, <2>2, <2>3, <2>5 DEF VotesWithStatus, Accepted
    <3>2. Promise!Annul({v})
      BY <2>1, <3>1 DEF Promise!Annul, CountedIn, PhaseOf, Active, Paused, Ended,
                                 Decrypting, Finalizing, Results, Canceled, NoElection
    <3> QED
      BY <1>0, <3>1, <3>2 DEF Promise!Next
  <2> QED
    BY <2>4, <2>5
<1>4. CASE FinalizeProved
  <2>1. status = Finalizing /\ published /\ UNCHANGED <<status, voteSeq, voteSt, batches, folded>>
    BY <1>4 DEF FinalizeProved, StateInv, StatusInv, published
  <2>2. CountedIn(results)' = Box /\ Box' = Box
    BY <1>4, <2>1, ProvedResults, BoxFrame DEF CountedIn, published
  <2>3. Void' = Void
    BY <2>1 DEF VotesWithStatus, Accepted
  <2>4. Promise!Count
    BY <2>1, <2>2, <2>3 DEF Promise!Count, Box, published, PhaseOf, Active, Paused, Ended,
                                 Decrypting, Finalizing, Results, Canceled, NoElection
  <2> QED
    BY <2>4 DEF Promise!Next
<1>5. CASE /\ results' = results /\ voteSeq' = voteSeq /\ Void' = Void
  <2>1. CASE PhaseOf(status)' = PhaseOf(status)
    <3>1. published' <=> published
      BY <2>1 DEF published, PhaseOf, TypeOK, StoredOK, Status, Active, Paused, Ended,
                  Decrypting, Finalizing, Results, Canceled, NoElection
    <3>2. Box' = Box
      BY <3>1, BoxFrame DEF Box
    <3> QED
      BY <1>5, <2>1, <3>2, Invisible
  <2>2. CASE \/ status = NoElection /\ status' = Active
             \/ status \in {Active, Paused} /\ status' \in {Ended, Canceled}
    <3>1. Promise!Open \/ Promise!Close \/ Promise!Cancel
      BY <1>5, <2>2 DEF Promise!Open, Promise!Close, Promise!Cancel, CountedIn, PhaseOf, Active,
                        Paused, Ended, Decrypting, Finalizing, Results, Canceled, NoElection
    <3> QED
      BY <3>1 DEF Promise!Next
  <2>3. CASE status = Ended /\ status' = Decrypting
    <3>1. DrainPublish
      BY <2>3, PublishFrame
    <3>2. batches' = batches /\ drain = "fold"
      BY <3>1 DEF DrainPublish, records
    <3>3. \A v \in Votes : v \in Valid <=> InBatch(v, Len(batches))
      BY <2>3, <3>2 DEF VoteInv, BufferInv, BatchInv, VotesWithStatus, Accepted, Ended, Canceled
    <3>4. Valid \in SUBSET Votes /\ \A v \in Valid : voteSeq[v] # 0
      BY DEF Accepted
    <3>5. CountedIn(batches) = Promise!Latest
      <4> HIDE DEF Valid
      <4> QED
        BY <1>0, <3>3, <3>4, CountedIsLatest DEF Promise!Latest, KeyInv, VoteInv, BatchInv
    <3>6. Box' = Promise!Latest
      BY <2>3, <3>2, <3>5, BoxFrame DEF published
    <3>7. Promise!Publish
      BY <1>5, <2>3, <3>6 DEF Promise!Publish, Box, published, CountedIn, PhaseOf, Active,
                        Paused, Ended, Decrypting, Finalizing, Results, Canceled, NoElection
    <3> QED
      BY <3>7 DEF Promise!Next
  <2>4. CASE status = Finalizing /\ status' = Results
    <3>1. FinalizeDone
      BY <2>4, PublishFrame
    <3>2. results # <<>> /\ results = batches
      BY <3>1 DEF FinalizeDone, SettleInv, QuietInv
    <3>3. CountedIn(results) = Box /\ Box' = Box
      BY <2>4, <3>2, BoxFrame DEF published
    <3>4. CountedIn(batches) # {}
      <4>1. batches \in Seq(SUBSET Votes) /\ Len(batches) \in Nat \ {0}
        BY <3>2 DEF TypeOK, StoredOK
      <4>2. PICK v \in batches[Len(batches)] : TRUE
        BY <4>1 DEF CountInv
      <4> QED
        BY <4>1, <4>2 DEF CountedIn
    <3>5. PhaseOf(status) = "published" /\ PhaseOf(status') = "announced"
      BY <2>4 DEF PhaseOf, Active, Paused, Ended, Decrypting, Finalizing, Results, Canceled,
                  NoElection
    <3>6. CountedIn(results)' = CountedIn(results) /\ Box # {}
      BY <1>5, <3>2, <3>3, <3>4 DEF CountedIn
    <3>7. Promise!Announce
      BY <1>5, <3>3, <3>5, <3>6 DEF Promise!Announce, Box, published
    <3> QED
      BY <3>7 DEF Promise!Next
  <2> QED
    BY <2>1, <2>2, <2>3, <2>4, StatusStep
       DEF PhaseOf, Active, Paused, Ended, Decrypting, Finalizing, Results, Canceled, NoElection
<1> QED
    BY <1>1, <1>2, <1>3, <1>4, <1>5, VoidFrame, ResultsFrame

\* The engine keeps the promise of BallotBox to its voters, for any failed
\* writes but the two that lose a vote: votes are refused only for a collision
\* whose other vote stays, what is published is exactly the last valid vote of
\* every slot, and what is announced is what was published (SubmitVote,
\* sealLocked, drain, Finalize, restore).
THEOREM PromiseKeptTheorem ==
    ASSUME NoLossyFault
    PROVE  Spec => PromiseKept
<1>1. Init => Promise!Init
  <2> SUFFICES ASSUME Init PROVE Promise!Init
    OBVIOUS
  <2>1. status = NoElection /\ results = <<>> /\ voteSeq = [v \in Votes |-> 0]
    BY DEF Init
  <2>2. VotesWithStatus(Error) = {} /\ CountedIn(<<>>) = {}
    BY <2>1 DEF VotesWithStatus, Accepted, CountedIn
  <2> QED
    BY <2>1, <2>2 DEF Promise!Init, PhaseOf, NoElection, Active, Paused, Ended, Decrypting,
                      Finalizing, Results, Canceled
<1>2. Init => StampInv /\ KeyInv /\ SettleInv /\ CountInv
  <2>1. Init => StampInv /\ KeyInv /\ SettleInv
    BY DEF Init, StampInv, KeyInv, AppliedOnce, SettleInv, SettledIsCounted, Accepted
  <2>2. Init => Accepted = {} /\ voteCounter = 0 /\ Len(batches) = 0
    BY DEF Init, Accepted
  <2>3. Init => CountInv
    BY <2>2, FS_EmptySet DEF CountInv
  <2> QED
    BY <2>1, <2>3
<1>3. TypeOK /\ StateInv /\ QuietInv /\ VoteInv /\ SettleInv /\ [Next]_vars => SettleInv'
    BY SettleNext
<1>4. TypeOK /\ StateInv /\ VoteInv /\ CountInv /\ [Next]_vars => CountInv'
    BY CountNext DEF VoteInv
<1>5. /\ TypeOK /\ TypeOK' /\ StateInv /\ StampInv /\ KeyInv /\ QuietInv /\ QuietInv' /\ VoteInv
      /\ SettleInv /\ CountInv /\ [Next]_vars
      => [Promise!Next]_(Promise!vars)
    BY NoLossyFault, PromiseNext
<1>6. Spec => Promise!Init /\ [][Promise!Next]_(Promise!vars)
    BY <1>1, <1>2, <1>3, <1>4, <1>5, NoLossyFault, StampNext, KeyNext, StateInvariant,
       VoteInvariant, PTL DEF Spec
<1> QED
    BY <1>6 DEF PromiseKept, Promise!Spec
=============================================================================
