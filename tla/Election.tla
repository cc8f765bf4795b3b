------------------------------ MODULE Election ------------------------------
(***************************************************************************)
(* One election from its creation to its results, as orchestrator.Engine   *)
(* runs it over storage.Storage: voters submit votes, full and stale       *)
(* batches are sealed under the runtime's mutex, the organizer changes the *)
(* status, the scheduler folds sealed batches, the drain publishes the     *)
(* encrypted results and a finalize publishes the tally.  The process may  *)
(* crash between any two storage writes, and a write named in Faulty may   *)
(* fail.                                                                   *)
(*                                                                         *)
(* A state tree is abstracted to the sequence of batches applied to it, a  *)
(* batch to the set of its votes.                                          *)
(***************************************************************************)
EXTENDS ElectionTypes, FiniteSets, Sequences

CONSTANTS
    Votes,      \* vote IDs; their order is the key order of the vote log
    Slot,       \* ballot slot of the voter who casts a vote
    Key,        \* vote-ID tree key of a vote; equal keys collide in the tree
    BatchSize,  \* votes per full batch
    Reqs,       \* concurrent SubmitVote requests
    Faulty      \* the storage writes (and the process) that may fail

\* What may fail, by the write or read it stands for.
Faults == {"Snapshot", "SealBatch", "DropStatus", "VoteStatus", "EndUpdate",
           "CancelUpdate", "DrainUpdate", "Rollback", "ResultsUpdate", "Load", "Crash"}

\* The smallest batch CreateElection accepts.
minBatchSize == 2

ASSUME VotesAssumption == Votes \subseteq Nat \ {0} /\ IsFiniteSet(Votes)
ASSUME SlotAssumption == Slot \in [Votes -> Nat]
ASSUME KeyAssumption == Key \in [Votes -> Nat]
ASSUME BatchSizeAssumption == BatchSize \in Nat /\ BatchSize >= minBatchSize
ASSUME FaultyAssumption == Faulty \subseteq Faults

VARIABLES
    \* Persisted by storage.Storage.
    status,       \* Election.Status
    results,      \* the state the stored Results were computed from, <<>> before
    voteSeq,      \* Vote.Seq, 0 while the vote is not in the log
    voteCounter,  \* the election's vote sequence counter
    voteSt,       \* stored VoteStatus
    batches,      \* BatchInput.VoteIDs by sequence number
    snapshot,     \* the last stored state snapshot
    folded,       \* FoldCheckpoint.BatchesFolded
    \* The runtime of the election in the process.
    proc,         \* the process is "up" or "down"
    rt,           \* Engine.runtimes holds the election: "loaded" or "none"
    at,           \* arrival stamp of a vote in rt.pending, 0 when not in it
    state,        \* rt.state
    tree,         \* rt.dirty: rt.state is "clean" or "dirty"
    batchSeq,     \* rt.batchSeq
    mu,           \* what the holder of rt.mu is doing, "free" when nobody holds it
    sealing,      \* the batch applied to rt.state and not yet persisted
    req,          \* the vote a SubmitVote request holds the dedup locks of, 0 if none
    todo,         \* votes a setVotesStatus sweep has left
    started,      \* calls the monitor decided on that have not got to their lock or guard
    drain,        \* the guarded drain: idle, seal or fold
    folding,      \* batches folded once the fold job in flight completes, 0 if none
    foldTodo,     \* votes of the last committed fold not yet marked folded
    fin           \* the background finalize: idle, proving or settling

records == <<results, voteSeq, voteCounter, voteSt, batches, snapshot, folded>>
stored  == <<status, records>>
buffer  == <<at, state, tree, batchSeq>>
monitor == <<started, drain>>
chain   == <<folding, foldTodo>>
vars    == <<stored, proc, rt, buffer, mu, sealing, req, todo, monitor, chain, fin>>

-----------------------------------------------------------------------------
up     == proc = "up"
loaded == rt = "loaded"
dirty  == tree = "dirty"

\* Votes of the log, and of the pending buffer.
Accepted == {v \in Votes : voteSeq[v] # 0}
Buffered == {v \in Votes : at[v] # 0}
InBatch(v, n) == \E i \in 1..n : v \in batches[i]
AppliedKeys(s) == {Key[v] : v \in UNION {s[i] : i \in 1..Len(s)}}

\* Buffered votes with no earlier vote of the same slot in the buffer.
FirstOfSlot == {v \in Buffered : \A u \in Buffered : Slot[u] = Slot[v] => at[v] <= at[u]}

\* nextBatch, as a set (module Sealing checks the loop against this): the
\* first BatchSize votes of the buffer that are the first of their slot.
NextBatch ==
    {v \in FirstOfSlot : Cardinality({u \in FirstOfSlot : at[u] < at[v]}) < BatchSize}

\* Mutant: only the votes of one batch are compared.
MutRefused(base, batch) ==
    {v \in batch : \E u \in batch : at[u] < at[v] /\ Key[u] = Key[v]}
\* Mutant: one refused vote takes its batch along.
MutRefusedAll(base, batch) ==
    {v \in batch : \E w \in batch : \/ Key[w] \in AppliedKeys(base)
                                   \/ \E u \in batch : at[u] < at[w] /\ Key[u] = Key[w]}
\* The votes applyBatch leaves out: ApplyBatch refuses a vote whose key is
\* already in the tree.
Refused(base, batch) ==
    {v \in batch : \/ Key[v] \in AppliedKeys(base)
                   \/ \E u \in batch : at[u] < at[v] /\ Key[u] = Key[v]}

\* Mutant: a failed seal's state is built upon.
MutSealBase == state
\* The state a seal starts from: a dirty one is first restored.
SealBase == IF dirty THEN snapshot ELSE state

\* Mutant: the buffer is reloaded in vote ID order.
MutRestoredAt(v) == v
\* unsealedVotes sorts the reloaded votes by Seq.
RestoredAt(v) == voteSeq[v]

VotesWithStatus(st) == {v \in Accepted : voteSt[v] = st}

\* unsealedVotes: the accepted votes still pending that no batch holds.
Unsealed == {v \in VotesWithStatus(Pending) : ~InBatch(v, Len(batches))}

\* Storing batch b under sequence number i (from 1) overwrites what is there.
PutBatch(i, b) ==
    IF i = Len(batches) + 1
    THEN Append(batches, b)
    ELSE [j \in 1..Len(batches) |-> IF j = i THEN b ELSE batches[j]]

\* The status writes of a set of votes.
SetVoteStatus(vs, st) == [v \in Votes |-> IF v \in vs THEN MoveTo(voteSt[v], st) ELSE voteSt[v]]

\* Scheduler.stopped
stopped == status \in {Canceled, Results}

-----------------------------------------------------------------------------
Init ==
    /\ status = NoElection /\ results = <<>> /\ voteCounter = 0
    /\ voteSeq = [v \in Votes |-> 0] /\ voteSt = [v \in Votes |-> Pending]
    /\ batches = <<>> /\ snapshot = <<>> /\ folded = 0
    /\ proc = "up" /\ rt = "none"
    /\ at = [v \in Votes |-> 0] /\ state = <<>> /\ tree = "clean" /\ batchSeq = 0
    /\ mu = "free" /\ sealing = {} /\ req = [r \in Reqs |-> 0] /\ todo = {}
    /\ started = {} /\ drain = "idle"
    /\ folding = 0 /\ foldTodo = {} /\ fin = "idle"

\* Engine.CreateElection: the record and its genesis snapshot in one write,
\* then the runtime.
CreateElection ==
    /\ up /\ status = NoElection
    /\ status' = Active /\ snapshot' = <<>>
    /\ rt' = "loaded" /\ batchSeq' = 0
    /\ at' = [v \in Votes |-> 0] /\ state' = <<>> /\ tree' = "clean"
    /\ UNCHANGED <<results, voteSeq, voteCounter, voteSt, batches, folded, proc, mu, sealing, req,
                   todo, monitor, chain, fin>>

-----------------------------------------------------------------------------
\* LockVoteID and LockAddress succeed: no request in flight has the vote, or
\* one of the same voter.
LockVoteID(v)  == \A q \in Reqs : req[q] # v
LockAddress(v) == \A q \in Reqs : req[q] # 0 => Slot[req[q]] # Slot[v]

\* Storage.AddVote: the counter, the vote and its status in one write.
AddVote(v) ==
    /\ voteCounter' = voteCounter + 1
    /\ voteSeq' = [voteSeq EXCEPT ![v] = voteCounter + 1]
    /\ voteSt' = [voteSt EXCEPT ![v] = Pending]

\* SubmitVote, before rt.mu: the status check, the lock of the vote ID, the
\* duplicate check and the lock of the voter's address.
SubmitBegin(r, v) ==
    /\ up /\ loaded /\ status = Active /\ req[r] = 0
    /\ LockVoteID(v) /\ v \notin Accepted /\ LockAddress(v)
    /\ req' = [req EXCEPT ![r] = v]
    /\ UNCHANGED <<stored, proc, rt, buffer, mu, sealing, todo, monitor, chain, fin>>

\* SubmitVote returns an error (an invalid vote, a status changed meanwhile, a
\* failed write) and releases its locks.
SubmitReject(r) ==
    /\ up /\ req[r] # 0
    /\ req' = [req EXCEPT ![r] = 0]
    /\ UNCHANGED <<stored, proc, rt, buffer, mu, sealing, todo, monitor, chain, fin>>

\* Mutant: the status is not checked again under rt.mu.
MutStillOpen == TRUE
\* The status check under rt.mu.
StillOpen == status = Active

\* SubmitVote under rt.mu: AddVote, the append to the buffer, then the seals
\* of sealFullLocked (mu = "submit").  The locks of the request are released
\* with it; the code holds them until those seals return.
SubmitCommit(r) ==
    /\ up /\ req[r] # 0 /\ mu = "free" /\ StillOpen
    /\ AddVote(req[r])
    /\ at' = [at EXCEPT ![req[r]] = voteCounter + 1]
    /\ req' = [req EXCEPT ![r] = 0]
    /\ mu' = "submit"
    /\ UNCHANGED <<status, results, batches, snapshot, folded, proc, rt, state, tree, batchSeq,
                   sealing, todo, monitor, chain, fin>>

-----------------------------------------------------------------------------
\* Who seals under rt.mu: SubmitVote, sealIfStale, changeStatus to ended and
\* the drain.
Sealers == {"submit", "stale", "end", "drain"}

\* The loop condition of sealFullLocked, sealIfStale and sealAllLocked.
WantsSeal ==
    /\ mu \in Sealers /\ sealing = {}
    /\ IF mu = "submit" THEN Cardinality(NextBatch) = BatchSize ELSE Buffered # {}

\* Where the sealer goes after a seal: sealIfStale looks at the age of the
\* oldest vote again, the others loop.
SealNext == IF mu = "stale" THEN {"stale", "free"} ELSE {mu}

\* Mutant: a drain that fails to seal does not give its guard back.
MutSealError == mu' = (IF mu = "end" THEN "endWrite" ELSE "free") /\ drain' = drain
\* A failed seal ends the loop; changeStatus goes on and ends the election,
\* the drain fails and is run again.
SealError ==
    /\ mu' = IF mu = "end" THEN "endWrite" ELSE "free"
    /\ drain' = IF mu = "drain" THEN "idle" ELSE drain

\* The votes of the next batch the state refuses, and the others.
Dropped == Refused(SealBase, NextBatch)
Kept == NextBatch \ Dropped

\* sealLocked up to the write: restore a dirty state, take the next batch,
\* apply what the state accepts and drop the rest as error (dropVote).
SealApply ==
    /\ up /\ WantsSeal
    /\ \E lost \in SUBSET Dropped :
          /\ lost # {} => "DropStatus" \in Faulty
          /\ voteSt' = SetVoteStatus(Dropped \ lost, Error)
    /\ at' = [v \in Votes |-> IF v \in Dropped THEN 0 ELSE at[v]]
    /\ sealing' = Kept
    /\ \/ /\ Kept # {}
          /\ state' = Append(SealBase, Kept) /\ tree' = "dirty"
          /\ mu' = mu
       \/ /\ Kept = {}
          /\ state' = snapshot /\ tree' = "clean"
          /\ mu' \in SealNext
    /\ UNCHANGED <<status, results, voteSeq, voteCounter, batches, snapshot, folded, proc, rt,
                   batchSeq, req, todo, monitor, chain, fin>>

\* A read fails: restoreState's or the election's at the start of sealLocked,
\* or restoreState's between the attempts of applyBatch, which leaves the tree
\* half written.
SealRestoreFails ==
    /\ "Snapshot" \in Faulty
    /\ up /\ WantsSeal
    /\ \/ dirty /\ UNCHANGED <<state, tree>>
       \/ state' = SealBase /\ tree' = "clean"
       \/ /\ Dropped # {} /\ tree' = "dirty"
          /\ \E part \in SUBSET NextBatch : state' = Append(SealBase, part)
    /\ SealError
    /\ UNCHANGED <<stored, proc, rt, at, batchSeq, sealing, req, todo, started, chain, fin>>

\* Storage.SealBatch and the end of sealLocked.
SealPersist ==
    /\ up /\ sealing # {}
    /\ batches' = PutBatch(batchSeq + 1, sealing)
    /\ snapshot' = state
    /\ voteSt' = SetVoteStatus(sealing, Batched)
    /\ tree' = "clean"
    /\ at' = [v \in Votes |-> IF v \in sealing THEN 0 ELSE at[v]]
    /\ batchSeq' = batchSeq + 1
    /\ sealing' = {}
    /\ mu' \in SealNext
    /\ UNCHANGED <<status, results, voteSeq, voteCounter, folded, proc, rt, state, req, todo,
                   monitor, chain, fin>>

\* Mutant: the buffer drops the batch before the batch is stored.
MutSealPersistFails ==
    /\ "SealBatch" \in Faulty
    /\ up /\ sealing # {}
    /\ sealing' = {}
    /\ at' = [v \in Votes |-> IF v \in sealing THEN 0 ELSE at[v]]
    /\ SealError
    /\ UNCHANGED <<stored, proc, rt, state, tree, batchSeq, req, todo, started, chain, fin>>
\* The snapshot, the encoding or the write of the batch fails: the state stays
\* ahead of the stored snapshot.
SealPersistFails ==
    /\ "SealBatch" \in Faulty
    /\ up /\ sealing # {}
    /\ sealing' = {}
    /\ SealError
    /\ UNCHANGED <<stored, proc, rt, buffer, req, todo, started, chain, fin>>

\* The loop ends: nothing (or no full batch) is left.
SealDone ==
    /\ up /\ mu \in Sealers /\ sealing = {} /\ ~WantsSeal
    /\ mu' = IF mu = "end" THEN "endWrite" ELSE "free"
    /\ drain' = IF mu = "drain" THEN "fold" ELSE drain
    /\ UNCHANGED <<stored, proc, rt, buffer, sealing, req, todo, started, chain, fin>>

\* Mutant: the votes of a paused election are not sealed.
MutTickOpen ==
    /\ up /\ loaded /\ status = Active
    /\ started' = started \union {"sealIfStale"}
    /\ UNCHANGED <<stored, proc, rt, buffer, mu, sealing, req, todo, drain, chain, fin>>
\* tick reads an open status, outside rt.mu ...
TickOpen ==
    /\ up /\ loaded /\ status \in {Active, Paused}
    /\ started' = started \union {"sealIfStale"}
    /\ UNCHANGED <<stored, proc, rt, buffer, mu, sealing, req, todo, drain, chain, fin>>

\* ... and sealIfStale then locks the runtime: nothing to do, or the oldest
\* vote has aged past the window and is sealed whatever the status is by now.
SealIfStale ==
    /\ up /\ "sealIfStale" \in started /\ mu = "free"
    /\ started' = started \ {"sealIfStale"}
    /\ mu' \in {"free"} \union (IF Buffered # {} THEN {"stale"} ELSE {})
    /\ UNCHANGED <<stored, proc, rt, buffer, sealing, req, todo, drain, chain, fin>>

-----------------------------------------------------------------------------
\* changeStatus between active and paused.
PauseResume(to) ==
    /\ up /\ loaded /\ mu = "free"
    /\ to \in statusChanges(status) \intersect {Active, Paused}
    /\ status' = to
    /\ UNCHANGED <<records, proc, rt, buffer, mu, sealing, req, todo, monitor, chain, fin>>

\* changeStatus to ended, by the organizer or the monitor: rt.mu is held from
\* the status check, over the seals, to the write.
EndBegin ==
    /\ up /\ loaded /\ mu = "free"
    /\ Ended \in statusChanges(status)
    /\ mu' = "end"
    /\ UNCHANGED <<stored, proc, rt, buffer, sealing, req, todo, monitor, chain, fin>>

EndWrite ==
    /\ up /\ mu = "endWrite"
    /\ mu' = "free"
    /\ \/ status' = Ended
       \/ "EndUpdate" \in Faulty /\ status' = status
    /\ UNCHANGED <<records, proc, rt, buffer, sealing, req, todo, monitor, chain, fin>>

\* changeStatus to canceled empties the buffer first.
CancelBegin ==
    /\ up /\ loaded /\ mu = "free"
    /\ Canceled \in statusChanges(status)
    /\ at' = [v \in Votes |-> 0]
    /\ mu' = "cancelWrite"
    /\ UNCHANGED <<stored, proc, rt, state, tree, batchSeq, sealing, req, todo, monitor, chain,
                   fin>>

\* The status is written and the runtime dropped, then setVotesStatus starts.
CancelWrite ==
    /\ up /\ mu = "cancelWrite"
    /\ \/ /\ status' = Canceled /\ rt' = "none"
          /\ todo' = Accepted /\ mu' = "cancelVotes"
       \/ /\ "CancelUpdate" \in Faulty
          /\ mu' = "free" /\ UNCHANGED <<status, rt, todo>>
    /\ UNCHANGED <<records, proc, buffer, sealing, req, monitor, chain, fin>>

\* One vote of setVotesStatus(canceled election, error).
CancelVote(v) ==
    /\ up /\ mu = "cancelVotes" /\ v \in todo
    /\ todo' = todo \ {v}
    /\ \/ voteSt' = SetVoteStatus({v}, Error)
       \/ "VoteStatus" \in Faulty /\ voteSt' = voteSt
    /\ UNCHANGED <<status, results, voteSeq, voteCounter, batches, snapshot, folded, proc, rt,
                   buffer, mu, sealing, req, monitor, chain, fin>>

CancelDone ==
    /\ up /\ mu = "cancelVotes" /\ todo = {}
    /\ mu' = "free"
    /\ UNCHANGED <<stored, proc, rt, buffer, sealing, req, todo, monitor, chain, fin>>

-----------------------------------------------------------------------------
\* tick of an ended election starts a drainAndPublish goroutine.
TickEnded ==
    /\ up /\ loaded /\ status = Ended
    /\ started' = started \union {"drainAndPublish"}
    /\ UNCHANGED <<stored, proc, rt, buffer, mu, sealing, req, todo, drain, chain, fin>>

\* drainAndPublish: the guard Engine.draining lets one drain run; another
\* returns.
DrainStart ==
    /\ up /\ "drainAndPublish" \in started
    /\ started' = started \ {"drainAndPublish"}
    /\ \/ drain = "idle" /\ mu = "free" /\ drain' = "seal" /\ mu' = "drain"
       \/ drain # "idle" /\ UNCHANGED <<drain, mu>>
    /\ UNCHANGED <<stored, proc, rt, buffer, sealing, req, todo, chain, fin>>

\* The drive lock of the fold chain is free.
ChainIdle == folding = 0 /\ foldTodo = {}

\* Scheduler.Drain failed: a batch could not be proved or folded.
DrainFails ==
    /\ up /\ drain = "fold" /\ ChainIdle /\ folded < Len(batches)
    /\ drain' = "idle"
    /\ UNCHANGED <<stored, proc, rt, buffer, mu, sealing, req, todo, started, chain, fin>>

\* Mutant: the drain publishes without looking at the stored status.
MutMayPublish == TRUE
\* The check in the drain's UpdateElection.
MayPublish == status = Ended

\* The end of drain: the chain holds every batch, or there is nothing to do
\* for a stopped election, and the election moves to decrypting.
DrainPublish ==
    /\ up /\ drain = "fold" /\ ChainIdle
    /\ folded = Len(batches) \/ stopped
    /\ drain' = "idle"
    /\ \/ MayPublish /\ status' = Decrypting
       \/ ~MayPublish /\ status' = status
       \/ "DrainUpdate" \in Faulty /\ status' = status
    /\ UNCHANGED <<records, proc, rt, buffer, mu, sealing, req, todo, started, chain, fin>>

-----------------------------------------------------------------------------
\* Scheduler.fold, under the drive lock: a fold job of the batches after the
\* last fold, up to batch n, is started on the fold worker.
FoldStart(n) ==
    /\ up /\ ChainIdle /\ ~stopped /\ loaded
    /\ n \in (folded + 1)..Len(batches)
    /\ folding' = n
    /\ UNCHANGED <<stored, proc, rt, buffer, mu, sealing, req, todo, monitor, foldTodo, fin>>

\* The drain folds every batch left.
DrainFold == drain = "fold" /\ FoldStart(Len(batches))

\* The job, or the write of the fold, fails.
FoldFails ==
    /\ up /\ folding # 0
    /\ folding' = 0
    /\ UNCHANGED <<stored, proc, rt, buffer, mu, sealing, req, todo, monitor, foldTodo, fin>>

\* CommitFold; the status is not looked at again.
CommitFold ==
    /\ up /\ folding # 0
    /\ folded' = folding /\ folding' = 0
    /\ foldTodo' = UNION {batches[i] : i \in (folded + 1)..folding}
    /\ UNCHANGED <<status, results, voteSeq, voteCounter, voteSt, batches, snapshot, proc, rt,
                   buffer, mu, sealing, req, todo, monitor, fin>>

\* One vote of the fold is marked folded.
FoldVote(v) ==
    /\ up /\ v \in foldTodo
    /\ foldTodo' = foldTodo \ {v}
    /\ \/ voteSt' = SetVoteStatus({v}, Folded)
       \/ "VoteStatus" \in Faulty /\ voteSt' = voteSt
    /\ UNCHANGED <<status, results, voteSeq, voteCounter, batches, snapshot, folded, proc, rt,
                   buffer, mu, sealing, req, todo, monitor, folding, fin>>

-----------------------------------------------------------------------------
\* SubmitDecryptionKey, under Engine.finalizing: the key is accepted and the
\* finalize starts in the background; another submission meanwhile is refused.
KeyAccepted ==
    /\ up /\ loaded /\ status = Decrypting /\ fin = "idle"
    /\ status' = Finalizing /\ fin' = "proving"
    /\ UNCHANGED <<records, proc, rt, buffer, mu, sealing, req, todo, monitor, chain>>

\* finalizeElection after a failed Finalize: back to decrypting.
FinalizeFails ==
    /\ up /\ fin = "proving"
    /\ fin' = "idle"
    /\ \/ status' = Decrypting
       \/ "Rollback" \in Faulty /\ status' = status
    /\ UNCHANGED <<records, proc, rt, buffer, mu, sealing, req, todo, monitor, chain>>

\* Mutant: the digest is not compared with the local state.
MutDigestMatches == TRUE
\* verifyFinalDigest: the folded batches lead to the state the tally was
\* computed from.
DigestMatches == SubSeq(batches, 1, folded) = state

\* Mutant: the votes are settled before the results are stored.
MutFinalizeProved ==
    /\ up /\ fin = "proving" /\ ChainIdle
    /\ folded = Len(batches) /\ folded > 0
    /\ DigestMatches
    /\ fin' = "settling" /\ todo' = Accepted
    /\ UNCHANGED <<stored, proc, rt, buffer, mu, sealing, req, monitor, chain>>
\* Scheduler.Finalize succeeds: every batch is folded, there is a fold, the
\* final proof matches the local state, and the results are stored.
FinalizeProved ==
    /\ up /\ fin = "proving" /\ ChainIdle
    /\ folded = Len(batches) /\ folded > 0
    /\ DigestMatches
    /\ results' = state
    /\ fin' = "settling" /\ todo' = Accepted
    /\ UNCHANGED <<status, voteSeq, voteCounter, voteSt, batches, snapshot, folded, proc, rt,
                   buffer, mu, sealing, req, monitor, chain>>

\* One vote of setVotesStatus(election, settled).
SettleVote(v) ==
    /\ up /\ fin = "settling" /\ v \in todo
    /\ todo' = todo \ {v}
    /\ \/ voteSt' = SetVoteStatus({v}, Settled)
       \/ "VoteStatus" \in Faulty /\ voteSt' = voteSt
    /\ UNCHANGED <<status, results, voteSeq, voteCounter, batches, snapshot, folded, proc, rt,
                   buffer, mu, sealing, req, monitor, chain, fin>>

\* The election shows its results.
FinalizeDone ==
    /\ up /\ fin = "settling" /\ todo = {}
    /\ fin' = "idle"
    /\ \/ status' = Results
       \/ "ResultsUpdate" \in Faulty /\ status' = status
    /\ UNCHANGED <<records, proc, rt, buffer, mu, sealing, req, todo, monitor, chain>>

-----------------------------------------------------------------------------
\* The process stops between two storage writes and loses its memory.
Crash ==
    /\ "Crash" \in Faulty
    /\ up
    /\ proc' = "down" /\ rt' = "none"
    /\ at' = [v \in Votes |-> 0] /\ state' = <<>> /\ tree' = "clean" /\ batchSeq' = 0
    /\ mu' = "free" /\ sealing' = {} /\ req' = [r \in Reqs |-> 0] /\ todo' = {}
    /\ started' = {} /\ drain' = "idle"
    /\ folding' = 0 /\ foldTodo' = {} /\ fin' = "idle"
    /\ UNCHANGED stored

\* NewEngine: restore takes an interrupted finalize back to decrypting and
\* rebuilds the runtime of every open election.  The runtime may fail to load.
Restart ==
    /\ ~up
    /\ proc' = "up"
    /\ \/ status' = IF status = Finalizing THEN Decrypting ELSE status
       \/ "Rollback" \in Faulty /\ status' = status
    /\ \/ rt' = IF Loadable(status) THEN "loaded" ELSE "none"
       \/ "Load" \in Faulty /\ rt' = "none"
    /\ at' = [v \in Votes |-> IF rt' = "loaded" /\ v \in Unsealed THEN RestoredAt(v) ELSE 0]
    /\ state' = IF rt' = "loaded" THEN snapshot ELSE <<>>
    /\ batchSeq' = IF rt' = "loaded" THEN Len(batches) ELSE 0
    /\ UNCHANGED <<records, tree, mu, sealing, req, todo, monitor, chain, fin>>

-----------------------------------------------------------------------------
Voter == \E r \in Reqs : SubmitReject(r) \/ SubmitCommit(r) \/ \E v \in Votes : SubmitBegin(r, v)
Seal == SealApply \/ SealRestoreFails \/ SealPersist \/ SealPersistFails \/ SealDone
Monitor == TickOpen \/ SealIfStale \/ TickEnded
Organizer ==
    \/ CreateElection \/ (\E to \in Status : PauseResume(to)) \/ EndBegin \/ EndWrite
    \/ CancelBegin \/ CancelWrite \/ CancelDone \/ \E v \in Votes : CancelVote(v)
Drain == DrainStart \/ DrainFold \/ DrainFails \/ DrainPublish
Fold ==
    \/ \E n \in 1..Len(batches) : FoldStart(n)
    \/ FoldFails \/ CommitFold \/ \E v \in Votes : FoldVote(v)
Finalize ==
    \/ KeyAccepted \/ FinalizeFails \/ FinalizeProved \/ FinalizeDone
    \/ \E v \in Votes : SettleVote(v)

Next == Voter \/ Seal \/ Monitor \/ Organizer \/ Drain \/ Fold \/ Finalize \/ Crash \/ Restart

Spec == Init /\ [][Next]_vars

\* What the code's scheduling gives: the holder of rt.mu runs on, the monitor
\* ticks, whoever waits for rt.mu gets it, a vote in the buffer ages past the
\* window, and the background goroutines run.  A write that fails now and
\* then, and a prove or fold job that does, succeed when tried for ever.  Voters, the
\* organizer and the keywarden need not act.
Fairness ==
    /\ WF_vars(SealApply) /\ SF_vars(SealPersist) /\ WF_vars(SealDone)
    /\ WF_vars(TickOpen) /\ SF_vars(SealIfStale /\ mu' = "stale") /\ SF_vars(SealIfStale)
    /\ WF_vars(EndWrite) /\ WF_vars(CancelWrite) /\ WF_vars(CancelDone)
    /\ \A v \in Votes : WF_vars(CancelVote(v)) /\ WF_vars(FoldVote(v))
    /\ WF_vars(TickEnded) /\ SF_vars(DrainStart) /\ SF_vars(DrainFold) /\ SF_vars(CommitFold)
    /\ WF_vars(DrainPublish)

FairSpec == Spec /\ Fairness

-----------------------------------------------------------------------------
(* Properties *)

StoredOK ==
    /\ status \in Status /\ results \in Seq(SUBSET Votes)
    /\ voteSeq \in [Votes -> Nat] /\ voteCounter \in Nat /\ voteSt \in [Votes -> VoteStatus]
    /\ batches \in Seq(SUBSET Votes) /\ snapshot \in Seq(SUBSET Votes)
    /\ folded \in 0..Len(batches)

RuntimeOK ==
    /\ proc \in {"up", "down"} /\ rt \in {"loaded", "none"}
    /\ at \in [Votes -> Nat] /\ state \in Seq(SUBSET Votes) /\ tree \in {"clean", "dirty"}
    /\ batchSeq \in Nat
    /\ sealing \in SUBSET Votes
    /\ req \in [Reqs -> Votes \union {0}]
    /\ todo \in SUBSET Votes
    /\ folding \in 0..Len(batches) /\ foldTodo \in SUBSET Votes

ControlOK ==
    /\ mu \in Sealers \union {"free", "endWrite", "cancelWrite", "cancelVotes"}
    /\ started \in SUBSET {"sealIfStale", "drainAndPublish"} /\ drain \in {"idle", "seal", "fold"}
    /\ fin \in {"idle", "proving", "settling"}
    /\ mu = "drain" <=> drain = "seal"
    /\ sealing # {} => mu \in Sealers
    /\ todo # {} => mu = "cancelVotes" \/ fin = "settling"

\* Every variable has its type, and the pieces of control state agree: the
\* holder of rt.mu that drains is the guarded drain, a batch is between
\* applyBatch and SealBatch only under a sealer, votes are left to mark only
\* in a cancel or a finalize.
TypeOK == StoredOK /\ RuntimeOK /\ ControlOK

\* No vote, and no vote-ID tree key, is in two batches, whatever seals fail
\* and wherever the process stops (sealLocked, unsealedVotes).
AppliedOnce ==
    \A i, j \in 1..Len(batches) : \A u \in batches[i], v \in batches[j] :
        Key[u] = Key[v] => i = j /\ u = v

\* The votes of one slot are sealed in submission order, in different
\* batches, so the last one submitted is the one counted (nextBatch,
\* unsealedVotes).
LatestWins ==
    \A i, j \in 1..Len(batches) : \A u \in batches[i], v \in batches[j] :
        Slot[u] = Slot[v] /\ voteSeq[u] < voteSeq[v] => i < j

\* The stored snapshot is the state after exactly the stored batches, and a
\* clean runtime state is that snapshot, so a seal never builds on a state
\* storage does not have (SealBatch, restoreState).
StateMatchesStorage ==
    /\ snapshot = batches
    /\ loaded /\ ~dirty => state = snapshot
    /\ loaded => batchSeq = Len(batches)

\* The stored results were computed from exactly the batches of the election,
\* all of them folded (Finalize, verifyFinalDigest).
ResultsAreTally == results # <<>> => results = batches /\ folded = Len(batches)

\* While an election is loaded, an accepted vote that is still pending is in
\* the buffer: no failed seal, status change or restart loses it.  Two failing
\* writes do, the one of a cancel (F2 of the README, CancelUpdate) and the one
\* of a refused vote's status (F4, DropStatus).
NoVoteForgotten ==
    loaded /\ mu # "cancelWrite" => \A v \in Accepted : voteSt[v] = Pending => v \in Buffered

\* Once the encrypted results are published, every accepted vote is either in
\* a folded batch or marked as error, never both (drain, SubmitVote's second
\* status check).
TallyComplete ==
    status \in {Decrypting, Finalizing, Results} =>
        \A v \in Accepted : InBatch(v, folded) <=> voteSt[v] # Error

\* A vote reads settled only when the stored results count it
\* (finalizeElection stores the results first).
SettledIsCounted ==
    \A v \in Accepted : voteSt[v] = Settled => \E i \in 1..Len(results) : v \in results[i]

\* The votes follow their election: once it shows results every one of them
\* reads settled or error, and once a cancel returned every one reads error,
\* also the ones a fold marks while the sweep runs (finalizeElection,
\* changeStatus, setVotesStatus, fold).
VotesFollow ==
    /\ status = Results => \A v \in Accepted : Final(voteSt[v])
    /\ up /\ status = Canceled /\ mu # "cancelVotes" => \A v \in Accepted : voteSt[v] = Error

\* The moves of the election status; results and canceled are final, and an
\* election that ended never accepts votes again (changeStatus, drain,
\* SubmitDecryptionKey, finalizeElection, restore).
StatusMoves ==
    [][\/ status = NoElection /\ status' = Active
       \/ status \in {Active, Paused} /\ status' \in {Active, Paused, Ended, Canceled}
       \/ status = Ended /\ status' = Decrypting
       \/ status = Decrypting /\ status' = Finalizing
       \/ status = Finalizing /\ status' \in {Decrypting, Results}]_status

\* An ended election is drained: its encrypted results are published although
\* seals and folds fail now and then (tick, drainAndPublish).
EndedDrains == status = Ended ~> status = Decrypting

\* A buffered vote does not wait for ever: it is sealed or refused, even when
\* no other vote comes to fill its batch and seals fail now and then
\* (sealIfStale, drain).
VoteSealed == \A v \in Votes : v \in Buffered ~> v \notin Buffered
=============================================================================
