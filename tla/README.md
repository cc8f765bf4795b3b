# davinci-fold in TLA+

A verification project for davinci-fold, the orchestrator of DAVINCI elections: it takes
votes, seals them into batches, has a pool of provers prove the batches and fold the proofs
into one chain per election, and publishes the tally with a final proof. The modules model
the orchestrator's own logic (packages `orchestrator`, `storage`, `workers`, `keywarden`). Cryptography,
provers and the database are external: they are modelled by how the code uses them.

## 1. The system

| Part | State it keeps | Operations | Talks to |
|---|---|---|---|
| Ingest (`orchestrator/ingest.go`) | locks of vote IDs and of voter addresses | `SubmitVote` | storage; seals under `rt.mu` |
| Sealing (`seal.go`) | `rt.pending`, `rt.state`, `rt.dirty`, `rt.batchSeq` | `nextBatch`, `applyBatch`, `sealLocked`, `restoreState`, `dropVote` | storage (one write per batch), `Scheduler.Notify` |
| Lifecycle (`lifecycle.go`, `engine.go`) | runtimes, `draining`, `finalizing` guards | create, pause, resume, end, cancel, drain, submit key, finalize, restore, monitor tick | everything |
| Fold chain (`scheduler.go`, `scatter.go`) | `foldChain` per election, drive locks | `Dispatch`/`Drain`, `foldWorker`, `sync`, `scatter`, `importBatch`, `fold`, `foldFailed` | provers, storage, pool |
| Finalize (`finalize.go`) | none of its own | decrypt, final job, `verifyFinalDigest` | provers, storage |
| Dispatch and retries (`dispatch.go`, `retry.go`) | trigger channels, backoff per task | `Notify`, `Forget`, `dispatchLoop`, `take`, `failed` | scheduler, monitor |
| Worker registration (`engine.go`, `storage/workers.go`) | stored registrations | `RegisterWorker`, `RemoveWorker`, `restoreWorkers`, `moveFoldChains` | pool, storage, `Scheduler.Notify` |
| Worker pool (`workers/worker_manager.go`) | workers, job and claim counters, failure counters, ban windows, health | `Acquire`, `Claim`, `Hold`, `Release`, `WorkerResult`, `pollHealth`, `expireBans` | provers |
| Storage (`storage/*`) | elections, votes, batches, snapshots, proofs, checkpoint, results | atomic writes; `SetVoteStatus` moves forward only | database |
| Validation (`validate.go`, `census.go`, `snarkjs.go`) | none | checks of one submission | ingest |
| Keywarden client (`keywarden/client.go`) | failed polls in a row | `SubmitDecryptionKey`, `WaitForResults`, `Results` | engine, over HTTP |
| API, service, log, audit | none that elections depend on | decoding, authentication, wiring | engine |

How they interact: HTTP handlers call the engine concurrently. Per election, `rt.mu`
serialises sealing and status changes, the drive lock serialises passes over the fold chain,
and two guards keep drain and finalize to one goroutine. Storage is shared by all of them and
is all that survives a crash. The pool is shared by the goroutines of all elections and uses
atomics and a broadcast channel instead of a lock.

What is hard here, and what makes each part correct:

- *Ingest and sealing.* Checks made before a long validation are stale when the vote is
  stored; a seal changes memory before storage and may fail or be cut off in between. Right
  means: no accepted vote is lost, none is applied twice, per voter the last one counts.
- *Lifecycle.* Organizer, monitor, drain, finalize and restart change one status. Right means:
  only the documented moves, a published tally that holds every accepted vote, results that
  belong to all the batches, and vote statuses that agree with the election's.
- *Fold chain.* The chain lives on a prover that may vanish, and is rebuilt from stored proofs
  on another. Right means: every batch is folded once and in order, the proofs needed to
  rebuild are kept, those of a stopped election are dropped, and an ended election gets there.
- *Dispatch.* A seal, the monitor, a drain, a finalize and `Forget` race for one trigger, one
  retry task and one mutex, all of which are taken down when the election finishes. Right
  means: no sealed batch without a pass to come, one goroutine on the chain, a shutdown that
  returns.
- *Finalization.* Keywardens submit and poll while answers are lost and the process stops.
  Right means: one finalize at a time, results that stay, nobody left waiting for nothing.
- *Validation.* A vote that is accepted and then fails in the guest blocks the election. Right
  means: an accepted vote is a member's, proved for itself, and comes with the member's own
  census path and no other.
- *Worker pool.* Right means: one claimed job per worker, no sleeper without a wake on its way,
  bans that are served and that end, a worker that comes back once it answers, a pool that
  agrees with the stored registrations.

`PROJECT.json` lists the hazards line by line, with the properties that cover each.

## 2. Modules

| Module | Models | Abstraction |
|---|---|---|
| `ElectionTypes` | statuses of elections and votes, their allowed moves | – |
| `Election` | one election: ingest, sealing, lifecycle, folds as counted steps, finalize, crash and restart | a state tree is the sequence of batches applied to it, a batch the set of its votes; a vote ID is a number |
| `Sealing` | the loops of `nextBatch` and `applyBatch`, step by step | a tree is the set of its vote-ID keys |
| `FoldChain` | one election's fold chain: passes, sync, scatter, import, fold, escalation | a proof is the worker that made it, a fold proof the sequence of batches it holds, a job ID what the job holds |
| `WorkerClaims` | the claims on workers, one step per atomic operation | a worker object is (address, number of its registration) |
| `BallotBox` | what an election promises its voters, without batches, folds, buffers or crashes | a tally is the set of votes it counts |
| `ElectionRefinement` | the mapping under which `Election` implements `BallotBox` | – |
| `Dispatch` | trigger and dispatch loop, monitor and backoff, drain, finalize and drive lock of one election, `Stop` and restart | a pass is the number of batches it brings onto the chain, or a failure; a delay is "later" or "due" |
| `Finalization` | concurrent key submissions, the finalize in the background, the polling keywardens | key, ciphertext and proof are left out |
| `WorkerBans` | failure counter, ban window and health of one worker, one step per atomic store | time is what is left of the window |
| `WorkerRegistry` | `WorkerBans` with the worker registered and removed, stored and restored | a worker registered again is the same counters at their start; one that is put back after it left has any |
| `Validation` | the checks of one submitted vote, in order | a hash is the pair or tuple it hashes, a proof the statement it proves, a signature its signer and message; bit fields keep their place, with small widths |
| `ElectionProof` | theorems about `Election`, and that it implements `BallotBox` | – |
| `SealingProof`, `FoldChainProof`, `DispatchProof`, `FinalizationProof`, `WorkerClaimsProof`, `WorkerRegistryProof`, `ValidationProof` | theorems about the module of that name | – |
| `MC…` | instances for TLC | – |

`Sealing` justifies the two set definitions that `Election` uses for a whole seal
(`NextBatch`, `Refused`): `SplitsFirstOfSlot` and `RefusesCollisions` state that the loops
compute those sets. `FoldChain` opens what `Election` sees as `FoldStart`, `CommitFold` and
`FoldVote`; `WorkerClaims` and `WorkerBans` open what `FoldChain` sees as an acquirable or
usable worker; `Dispatch` opens what `Election` and `FoldChain` take as a fair pass, and
`Finalization` what `Election` takes as the one step `KeyAccepted`. `Validation` opens
`SubmitReject`. `WorkerRegistry` extends `WorkerBans`: its next-state relation composes the
steps of the ticker and of job results with those of the admins' requests.

### The promise: BallotBox and ElectionRefinement

`BallotBox` has five variables: the phase of the election, the turn each vote was cast in, the
votes that do not count, the votes behind the published ciphertext, the votes of the tally.
Votes are cast while it is open; a vote is refused only if another one with its key stays;
`Publish` puts exactly the last valid vote of every slot into the box; `Announce` needs the
tally to be that box. The mapping reads what `Election` has stored and nothing else: the
sequence numbers of the vote log, the vote statuses, the batches that are folded and the stored
results (`CountedIn`: a ballot stays in its slot until a later batch has a vote of the slot).
So a crash is a stuttering step, and a restart that would change what a voter was promised
would be a violation. `PromiseKept` is checked and proved without the two lossy writes
(F2, F4), which break it. In `Election` the number of folded batches never goes back: starting the chain again
from genesis needs a fold proof that is missing from storage, which only elections of an
earlier version have (`FoldChain`, constant `Legacy`).

### Election: state and actions

Persisted variables: `status`, `results`, `voteSeq`, `voteCounter`, `voteSt`, `batches`,
`snapshot`, `folded`. The others are memory and are lost by `Crash`. `mu` says what the
holder of `rt.mu` is doing, so code that holds the lock over several writes is several steps
and everything that needs the lock waits.

| Code | Actions |
|---|---|
| `CreateElection` | `CreateElection` |
| `SubmitVote` | `SubmitBegin` (status, both locks, replay check), `SubmitReject` (validation, or the second status check), `SubmitCommit` (`AddVote`, buffer, `sealFullLocked` begins) |
| `sealLocked` and its callers | `SealApply` (restore if dirty, batch, refusals), `SealPersist` (`SealBatch`), `SealPersistFails`, `SealRestoreFails`, `SealDone` |
| `tick`, `sealIfStale` | `TickOpen`, `SealIfStale`, `TickEnded` |
| `SetStatus`, `changeStatus` | `PauseResume`, `EndBegin`, `EndWrite`, `CancelBegin`, `CancelWrite`, `CancelVote`, `CancelDone` |
| `drainAndPublish`, `drain` | `DrainStart`, `DrainFold`, `DrainFails`, `DrainPublish` |
| `fold` | `FoldStart`, `FoldFails`, `CommitFold`, `FoldVote` |
| `SubmitDecryptionKey`, `finalizeElection` | `KeyAccepted`, `FinalizeProved`, `FinalizeFails`, `SettleVote`, `FinalizeDone` |
| `NewEngine`, `restore` | `Restart` |

`Faulty` names the reads and writes that may fail. Two of them lose a vote from the buffer
(`CancelUpdate`, finding F2; `DropStatus`, note F4): the properties about lost votes are
checked by `election` and proved without those two; `election_live` has both.

### FoldChain: state and actions

Persisted: `batches` (the `BatchInput` records), `bproof`, `fproof`, `pinned`, `head`. The
pass keeps its own copies of the batch records (`pass.copies`), as `advance` does; `sync`
reads fresh ones. One pass is `Dispatch`, `foldWorker`, `SyncHead`, `SyncBatch`, `GatherStep`,
`Scatter`, `Gathered`, then `Bootstrap`, `Learn`, `FoldRuns` or `FoldFails`, `CommitFold`, and
`Waited` for the proves still running. Each prove is a task of its own: `TaskReuse`,
`TaskSubmit`, `TaskProved`, `TaskCheck`, `TaskStore`, `TaskRecheck`. `BadProvers` make proofs
that a fold job rejects. `election` is `clean` once `deleteProofs` ran, and `left` when a task
stored its proof after that and then failed to delete it again, which the code logs and leaves
to the next start; `dropBatchProofs` resets batches one by one, each write of which may fail.

The writes of `storage` are operators of the code's names (`SetBatchInput`, `SetBatchProof`,
`ResetBatch`, `SetFoldCheckpoint`, `DeleteProofs`; `AddVote` in `Election`), each one transaction;
the actions use them where the code calls them.

### Dispatch: state and actions

Persisted: `status`, `sealed`, `gathered`. Memory: the dispatcher with its one-slot trigger
(`disp`), the retry tasks, the fold chain and mutex in the scheduler's maps, and the three
goroutines that drive the chain, each with the mutex it got, which need not be the one in the
map any more. `note` stands for what the holder of `rt.mu` has still to do between a write and
`Notify` or `Forget`.

| Code | Actions |
|---|---|
| `sealLocked` | `Seal` (`SealBatch`), `SealNotify` |
| `changeStatus` | `End`, `Cancel`, `CancelForget` |
| `tick`, `retryDispatch` | `TickRead`, `TickRetry`, `TickNotify`, `TickDrain`; `Elapse` is the delay |
| `moveFoldChains` | `MoveFoldChains` |
| `drive`, `Finalize` | `GetMutex`, `Enter`, `Load`, `AdvanceOK`, `AdvanceFails` |
| `dispatchLoop` | `LoopWake`, `LoopStop`, `LoopJudge`, `LoopRecord`, `LoopForget`, `LoopExit` |
| `drainAndPublish`, `drain` | `DrainStart`, `DrainSealed`, `DrainPublish`, `DrainFails` |
| `SubmitDecryptionKey`, `finalizeElection` | `SubmitDecryptionKey`, `FinalizeWrite`, `FinalizeForget` |
| `Stop`, `NewEngine` | `Stop`, `Stopped`, `Crash`, `Restart` |

### Finalization: state and actions

Each keywarden has a request in the engine (`handler`), the finalize it started (`fin`) and its
own client (`client`). `CheckStatus`, `TakeGuard`, `StoreFinalizing`, `Launch` are the steps of
`SubmitDecryptionKey`, with `StoreFails` between; `Proved` or `ProveFails`, `Release`,
`FinalWrite` those of `finalizeElection`; `Post`, `Poll`, `PollFails`, `Fetch`, `GiveUp` and
`AnswerLost` those of the client. A client that gave up may submit again. A status write after
the finalize that fails is not tried again by the code; the goroutine then reads `lost`.

### Validation: state and actions

One action per check, in the code's order: `CheckVoteID`, `CheckBallot`, `VerifyCensusProof`,
`CheckPublicInputs`, `CheckSignature`, `VerifyProof`. What a check reads of the submission is
chosen when it is read, from sets that hold everything the earlier checks let through:
leaves that are inner nodes of the tree, paths that are too long or too short, path bits above
the path, values that do not parse, proof points off the curve or outside the subgroup, proofs and
signatures made for another vote. `GenerateProof` is what the census gives a member (the
library's, external): siblings where the node has a neighbour, one path bit for each.
`AcceptedPathIsMembers` compares the walk of the checks with it, which is written from the other
end: it goes by the places of the nodes and does not hash. The batch guest is external, and nothing
is claimed of it.

### WorkerClaims, WorkerBans and WorkerRegistry

`AcquireScan` and `AcquireSwap` are the load and the compare-and-swap of `Acquire`;
`ClaimFreed`, `ClaimCheck`, `ClaimTry`, `ClaimWoken` are the steps of `Claim`; `Release` and
`ReleaseWake` the decrement and the broadcast; `ClaimCanceled` is a claim whose context is over.
`freed` are the goroutines that hold a channel no wake has closed.

The ticker of `WorkerBans` is one goroutine and `tick` its place: a poll (`PollAnswered` or
`PollMissed`, then the count), `ListBanned`, `ExpireBan`, `ResetWindow`. Every atomic store is a
step, so that job results, and whoever asks which workers are usable or lost, come between any two.
In `WorkerRegistry` every request is a sequence of steps (`Register`, `AddWorkerFound` or
`AddWorkerMissing` and `AddWorkerStore`, `SetWorker` or `SetWorkerFails`; `Remove`,
`DeleteWorker` or `DeleteWorkerFails`, `RemoveWorker`), and two of them may overlap. `AddWorkerNamed` is
the second store of a worker that got its name: one that was removed meanwhile (`stale`) is back,
with whatever counters it had by then. The check and the write of `w.Name`, which the code does not
synchronise, are one step, and a worker that came with a name is one that no request names.
`ExpireOld` is `expireBans` going on with an object that has left the pool since it was listed.

## 3. Runs

| Run | Instance | Shows |
|---|---|---|
| `election` | 3 votes (an overwrite, a key collision), 2 requests, batch size 2, all faults but the two lossy ones | no vote forgotten or applied twice, last vote wins, state matches storage, tally complete, settled votes counted, the election moves as documented; `BallotBox` implemented |
| `election_live` | 3 votes, failing seals and the two lossy faults, no crash, fairness | an ended election drains, a buffered vote is sealed or refused; stored results are the tally of all batches, although a failed seal and a failed cancel may leave the live state ahead of storage; every vote final with the results, error after a cancel |
| `sealing` | every buffer up to 4 votes over 4 slots and 2 keys, sizes 2 and 4 | loops against sets; the search ends |
| `claims` | 1 address registered up to twice, 2 proves, 2 folds, a leftover job, fairness | counters exact, one claim per object, no lost wakeup, a fold is served unless another one has its worker |
| `pool` | limit 1, window 1, counters to 2, 2 admins, fairness | a ban is served; it ends; a worker that answers and does not fail recovers; pool and stored registration agree |
| `fold_chain` | 2 batches, cadence 2, 2 workers, one bad prover, the first batch folded without stored proofs, one fault of any kind | folds are prefixes, also after the start from genesis; the proofs of gathered batches kept, through the escalation of rejected folds; proofs of a stopped election dropped, but for a task's own delete that fails |
| `fold_chain_live` | 2 batches, one fault of any kind, fairness | every batch of an ended election is folded |
| `dispatch` | 2 batches, 2 faults of any kind, fairness | no batch without a pass to come, one driver, no loop left asleep, every batch gathered, `Stop` returns |
| `finalization` | 2 keywardens, 3 failed polls, 5 faults of any kind, fairness | one finalize and an open guard, results stay, a finalize ends, a failure is shown |
| `validation` | a census of 3 leaves (one voter twice), 2 address bits, 1 weight bit, paths up to 3 with a limit of 2, 1 of 2 fields | an accepted vote is a member's, proved for itself, on the member's own path |
| `cancel_write` | the smallest instance that shows it | finding F2 |
| `fold_stale_record` | 1 batch, one bad prover, a crash | finding F3 |

Why the bounds are enough for the cases that matter: three votes hold an overwrite of a vote
in the open batch, a collision inside a batch and one with an earlier batch, and a partial
last batch; two requests race for one vote and for one voter. Two workers allow the chain to
move away and back. Two batches with cadence 2 hold a full fold, a drain of one batch, a
proof made ahead of the gathering and, when the first was folded without stored proofs, a chain
that starts again below its checkpoint; the theorems of `FoldChainProof` hold for any number. In `dispatch`, two batches are one that a running pass
listed and one that it did not, and two faults are a failure and a restart, or two failures in
a row; passes, ticks and triggers are not bounded. In `finalization` five faults are more than
one round of a submission can meet. In `claims` two folds wait for one worker while two proves
and a leftover job take it. In `pool` the limit is one failure, so a worker can be under it, at it and
over it, and two requests overlap in every way two can; a window of one unit is open, just passed or
absent, and the code tells no more apart. At the bound of the counters a failure is no step, while
results, polls and ticks go on. In `validation` three leaves make a tree with a node that has no right neighbour, the tree is as
deep as the limit, and paths go one beyond it; a leaf has one bit above the address, as a field
element has. The bounds are named: `MaxFaults` (`FoldChain`, `Dispatch`, `Finalization`),
`MaxSealed` (`Dispatch`), `MaxReg` (`WorkerClaims`), `MaxFails` (`WorkerBans`). Restarts and
retries in `Election` are not bounded.

Deadlock is not checked in `election_live`, where without crashes a canceled or finished
election is the end, nor in the `fold_chain` runs, where a stopped election with its fault
budget spent has nothing left to do, nor in `dispatch`, `finalization` and `validation`, where a
finished election, a keywarden that has its results and a verdict are the end. No run uses symmetry.

Fairness, and what in the code justifies it:

- `Election`: the holder of `rt.mu` runs on and returns; the monitor ticks every second;
  `sync.Mutex` gives the lock to a waiter in the end (strong fairness of what competes for it);
  the window of a buffered vote passes. A write or a job that fails now and then succeeds
  when it is tried for ever: the code retries without limit. Voters, organizer and keywarden
  need not act, and there is no fairness on them.
- `FoldChain`: a pass and a task go on because every job and call has a timeout; the monitor
  drains an ended election again and again; a worker that was lost comes back and a ban ends
  (`BanEnds` and `WorkerRecovers` in the run `pool`).
- `WorkerClaims`: a claim runs on, a job ends. Nothing is assumed of `Acquire`, of a context's
  end, or of the order in which waiting folds win the compare-and-swap (F16).
- `WorkerRegistry`: the ticker, one goroutine, runs on and time passes. Admins and jobs need not
  act, and nothing says that polls are answered; `WorkerRecovers` says what follows once they are.
- `Dispatch`: goroutines run on, the monitor ticks, delays pass, and a stopped or crashed
  process is started again. Faults are bounded, which stands for a pass that succeeds in the
  end; nothing is assumed of organizer and keywarden.
- `Finalization`: the goroutines of the engine run on (jobs and calls have timeouts), a client
  that waits polls, `Stop` ends and the process is started again. A finalize may fail every time
  and nobody needs to submit a key.

## 4. Proofs

Every invariant and action property that a passing run checks is a theorem, for every value of
the constants, but for `AcceptedPathIsMembers` (see the end of this section). Each rests on an inductive invariant, which TLC checked on the
bounds of the module's run before it was proved.

| Theorem | Says |
|---|---|
| **`ElectionProof`** | |
| `TypeCorrect` | types, and agreement of the goroutines' control states |
| `StateMatchesStorageTheorem` | snapshot and batches agree; a clean state is the snapshot |
| `StatusMovesTheorem` | only the documented moves of the election status |
| `AppliedOnceTheorem` | no vote and no key is in two batches |
| `ResultsAreTallyTheorem` | stored results belong to all the batches, all folded |
| `NoVoteForgottenTheorem`, `LatestWinsTheorem`, `TallyCompleteTheorem` | without the two lossy faults: pending votes are buffered, per slot the last one wins, a published tally is complete |
| `SettledIsCountedTheorem` | without the two lossy faults: a vote reads settled only when the stored results count it |
| `VotesFollowTheorem` | where no sweep is cut off: votes are final with the results, in error after a cancel |
| `PromiseKeptTheorem` | without the two lossy faults: `Election` implements `BallotBox` |
| **`SealingProof`** | |
| `SplitsFirstOfSlotHolds`, `RefusesCollisionsHolds` | the loops of `nextBatch` and `applyBatch` compute the sets `Election` uses, in order, for every buffer, batch size and stored tree |
| `SealShrinks` | every step of the loops lowers `StepsLeft`, a number: a seal takes finitely many steps |
| **`FoldChainProof`** | |
| `TypeCorrect` | types, and tasks that belong to the running pass and to batches it has yet to gather |
| `FoldIsPrefixHolds` | checkpoint, chain and stored fold proof hold the first batches, each once, in order |
| `GatheredKeptHolds` | the proofs of the batches the running pass gathered are stored |
| `BatchProofsDroppedHolds` | no batch proof outlives a stopped election and its proves, unless a task failed to delete its own (then until the next start) |
| **`DispatchProof`** | |
| `OneDriverHolds`, `NoIdleLoopHolds`, `CoveredHolds` | one goroutine on the chain; no dispatcher without its loop and no loop asleep for ever; no sealed batch without a pass to come |
| `PublishedIsGathered` | a published election has all its batches on the chain |
| **`FinalizationProof`** | |
| `OneFinalizeHolds`, `FailureIsShownHolds`, `ResultsStayHolds` | one submission past the write to finalizing; a waiting keywarden is shown why a finalize failed; results stay |
| **`WorkerClaimsProof`** | |
| `CountedHolds`, `OneClaimHolds`, `NoLostWakeupHolds` | counters exact; one claimed job per worker object; no sleeper without a wake on its way |
| **`WorkerRegistryProof`** | |
| `BanServedHolds`, `RegistryAgreesHolds` | a ban is served; pool and registrations agree |
| **`ValidationProof`** | |
| `AcceptedIsMemberHolds` | an accepted vote is a census member's, with the member's weight, and its ballot proof was made for it: every census, every width of address and weight |

Assumptions. On constants, in the modules that declare them, and evaluated by TLC in their runs:
votes are finitely many positive numbers, slots and keys are functions to numbers,
`BatchSize >= 2` and the faults are known (`Election`); proves, folds and left jobs are
finitely many and a left job is none of the others (`CallersAssumption`, `WorkerClaims`); the
workers are finitely many and the cadence is positive (`FoldChain`); limits, windows and bounds are
numbers; a batch size is a positive number (`Sealing`); the census is a nonempty sequence of packed
addresses and weights of positive widths, and the ballot mode has one to `MaxFields` fields
(`Validation`). Two theorems' hypotheses name faults. `NoLossyFault` excludes the two writes that lose
a vote from the buffer (F2, F4). `NoSweepFault` excludes a crash and failing status writes in the
sweep over the votes, which the code does not run again (F7). The theorems of the other modules
assume nothing about what fails.

### Election

`StateMatchesStorage` is not inductive: it says nothing of who holds `rt.mu`, so
a step could start a seal on an unloaded runtime. `StateInv` adds, by status, who may hold the
lock and which goroutines exist (`StatusInv`), that whoever seals has a loaded runtime
(`RuntimeInv`), and that the only thing a state has on top of the stored batches is the batch
being sealed, and then it is marked dirty (`TreeInv`). `StatusMoves` follows step by step from
the same invariant.

The vote properties need more. `StampInv` ties the buffer order to the stored sequence number;
that is why a reload keeps the order. `KeyInv` says the batch being sealed has new keys;
`AppliedOnce` follows when it is stored. `QuietInv` says that after the drain has sealed,
nobody seals again: the buffer is empty, or was reloaded by a process in which nobody is about
to seal; hence the batches cannot grow under a published tally, and `ResultsAreTally` follows.
`SubmitInv`, `BufferInv` and `BatchInv` (together `VoteInv`) say that the buffer holds exactly
the accepted pending votes, the batches exactly those that left it without error, and that a
vote in a batch precedes the pending votes of its slot. The last conjunct is what makes
`LatestWins` inductive, and what a lossy fault breaks.

`SettleInv` adds to `SettledIsCounted` that a finalize that settles has stored its results; the
batches are then all folded (`TallyComplete`, `ResultsAreTally`), so what it settles is counted.
`SweepInv` says what is left to mark of a sweep is in `todo`, and that a vote reads settled
only once the results are published: a fold that marks votes meanwhile leaves final ones alone.

The refinement: `CountInv` (the counter is the size of the log, no batch is empty) gives the turn
of a cast vote; each action of `Election` is then shown to be one of `BallotBox` or to leave the
five mapped variables alone. The steps that carry weight are the seal that refuses votes (the
vote whose key collides stays, in the batch or in an earlier one), the publication (the folded
batches' last vote of a slot is the last valid vote of the log, by `VoteInv`), and the stored
results (their batches are the published ones, by `QuietInv`).

### Sealing

`SplitInv` is `SplitsFirstOfSlot` said of the part of the buffer seen so far, with the batch's
length tied to the number of first votes among them; that ties the loop's test of the length to
the cardinality in the property. `SearchInv` is the bracket of the binary search: the first `hi`
votes fail, no prefix shorter than `lo` does, and probes leave the tree as it was stored. Where
the bracket closes, its last vote is the one that collides (`Collides`). `KeptInv` says that every
refused vote collides with the stored tree or with an earlier vote that is still in the batch,
which stays true when that one is refused in turn, since it then has such a partner itself;
`DoneInv` that what is handed on has no collision. The two together give the exact set.

`SealShrinks` is the part of `Terminates` that needs no fairness: `StepsLeft` counts down through
the buffer, then through at most as many rounds as votes, each with fewer probes than votes.
That some step can be taken until the seal is done is `ENABLED`, and stays with TLC.

### FoldChain

`TypeOK` is proved with `TaskInv`: a task exists only while its pass drives the chain, and only for
a batch that the pass listed and has not gathered. `PrefixInv` makes `FoldIsPrefix` inductive: the
chain in the process starts at the checkpoint or at genesis, its pending batches follow it
without a gap, and a fold about to be committed holds all of them. `KeptInv` adds to `GatheredKept`
that the proof a task offers is the stored one (`Offered`), and that a pass which goes on after
its fold worker failed imports again before it believes any record (`Resyncs`); the second is
what the stale record of F3 would break if it were asked of batches the pass did not gather.
`DroppedInv`: in a cleaned election only a task about to look at the election again has a proof in
storage; when that task fails to delete it, the election is no longer clean but `left`. The steps are proved action by action, over frame lemmas that say which parts of the
pass, of the tasks and of storage a group of actions leaves alone.

### Dispatch

`DispatchInv` joins the properties with what the status says of who runs (`StageInv`), what a
drain has seen (`DrainInv`), an empty process when it is down (`DownInv`), that before the
election is finished every driver that locks or queues has the mutex of the map (`LockInv`),
that a wake of a finished election's loop is on its way (`WakeInv`), and that a batch a running
pass did not list has its own trigger (`PassInv`). `OneDriver` needs `LockInv` before the
election is finished and `StageInv` afterwards: whoever gets a new mutex then leaves without a pass.

### Finalization

`GuardInv`: the guard is held exactly while one submission has it. `FlightInv`: a submission past the
write to finalizing is alone and the status stays finalizing until it is through. The second is why
the guard may be given back before the last write: nobody passes the status check meanwhile.
`LostInv`, `DownInv` and `PollInv` cover the failed last write, the restart and the client.

### WorkerClaims and WorkerRegistry

The counters are compared with the cardinality of the sets of callers that run and that wait, one
lemma per way a caller moves between those sets. `WakeInv` is `NoLostWakeup` said of everybody who
holds a channel no wake has closed, also before it sleeps. `WindowInv` relates a ban window to the
time since the worker went over the limit. `AloneInv` follows a request that nobody overlapped
step by step; `OwedInv` says that without failed writes a pooled worker that is not stored has
a request that will store it or remove it.

### Validation

`ValidInv` says, for each check a vote has reached, what the checks before it established
(`StageInv`, `Established`), and that no later check changes what they read. The rest is about the
census tree. It needs induction over the levels of the tree and over the nodes of a path, which
the library's induction theorems cannot give these provers; so `Induct` is proved for sets of
numbers, from the well-ordering of the naturals (`LeastNumber`), and used with a set each time. The
same induction shows that the two recursive functions satisfy their equations (`LevelDef`,
`WalkDef`), by building a solution one argument further at a time. Then: levels shrink until one
node is left (`LevelLen`, `DepthDef`); a node is a member's leaf or the hash of two nodes of the
tree (`NodeForms`), so the children of a node of the tree are nodes of the tree (`NodesClosed`); a
walk that ends at the root is followed down, and its leaf is a node of the tree
(`WalkFromNode`); a node with a voter's address is one field element, hence a member's leaf, and
unpacking it gives back what was packed (`MemberLeaf`, `Unpack`). That an inner node is not taken
for a leaf, and that two nodes with one hash have the same children, is the ideal hash.

### What stays with TLC

Liveness under fairness, which is out of the proof system's reach: `EndedDrains`, `VoteSealed`,
`AllFolded`, `BatchGathered`, `StopReturns`, `FinalizeEnds`, `ClaimServed`, `BanEnds`,
`WorkerRecovers`, and `Terminates` of `Sealing` (but for `SealShrinks`). And `AcceptedPathIsMembers`:
its proof would need the binary digits of an index of any length, and these provers know nothing
of powers but what `PowPositive` gets from counting subsets.

## 5. Findings

With a run in which TLC finds the violation:

- **F2** (`cancel_write`, `LatestWins`). `changeStatus` empties the buffer before the cancel is
  written. If the write fails the election stays open without its pending votes; a later vote
  of the same voter is sealed first, and a restart seals the earlier one after it.
- **F3** (`fold_stale_record`, `PendingKept`). The second attempt of a pass proves again from the
  batch records that the pass listed before the first attempt dropped a rejected proof. `proveOn`
  writes that record back (`scheduler.go` 651), the dropped import with it. If the process stops
  before the new proof is stored, the restarted chain takes the batch as pending although its
  proof is not in storage, where `docs/architecture.md` says that the proofs of the batches
  proved but not folded are kept. What the code does keep are the proofs of the batches that
  the running pass gathered (`GatheredKept`, checked and proved).

Notes without a run of their own. The properties leave these cases out, at the place named:

- **F1.** A success during a ban window leaves the window in place (`worker_manager.go` 446).
  After it has passed, the next time the worker exceeds the limit the ticker finds a window in
  the past and resets the worker at once instead of banning it. `BanServed` is stated for
  windows opened for the failures there are (`leftover`).
- **F7.** A crash between the canceled status and the sweep over the votes (`lifecycle.go` 94)
  leaves votes that are never marked as error. `VotesFollow` is checked where the process
  does not crash (`election_live`).
- **F4.** `dropVote` ignores a failed status write (`seal.go` 237): the refused vote reads
  pending until a restart refuses it again (fault `DropStatus`).
- **F6.** After a restart `EncryptedResults` of an election with results fails with "not
  loaded" (`lifecycle.go` 201–208), because `restore` skips it.
- **F8.** If the status write after a finalize fails (`lifecycle.go` 277–291), the election
  stays finalizing until a restart, and if the restart's own write fails (`engine.go` 224),
  until the next one (`Lost` in `Finalization`).
- **F9.** A fold that commits after a cancel deleted the proofs leaves its fold proof until the
  next restart; `BatchProofsDropped` is about batch proofs only.
- **F10.** `AddWorker` of an address whose worker was removed makes a new object with a job
  count of zero, while a job claimed on the old object may still run on that prover
  (`worker_manager.go` 235): for a while the prover has two jobs of the process, where the
  comment at 321 says one. `OneClaim` and `Counted` hold per object.
- **F11.** `foldFailed` records only that the batches then pending were dropped
  (`scheduler.go` 859–869). A batch gathered later has a first proof; if that one is rejected,
  the last fold is reported as suspect although the batch was never proved again.
- **F12.** Each failed fold counts against the fold worker, whoever made the rejected proof.
  By the time the proofs are dropped the other provers may be banned, and `acquire`
  (`scheduler.go` 625) takes one to avoid: the batch goes back to the prover whose proof was
  rejected. This is why `AllFolded` is stated for good provers.
- **F13.** What `Forget` takes down may come back: a monitor step that read the status before
  the election finished, or a drain that fails after it, leaves a retry task in the map, and a
  goroutine that asks for the drive lock afterwards leaves a mutex or a chain there. Nothing runs
  on them (`OneDriver`, `NoIdleLoop`); they stay in memory until the process ends.
- **F14.** A registration that overlaps a removal of the same address may end stored and out of
  the pool until a restart, although both answered with success; with a failing `SetWorker` of a
  known worker it may end in the pool and not stored (`engine.go` 425–430). `RegistryAgrees`
  leaves out requests that overlap for the one, and failed writes for the other.
- **F15.** `expireBans`, `WorkerResult` and `ResetWorker` act on an address. A worker registered
  again between the listing and the ban is banned or reset for the failures of the object before
  it (`ExpireOld`), and one that succeeds in between is banned with no failures counted.
- **F16.** Claims of one worker have no order (`worker_manager.go` 354): every wake wakes all who
  wait, and whoever swaps first has the worker. Two elections whose chains are pinned to one worker
  may each fold in turn, or one of them every time; nothing in the code rules out that the other
  waits for ever. `ClaimServed` says that a waiting fold is served unless another fold has its
  worker in the meantime.

## 6. Not modelled

- Circuits, hashes, signatures and proof systems (external; ideal in `Validation`), the
  arithmetic of the parsers and the checks of an election's configuration at its creation.
- HTTP decoding, authentication and rate limits, service wiring, logging, the audit trail,
  database keys and encoding: no part in the state machine.
- `legacyBatchesFolded` and `checkBatchVK`, and the move of the chain to another worker inside
  `finalizeOn` (the same `withFoldWorker` that `FoldChain` models for the passes).
- Batch reservations: the drive lock already keeps two passes of an election apart
  (`OneDriver`), so no behaviour depends on them.
- In `SealApply` the status writes of all refused votes (`dropVote`, `seal.go` 102–109) are one step
  with the apply. In the code a crash may come between two of them; the votes not yet marked are then
  still pending, as they were before the seal. Votes that do not decode (`seal.go` 77–91) are left
  out: what is decoded there is what `SubmitVote` encoded.
- The canonical encodings that the engine keeps of what it parsed (`frHex`, `g1JSON`, `proverSig`):
  a value is taken to be what it stands for.
- The length of retry delays, timeouts and windows: a delay passes or has not passed yet.
- Several elections at once. They share the pool alone; `WorkerClaims` has the proves and folds
  of any election as its processes.

## 7. Plan

1. `Finalization` and `Election` share the step `KeyAccepted`, `Dispatch` and `FoldChain` the pass:
   shared invariants (`OneDriver` is what lets `FoldChain` run one pass at a time) could become
   refinements between the modules.
2. A code change to the lines `map` names starts with its definition here; the theorem that
   fails names the step that changed.
