----------------------------- MODULE FoldChain -----------------------------
(***************************************************************************)
(* The fold chain of one election, as orchestrator.Scheduler drives it:    *)
(* sealed batches are proved in parallel by the pool (scatter), each proof *)
(* is stored and imported in order onto the election's pinned fold worker  *)
(* (gather), and the imported batches are folded there.  Workers fail, are *)
(* lost and forget their jobs; the chain then moves to another worker from *)
(* the proofs in storage.  The process may crash between any two writes.   *)
(*                                                                         *)
(* A batch is its sequence number (from 1), a proof of it the worker that  *)
(* made it, and a fold proof the sequence of batches it folds.  A job's    *)
(* identifier stands for what the job holds, so a second import of the     *)
(* same proof is the same job.  The program keys are those of a pinned     *)
(* circuit release; a proof may still be read as another circuit's.        *)
(***************************************************************************)
EXTENDS Naturals, Sequences, FiniteSets, FiniteSetsExt

CONSTANTS
    Workers,       \* addresses of the pool's workers
    None,          \* the empty string of the Go records
    MaxBatches,    \* batches the election seals
    FoldEvery,     \* the fold cadence
    BadProvers,    \* workers whose batch proofs the aggregator rejects
    Legacy,        \* batches folded by a version that stored no proofs
    Faulty,        \* what may fail
    MaxFaults      \* how often, in all

\* What may fail: a worker leaves or is lost, a worker forgets its jobs, a
\* job fails, a call to a worker fails, a proof is read as another circuit's,
\* a storage write fails, the process crashes.
Faults == {"Worker", "Wipe", "Job", "Call", "Circuit", "Store", "Crash"}

\* Prove jobs tried for a batch in one task.
maxJobAttempts == 3
\* Fold jobs that may fail on a head before the batches are proved again.
maxFoldFailures == 3
\* WorkerBanRules: one more failure in a row bans a worker.
FailuresToGetBanned == 3

ASSUME WorkersAssumption == None \notin Workers /\ IsFiniteSet(Workers)
ASSUME BatchesAssumption == MaxBatches \in Nat /\ FoldEvery \in Nat \ {0}
ASSUME BadAssumption == BadProvers \subseteq Workers
ASSUME LegacyAssumption == Legacy \in 0..MaxBatches
ASSUME BudgetAssumption == Faulty \subseteq Faults /\ MaxFaults \in Nat

VARIABLES
    \* Persisted by storage.Storage.
    batches,   \* BatchInput by sequence number
    bproof,    \* the stored proof.bin of a batch, None if there is none
    fproof,    \* the stored proof.bin of the last fold, <<>> if there is none
    pinned,    \* Election.FoldWorker
    head,      \* the FoldCheckpoint
    election,  \* open, ended, stopped (canceled or results), clean: its proofs deleted,
               \* or left: all but one that was stored late and could not be deleted
    \* The pool and the provers' own job stores.
    pool,      \* a worker answers (ok), misses its health polls (away) or was removed (gone)
    strikes,   \* a worker's consecutive failures (4 stands for more, too)
    jobs,      \* the jobs a worker holds
    \* The scheduler in the process.
    fc,        \* foldChain
    pc,        \* what the holder of the drive lock does
    pass,      \* the locals of the running pass (advance and withFoldWorker)
    task,      \* scatter.tasks: the proof of a batch being made
    faults     \* faults so far

stored  == <<batches, bproof, fproof, pinned, head>>
workers == <<pool, strikes>>
provers == <<workers, jobs>>
vars    == <<stored, election, provers, fc, pc, pass, task, faults>>

-----------------------------------------------------------------------------
Batches == 1..MaxBatches
Places  == Workers \cup {None}

\* The first n batches in order: what a fold of n batches must hold.
Prefix(n) == [i \in 1..n |-> i]

\* A BatchInput: the worker of its prove job, its imported job (the maker of
\* the imported proof) and the worker that job is on.
Fresh == [worker |-> None, imported |-> None, on |-> None]
Inputs == [worker : Places, imported : Places, on : Places]

\* A FoldCheckpoint: whether the aggregator's key is known, what the last fold
\* job folds, the worker it is on and the batches folded.
Checkpoints == [aggVK : BOOLEAN, last : Seq(Batches), lastOn : Places, folded : Nat]

\* Identifiers of the jobs on a worker.
Proved(k)      == [kind |-> "prove", batch |-> k]
Imported(k, m) == [kind |-> "batch", batch |-> k, maker |-> m]
Folded(c)      == [kind |-> "fold", holds |-> c]

NoTask  == [st |-> "none", w |-> None, failed |-> {}, tries |-> 0]
Running == {"reuse", "acquire", "prove", "proved", "storing", "stored"}
Quiet   == \A k \in Batches : task[k].st \notin Running

\* Scheduler.stopped
stopped == election \in {"stopped", "clean", "left"}

\* WorkerManager: the workers LeastLoaded picks from, those in the pool that
\* answer, and the ones a pinned chain leaves.
Banned(w) == strikes[w] > FailuresToGetBanned
Usable    == {w \in Workers : pool[w] = "ok" /\ ~Banned(w)}
Reach(w)  == pool[w] = "ok"
Lost(w)   == pool[w] = "away" \/ Banned(w)

\* WorkerResult: n failures of a worker in the pool, or a success.
Failed(w, n) ==
    strikes' = IF pool[w] = "gone" THEN strikes
               ELSE [strikes EXCEPT ![w] = Min({@ + n, FailuresToGetBanned + 1})]
Succeeded(w) == strikes' = [strikes EXCEPT ![w] = 0]

Fault(f) == f \in Faulty /\ faults < MaxFaults /\ faults' = faults + 1
NoFault  == UNCHANGED faults

\* What Scheduler.chain loads from storage.
Loaded == [pin |-> pinned, synced |-> FALSE, resync |-> FALSE, aggVK |-> head.aggVK,
           last |-> head.last, lastOn |-> head.lastOn, folded |-> head.folded,
           pending |-> <<>>, failures |-> 0, reproved |-> FALSE, suspect |-> FALSE,
           avoid |-> [k \in Batches |-> {}]]

\* foldChain.next: the first batch not imported on the pin.
next == fc.folded + Len(fc.pending) + 1

\* foldChain.checkpoint
checkpoint(c) == [aggVK |-> c.aggVK, last |-> c.last, lastOn |-> c.lastOn, folded |-> c.folded]

Pending(k, bi) == [batch |-> k, worker |-> bi.worker, imported |-> bi.imported]
NoPass == [drain |-> FALSE, attempt |-> 0, copies |-> <<>>, listed |-> 0, mine |-> {},
           at |-> 1, out |-> "ok", made |-> <<>>]

-----------------------------------------------------------------------------
(* The writes of storage.Storage, each one transaction.                    *)

SetBatchInput(k, bi) == batches' = [batches EXCEPT ![k] = bi]
SetBatchProof(k, p)  == bproof' = [bproof EXCEPT ![k] = p]
DeleteBatchProof(k)  == bproof' = [bproof EXCEPT ![k] = None]

\* The batches ks are to be proved again: their records are reset and their
\* proofs dropped.
ResetBatch(ks) ==
    /\ batches' = [k \in DOMAIN batches |-> IF k \in ks THEN Fresh ELSE batches[k]]
    /\ bproof' = [k \in Batches |-> IF k \in ks THEN None ELSE bproof[k]]

SetFoldCheckpoint(c) == head' = checkpoint(c)

\* Every proof of the election is dropped, whatever batch it is of.
DeleteProofs == bproof' = [k \in Batches |-> None] /\ fproof' = <<>>

-----------------------------------------------------------------------------
Init ==
    /\ \E w \in Workers :
         /\ batches = [k \in 1..Legacy |-> [worker |-> w, imported |-> w, on |-> w]]
         /\ pinned = IF Legacy = 0 THEN None ELSE w
         /\ head = [aggVK |-> Legacy > 0, last |-> Prefix(Legacy),
                    lastOn |-> IF Legacy = 0 THEN None ELSE w, folded |-> Legacy]
         /\ jobs = [u \in Workers |->
                      IF u = w /\ Legacy > 0
                      THEN {Imported(k, w) : k \in 1..Legacy} \cup {Folded(Prefix(Legacy))}
                      ELSE {}]
    /\ bproof = [k \in Batches |-> None] /\ fproof = <<>> /\ election = "open"
    /\ pool = [w \in Workers |-> "ok"] /\ strikes = [w \in Workers |-> 0]
    /\ fc = Loaded /\ pc = "idle" /\ pass = NoPass
    /\ task = [k \in Batches |-> NoTask] /\ faults = 0

-----------------------------------------------------------------------------
(* The rest of the engine, the pool and the provers.                       *)

\* A batch is sealed (module Election).
Seal ==
    /\ election = "open" /\ Len(batches) < MaxBatches
    /\ batches' = Append(batches, Fresh)
    /\ UNCHANGED <<bproof, fproof, pinned, head, election, provers, fc, pc, pass, task, faults>>

End ==
    /\ election = "open" /\ election' = "ended"
    /\ UNCHANGED <<stored, provers, fc, pc, pass, task, faults>>

\* The election is canceled or has its results, and its proofs are deleted
\* in a later write.
Stop ==
    /\ ~stopped /\ election' = "stopped"
    /\ UNCHANGED <<stored, provers, fc, pc, pass, task, faults>>

deleteProofs ==
    /\ election = "stopped" /\ election' = "clean" /\ DeleteProofs
    /\ UNCHANGED <<batches, pinned, head, provers, fc, pc, pass, task, faults>>

WorkerLost(w, st) ==
    /\ pool[w] = "ok" /\ Fault("Worker") /\ pool' = [pool EXCEPT ![w] = st]
    /\ UNCHANGED <<stored, election, strikes, jobs, fc, pc, pass, task>>

\* A lost worker answers again; a removed one is registered again, afresh.
WorkerBack(w) ==
    /\ pool[w] # "ok" /\ pool' = [pool EXCEPT ![w] = "ok"]
    /\ IF pool[w] = "gone" THEN Succeeded(w) ELSE UNCHANGED strikes
    /\ UNCHANGED <<stored, election, jobs, fc, pc, pass, task, faults>>

\* A ban ends (module WorkerBans).
BanEnds(w) ==
    /\ Banned(w) /\ Succeeded(w)
    /\ UNCHANGED <<stored, election, pool, jobs, fc, pc, pass, task, faults>>

WorkerWiped(w) ==
    /\ jobs[w] # {} /\ Fault("Wipe") /\ jobs' = [jobs EXCEPT ![w] = {}]
    /\ UNCHANGED <<stored, election, workers, fc, pc, pass, task>>

\* The process stops and starts again; restore deletes the proofs a stop
\* right after the end of the chain left.
Crash ==
    /\ Fault("Crash")
    /\ fc' = Loaded /\ pc' = "idle" /\ pass' = NoPass /\ task' = [k \in Batches |-> NoTask]
    /\ IF stopped
       THEN election' = "clean" /\ DeleteProofs
       ELSE UNCHANGED <<election, bproof, fproof>>
    /\ strikes' = [w \in Workers |-> 0] /\ UNCHANGED <<batches, pinned, head, pool, jobs>>

-----------------------------------------------------------------------------
(* drive, advance and withFoldWorker: one pass.                            *)

\* A pass lists the batches once, for both its attempts.
Dispatch(drain) ==
    /\ pc = "idle" /\ ~stopped /\ batches # <<>>
    /\ drain => election = "ended"
    /\ pass' = [NoPass EXCEPT !.drain = drain, !.attempt = 1, !.copies = batches,
                              !.listed = Len(batches)]
    /\ pc' = "worker"
    /\ UNCHANGED <<stored, election, provers, fc, task, faults>>

\* foldWorker keeps the pin, moves it to a usable worker and persists it, or
\* keeps a pin that failed when no other worker is left.
foldWorker ==
    /\ pc = "worker"
    /\ LET cur  == fc.pin \in Workers /\ pool[fc.pin] # "gone"
           keep == cur /\ ~fc.resync /\ ~Lost(fc.pin)
           others == Usable \ {fc.pin}
           last  == cur /\ ~Banned(fc.pin)
           moved == [fc EXCEPT !.synced = FALSE]
       IN \/ /\ keep
             /\ pc' = IF fc.synced THEN "gather" ELSE "head"
             /\ UNCHANGED <<pinned, fc, faults>>
          \/ /\ ~keep
             /\ \E w \in others :
                  \/ /\ pinned' = w /\ fc' = [moved EXCEPT !.pin = w] /\ pc' = "head" /\ NoFault
                  \/ Fault("Store") /\ fc' = moved /\ pc' = "idle" /\ UNCHANGED pinned
          \/ /\ ~keep /\ others = {} /\ last
             /\ fc' = moved /\ pc' = "head" /\ UNCHANGED <<pinned, faults>>
          \/ /\ ~keep /\ others = {} /\ ~last
             /\ pc' = "idle" /\ UNCHANGED <<pinned, fc, faults>>
    /\ UNCHANGED <<batches, bproof, fproof, head, election, provers, pass, task>>

\* The op of a pass returns: with nil, with the fold worker's failure, or
\* with another error.  The proves still running are waited for.
Return(out) == pc' = "wait" /\ pass' = [pass EXCEPT !.out = out]

\* Mutant: a chain that moves back is not imported again.
MutResync(c, out) == c
\* withFoldWorker: a fold worker that failed is synced again from storage.
Resync(c, out) == [c EXCEPT !.resync = @ \/ out = "worker"]

\* After a fold worker's failure the chain is imported again wherever it goes,
\* and op runs once more over the batches the pass listed.
Waited ==
    /\ pc = "wait" /\ Quiet
    /\ task' = [k \in Batches |-> NoTask]
    /\ fc' = Resync(fc, pass.out)
    /\ IF pass.out = "worker" /\ pass.attempt = 1
       THEN /\ pc' = "worker"
            /\ pass' = [pass EXCEPT !.attempt = 2, !.at = 1, !.out = "ok",
                                    !.copies = SubSeq(@, 1, pass.listed)]
       ELSE pc' = "idle" /\ pass' = NoPass
    /\ UNCHANGED <<stored, election, provers, faults>>

\* call fails on every attempt: errFoldWorker.
CallFails == ((~Reach(fc.pin) /\ NoFault) \/ Fault("Call")) /\ Failed(fc.pin, maxJobAttempts)

-----------------------------------------------------------------------------
(* sync: the chain is put on its fold worker.                              *)

\* Mutant: the count of batches is kept.
MutGenesis(c) == [c EXCEPT !.last = <<>>, !.lastOn = None]
\* The chain starts again.
Genesis(c) == [c EXCEPT !.last = <<>>, !.lastOn = None, !.folded = 0]

\* The fold worker does not hold the last fold, or failed.
HeadMissing == fc.last # <<>> /\ (fc.resync \/ fc.lastOn # fc.pin)

\* The last fold is imported if the worker does not hold it.  Without its
\* proof the chain starts again from genesis.
SyncHead ==
    /\ pc = "head"
    /\ \/ /\ ~HeadMissing /\ pc' = "sync" /\ fc' = [fc EXCEPT !.pending = <<>>]
          /\ UNCHANGED <<head, jobs, strikes, pass, faults>>
       \/ /\ HeadMissing /\ fproof = <<>>
          /\ fc' = [Genesis(fc) EXCEPT !.pending = <<>>]
          /\ pc' = "sync" /\ UNCHANGED <<head, jobs, strikes, pass, faults>>
       \/ /\ HeadMissing /\ fproof # <<>> /\ Reach(fc.pin) /\ UNCHANGED strikes
          /\ jobs' = [jobs EXCEPT ![fc.pin] = @ \cup {Folded(fproof)}]
          /\ LET c == [fc EXCEPT !.last = fproof, !.lastOn = fc.pin]
             IN \/ /\ SetFoldCheckpoint(c) /\ fc' = [c EXCEPT !.pending = <<>>]
                   /\ pc' = "sync" /\ UNCHANGED pass /\ NoFault
                \/ Fault("Store") /\ fc' = c /\ Return("error") /\ UNCHANGED head
       \/ /\ HeadMissing /\ fproof # <<>> /\ CallFails
          /\ Return("worker") /\ UNCHANGED <<head, jobs, fc>>
    /\ UNCHANGED <<batches, bproof, fproof, pinned, election, pool, task>>

\* dropBatchProof: the makers of the dropped proofs ps are avoided from now on.
Avoiding(ps) ==
    [k \in Batches |-> fc.avoid[k] \cup {p.worker : p \in {q \in ps : q.batch = k /\ q.worker # None}}]

\* Its writes, one by one; each may fail, which is only logged.
dropBatchProofs(ks) ==
    \E done \in SUBSET ks : (done = ks \/ "Store" \in Faulty) /\ ResetBatch(done)

\* importBatch of batch k from the record bi and the proof p, and what the
\* caller goes on with.
Import(k, bi, p, goOn) ==
    LET done == [bi EXCEPT !.imported = p, !.on = fc.pin]
    IN \/ /\ Reach(fc.pin) /\ UNCHANGED strikes
          /\ jobs' = [jobs EXCEPT ![fc.pin] = @ \cup {Imported(k, p)}]
          /\ \/ /\ SetBatchInput(k, done)
                /\ fc' = [fc EXCEPT !.pending = Append(@, Pending(k, done))]
                /\ goOn /\ NoFault /\ UNCHANGED bproof
             \/ Fault("Store") /\ Return("error") /\ UNCHANGED <<batches, bproof, fc>>
             \/ /\ Fault("Circuit") /\ Return("error") /\ dropBatchProofs({k})
                /\ fc' = [fc EXCEPT !.avoid = Avoiding({Pending(k, bi)})]
       \/ CallFails /\ Return("worker") /\ UNCHANGED <<batches, bproof, jobs, fc>>

\* sync: the batch's imported job is on the fold worker.
Holds(bi) == ~fc.resync /\ bi.imported # None /\ bi.on = fc.pin

\* One batch of sync's loop, which ends at the first batch that is not proved.
SyncBatch ==
    /\ pc = "sync"
    /\ LET more == next <= Len(batches)
       IN \/ /\ more /\ Holds(batches[next])
             /\ fc' = [fc EXCEPT !.pending = Append(@, Pending(next, batches[next]))]
             /\ UNCHANGED <<batches, bproof, jobs, strikes, pc, pass, faults>>
          \/ /\ more /\ ~Holds(batches[next]) /\ bproof[next] # None
             /\ Import(next, batches[next], bproof[next], UNCHANGED <<pc, pass>>)
          \/ /\ more => ~Holds(batches[next]) /\ bproof[next] = None
             /\ fc' = [fc EXCEPT !.synced = TRUE, !.resync = FALSE] /\ pc' = "gather"
             /\ pass' = [pass EXCEPT !.mine = {}]
             /\ UNCHANGED <<batches, bproof, jobs, strikes, faults>>
    /\ UNCHANGED <<fproof, pinned, head, election, pool, task>>

-----------------------------------------------------------------------------
(* advance: the batches are gathered in order and folded on the cadence.   *)

size == Len(pass.copies)
due  == Len(fc.pending) >= FoldEvery

\* The pass turns to a fold: before the next batch, or at its end.
GatherFolds ==
    /\ pc = "gather" /\ (due \/ (pass.at > size /\ pass.drain)) /\ pc' = "fold"

Gather ==
    \/ GatherFolds /\ UNCHANGED pass
    \/ /\ pc = "gather" /\ ~due /\ pass.at <= size /\ pass.at < next
       /\ pass' = [pass EXCEPT !.at = @ + 1] /\ UNCHANGED pc
    \/ pc = "gather" /\ ~due /\ pass.at <= size /\ pass.at >= next /\ stopped /\ Return("ok")
    \/ pc = "gather" /\ ~due /\ pass.at > size /\ ~pass.drain /\ Return("ok")

GatherStep == Gather /\ UNCHANGED <<stored, election, provers, fc, task, faults>>

\* The pass waits for the proof of the batch at its position.
Wanting == pc = "gather" /\ ~due /\ pass.at <= size /\ pass.at = next

\* The prove job a previous run left for batch k may be waited for.
reusable(k, bi) == bi.worker # None /\ bi.worker \notin fc.avoid[k] /\ pool[bi.worker] # "gone"

\* scatter.newTask of batch k, whose record in the pass is bi: its stored
\* proof, the prove job a previous run left, or a new prove.
newTask(k, bi) ==
    LET ready == bproof[k] # None
        left  == reusable(k, bi)
    IN [st |-> IF ready THEN "done" ELSE IF left THEN "reuse" ELSE "acquire",
        w |-> IF ready THEN bproof[k] ELSE IF left THEN bi.worker ELSE None,
        failed |-> fc.avoid[k], tries |-> 0]

Available == Cardinality(Usable)

\* scatter.start: as many batches as there are usable workers, and up to the
\* last one with a left prove job.
Window(copies) ==
    LET most == Max({Available, 1})
        end  == Min({pass.at + most - 1, Len(copies)})
        left == {j \in end + 1 .. Len(copies) : task[j].st = "none" /\ copies[j].worker # None}
    IN pass.at .. Max(left \cup {end})

\* scatter.topUp: the batches sealed since the pass listed copies.
topUp(copies) == copies \o SubSeq(batches, Len(copies) + 1, Len(batches))

\* scatter.topUp and start, at the first look and at every poll.
Scatter ==
    /\ Wanting /\ ~stopped
    /\ LET copies == topUp(pass.copies)
           new    == {k \in Window(copies) : task[k].st = "none"}
       IN /\ new # {} \/ copies # pass.copies
          /\ pass' = [pass EXCEPT !.copies = copies]
          /\ task' = [k \in Batches |-> IF k \in new THEN newTask(k, copies[k]) ELSE task[k]]
    /\ UNCHANGED <<stored, election, provers, fc, pc, faults>>

\* The proof at the pass's position is there: it is imported.
Gathered ==
    /\ Wanting
    /\ LET k == pass.at
           t == task[k]
           bi == pass.copies[k]
       IN \/ /\ t.st = "done" /\ ~stopped
             /\ Import(k, bi, t.w,
                       /\ pass' = [pass EXCEPT !.at = @ + 1, !.mine = @ \cup {k},
                                               !.copies[k].imported = t.w, !.copies[k].on = fc.pin]
                       /\ UNCHANGED pc)
          \/ /\ t.st \in {"done", "failed"} /\ (stopped \/ t.st = "failed")
             /\ Return(IF stopped THEN "ok" ELSE "error")
             /\ UNCHANGED <<batches, bproof, jobs, strikes, fc, faults>>
    /\ task' = [task EXCEPT ![pass.at] = NoTask]
    /\ UNCHANGED <<fproof, pinned, head, election, pool>>

-----------------------------------------------------------------------------
(* batchProof: the goroutine that proves one batch.                        *)

\* waitJob of the prove job of batch k on w: it is done, or it fails, is
\* unknown to w, or w does not answer or was removed.
JobDone(k, w) == Reach(w) /\ Proved(k) \in jobs[w]
waitJob(k, w) == JobDone(k, w) /\ NoFault
waitJobFails(k, w) == (~JobDone(k, w) /\ NoFault) \/ Fault("Job")

\* reusedProof: the left job is waited for, or is gone or failed.
TaskReuse(k) ==
    /\ task[k].st = "reuse"
    /\ LET w == task[k].w
       IN \/ waitJob(k, w) /\ task' = [task EXCEPT ![k].st = "proved"]
          \/ waitJobFails(k, w) /\ task' = [task EXCEPT ![k].st = "acquire", ![k].w = None]
    /\ UNCHANGED <<stored, election, provers, fc, pc, pass>>

\* acquire: a usable worker not in failed, or else any usable one.
Acquirable(k) == IF Usable \subseteq task[k].failed THEN Usable ELSE Usable \ task[k].failed

\* The task t after a prove that failed on worker w.
NextTry(t, w) ==
    [st |-> IF t.tries + 1 < maxJobAttempts THEN "acquire" ELSE "failed",
     w |-> None, failed |-> t.failed \cup {w}, tries |-> t.tries + 1]

\* SubmitProve; the job is persisted in the pass's copy of the record.
TaskSubmit(k) ==
    /\ task[k].st = "acquire" /\ ~stopped
    /\ \E w \in Acquirable(k) :
         /\ jobs' = [jobs EXCEPT ![w] = @ \cup {Proved(k)}]
         /\ task' = [task EXCEPT ![k].st = "prove", ![k].w = w]
         /\ pass' = [pass EXCEPT !.copies[k].worker = w]
         /\ \/ SetBatchInput(k, [pass.copies[k] EXCEPT !.worker = w]) /\ NoFault
            \/ Fault("Store") /\ UNCHANGED batches
    /\ UNCHANGED <<bproof, fproof, pinned, head, election, workers, fc, pc>>

\* SubmitProve fails, and nothing is persisted.
TaskSubmitFails(k) ==
    /\ task[k].st = "acquire" /\ ~stopped
    /\ \E w \in Acquirable(k) : Failed(w, 1) /\ task' = [task EXCEPT ![k] = NextTry(@, w)]
    /\ Fault("Call")
    /\ UNCHANGED <<stored, election, pool, jobs, fc, pc, pass>>

\* No usable worker, or the election is stopped.
TaskRefused(k) ==
    /\ task[k].st = "acquire" /\ (stopped \/ Usable = {})
    /\ task' = [task EXCEPT ![k].st = "failed"]
    /\ UNCHANGED <<stored, election, provers, fc, pc, pass, faults>>

\* The prove job ends, its proof fetched, or fails and moves on.
TaskProved(k) ==
    /\ task[k].st = "prove"
    /\ LET w == task[k].w
       IN \/ waitJob(k, w) /\ Succeeded(w) /\ task' = [task EXCEPT ![k].st = "proved"]
          \/ waitJobFails(k, w) /\ Failed(w, 1) /\ task' = [task EXCEPT ![k] = NextTry(@, w)]
    /\ UNCHANGED <<stored, election, pool, jobs, fc, pc, pass>>

\* The election is looked at before the proof is stored.
TaskCheck(k) ==
    /\ task[k].st = "proved"
    /\ task' = [task EXCEPT ![k].st = IF stopped THEN "done" ELSE "storing"]
    /\ UNCHANGED <<stored, election, provers, fc, pc, pass, faults>>

\* Mutant: a proof that could not be stored is used all the same.
MutTaskStore(k) ==
    /\ task[k].st = "storing" /\ task' = [task EXCEPT ![k].st = "stored"]
    /\ (SetBatchProof(k, task[k].w) /\ NoFault) \/ (Fault("Store") /\ UNCHANGED bproof)
    /\ UNCHANGED <<batches, fproof, pinned, head, election, provers, fc, pc, pass>>
\* The proof is stored; without it the batch is not gathered.
TaskStore(k) ==
    /\ task[k].st = "storing"
    /\ \/ /\ SetBatchProof(k, task[k].w) /\ NoFault
          /\ task' = [task EXCEPT ![k].st = "stored"]
       \/ Fault("Store") /\ task' = [task EXCEPT ![k].st = "failed"] /\ UNCHANGED bproof
    /\ UNCHANGED <<batches, fproof, pinned, head, election, provers, fc, pc, pass>>

\* Mutant: the election is not looked at again.
MutTaskRecheck(k) ==
    /\ task[k].st = "stored" /\ task' = [task EXCEPT ![k].st = "done"]
    /\ UNCHANGED <<stored, election, provers, fc, pc, pass, faults>>
\* A proof stored as the election stopped is deleted again; if that fails it is
\* left to restore.
TaskRecheck(k) ==
    /\ task[k].st = "stored" /\ task' = [task EXCEPT ![k].st = "done"]
    /\ \/ ~stopped /\ UNCHANGED <<bproof, election, faults>>
       \/ stopped /\ DeleteBatchProof(k) /\ UNCHANGED <<election, faults>>
       \/ /\ stopped /\ Fault("Store") /\ UNCHANGED bproof
          /\ election' = IF election = "clean" THEN "left" ELSE election
    /\ UNCHANGED <<batches, fproof, pinned, head, provers, fc, pc, pass>>

Task(k) ==
    \/ TaskReuse(k) \/ TaskSubmit(k) \/ TaskSubmitFails(k) \/ TaskRefused(k)
    \/ TaskProved(k) \/ TaskCheck(k) \/ TaskStore(k) \/ TaskRecheck(k)

-----------------------------------------------------------------------------
(* fold                                                                    *)

\* The jobs a fold of the batches ps refers to on the fold worker.
Refs(ps) == {Imported(ps[i].batch, ps[i].imported) : i \in 1..Len(ps)}
              \cup (IF fc.last = <<>> THEN {} ELSE {Folded(fc.last)})
Rejected(ps) == \E i \in 1..Len(ps) : ps[i].imported \in BadProvers

\* The fold goes ahead; the election is looked at before the bootstrap only.
Folding == (pc = "fold" /\ fc.pending # <<>> /\ ~stopped) \/ pc = "bound"

\* Nothing to fold, or nothing may be folded any more.
FoldSkip ==
    /\ pc = "fold" /\ (fc.pending = <<>> \/ stopped) /\ Return("ok")
    /\ UNCHANGED <<stored, election, provers, fc, task, faults>>

\* The bootstrap fold of the first batch completes ...
Bootstrap ==
    /\ Folding /\ ~fc.aggVK /\ Reach(fc.pin)
    /\ Refs(SubSeq(fc.pending, 1, 1)) \subseteq jobs[fc.pin] /\ ~Rejected(SubSeq(fc.pending, 1, 1))
    /\ pc' = "boot" /\ Succeeded(fc.pin)
    /\ UNCHANGED <<stored, election, pool, jobs, fc, pass, task, faults>>

\* ... and teaches the aggregator's program key.
Learn ==
    /\ pc = "boot" /\ Reach(fc.pin)
    /\ fc' = [fc EXCEPT !.aggVK = TRUE] /\ pc' = "bound"
    /\ UNCHANGED <<stored, election, provers, pass, task, faults>>

\* The fold job completes: it holds what the last fold holds and the pending
\* batches.  Its proof is fetched.
FoldRuns ==
    /\ Folding /\ fc.aggVK /\ Reach(fc.pin)
    /\ Refs(fc.pending) \subseteq jobs[fc.pin] /\ ~Rejected(fc.pending)
    /\ LET c == fc.last \o [i \in 1..Len(fc.pending) |-> fc.pending[i].batch]
       IN /\ jobs' = [jobs EXCEPT ![fc.pin] = @ \cup {Folded(c)}]
          /\ pass' = [pass EXCEPT !.made = c] /\ pc' = "commit" /\ Succeeded(fc.pin)
    /\ UNCHANGED <<stored, election, pool, fc, task, faults>>

\* The fold failures after which foldFailed escalates.
Escalates(n) == n >= maxFoldFailures

\* foldFailed, after a failure that is (rejected) or is not the job's own: the
\* third one on a head drops the pending proofs, once; the next third one
\* reports the head.  The records of the batches this pass imported are the
\* pending ones themselves, so the pass sees them reset too.
foldFailed(rejected) ==
    LET n  == fc.failures + (IF rejected THEN 1 ELSE 0)
        ps == {fc.pending[i] : i \in 1..Len(fc.pending)}
        ks == {p.batch : p \in ps}
    IN /\ pc' = "wait"
       /\ \/ /\ ~Escalates(n)
             /\ fc' = [fc EXCEPT !.failures = n] /\ pass' = [pass EXCEPT !.out = "worker"]
             /\ UNCHANGED <<batches, bproof>>
          \/ /\ Escalates(n) /\ fc.reproved
             /\ fc' = [fc EXCEPT !.failures = 0, !.suspect = TRUE]
             /\ pass' = [pass EXCEPT !.out = "worker"] /\ UNCHANGED <<batches, bproof>>
          \/ /\ Escalates(n) /\ ~fc.reproved
             /\ fc' = [fc EXCEPT !.failures = 0, !.reproved = TRUE,
                                 !.avoid = Avoiding(ps), !.pending = <<>>]
             /\ pass' = [pass EXCEPT !.out = "worker",
                           !.copies = [k \in DOMAIN @ |->
                                         IF k \in ks \cap pass.mine THEN Fresh ELSE @[k]]]
             /\ dropBatchProofs(ks)

\* runFold fails: the aggregator rejects a proof, a job the fold refers to is
\* gone, the worker does not answer, or the job flakes.
FoldFails ==
    /\ Folding
    /\ LET ps == IF fc.aggVK THEN fc.pending ELSE SubSeq(fc.pending, 1, 1)
           gone == ~(Refs(ps) \subseteq jobs[fc.pin])
       IN \/ /\ Reach(fc.pin) /\ (((Rejected(ps) \/ gone) /\ NoFault) \/ Fault("Job"))
             /\ foldFailed(TRUE)
          \/ (((gone \/ ~Reach(fc.pin)) /\ NoFault) \/ Fault("Call")) /\ foldFailed(FALSE)
    /\ Failed(fc.pin, maxJobAttempts)
    /\ UNCHANGED <<fproof, pinned, head, election, pool, jobs, task>>

\* The completed fold's program key or proof cannot be fetched, or the key is
\* another circuit's (foldVK).
FetchFails ==
    /\ pc \in {"boot", "commit"} /\ Return("worker")
    /\ CallFails \/ (Fault("Circuit") /\ Failed(fc.pin, 1))
    /\ UNCHANGED <<stored, election, pool, jobs, fc, task>>

\* CommitFold stores the checkpoint and the fold's proof and deletes the folded
\* batches' proofs in one write.
CommitFold ==
    /\ pc = "commit"
    /\ LET c == [fc EXCEPT !.last = pass.made, !.lastOn = fc.pin,
                           !.folded = @ + Len(fc.pending), !.pending = <<>>,
                           !.failures = 0, !.reproved = FALSE, !.suspect = FALSE,
                           !.avoid = [k \in Batches |-> {}]]
       IN /\ head' = checkpoint(c) /\ fproof' = pass.made /\ fc' = c
          /\ bproof' = [k \in Batches |-> IF k \in fc.folded + 1 .. c.folded THEN None ELSE bproof[k]]
    /\ IF pass.at > size THEN Return("ok") ELSE pc' = "gather" /\ UNCHANGED pass
    /\ UNCHANGED <<batches, pinned, election, provers, task, faults>>

CommitFails ==
    /\ pc = "commit" /\ Fault("Store") /\ Return("error")
    /\ UNCHANGED <<stored, election, provers, fc, task>>

-----------------------------------------------------------------------------
Env ==
    \/ Seal \/ End \/ Stop \/ deleteProofs \/ Crash
    \/ \E w \in Workers :
         \/ WorkerBack(w) \/ BanEnds(w) \/ WorkerWiped(w)
         \/ \E st \in {"away", "gone"} : WorkerLost(w, st)

Drive ==
    \/ foldWorker \/ SyncHead \/ SyncBatch \/ GatherStep \/ Scatter \/ Gathered \/ Waited
    \/ FoldSkip \/ Bootstrap \/ Learn \/ FoldRuns \/ FoldFails \/ FetchFails \/ CommitFold \/ CommitFails

Next == Env \/ Drive \/ (\E d \in BOOLEAN : Dispatch(d)) \/ (\E k \in Batches : Task(k))

Spec == Init /\ [][Next]_vars

\* A pass goes on; a task's jobs and calls end (waitJob and the HTTP client
\* time out); the monitor drains an ended election again and again, and a
\* waiting drain gets the drive lock (sync.Mutex hands it over); a worker
\* that left or was lost comes back and a ban ends.
FairSpec ==
    /\ Spec /\ WF_vars(Drive) /\ SF_vars(Dispatch(TRUE))
    /\ \A k \in Batches : WF_vars(Task(k))
    /\ \A w \in Workers : WF_vars(WorkerBack(w)) /\ WF_vars(BanEnds(w))

-----------------------------------------------------------------------------
(* Properties *)

Pendings == [batch : Batches, worker : Places, imported : Places]
Chains == [pin : Places, synced : BOOLEAN, resync : BOOLEAN, aggVK : BOOLEAN, last : Seq(Batches),
           lastOn : Places, folded : Nat, pending : Seq(Pendings),
           failures : 0..maxFoldFailures - 1, reproved : BOOLEAN, suspect : BOOLEAN,
           avoid : [Batches -> SUBSET Workers]]
Passes == [drain : BOOLEAN, attempt : {0, 1, 2}, copies : Seq(Inputs), listed : Nat,
           mine : SUBSET Batches, at : Nat, out : {"ok", "worker", "error"}, made : Seq(Batches)]
Tasks == [st : Running \cup {"none", "done", "failed"}, w : Places, failed : SUBSET Places,
          tries : Nat]

StoredOK ==
    /\ batches \in Seq(Inputs) /\ Len(batches) <= MaxBatches
    /\ bproof \in [Batches -> Places] /\ fproof \in Seq(Batches)
    /\ pinned \in Places /\ election \in {"open", "ended", "stopped", "clean", "left"}
    /\ head \in Checkpoints /\ head.folded <= Len(batches)

PoolOK ==
    /\ pool \in [Workers -> {"ok", "away", "gone"}]
    /\ strikes \in [Workers -> 0..FailuresToGetBanned + 1]

ChainOK ==
    /\ fc \in Chains /\ fc.folded + Len(fc.pending) <= Len(batches)
    /\ pc \in {"idle", "worker", "head", "sync", "gather", "fold", "boot", "bound", "commit", "wait"}
    /\ pass \in Passes /\ Len(pass.copies) <= Len(batches) /\ pass.listed <= Len(pass.copies)
    /\ task \in [Batches -> Tasks]

\* Every variable has its type; a fold failure count is reset before it gets to
\* maxFoldFailures, and neither the chain nor a pass runs past the sealed
\* batches.
TypeOK == StoredOK /\ PoolOK /\ ChainOK

\* The checkpoint counts exactly the batches its fold holds: batches are folded
\* in order, each once, however often the chain moved, was imported again,
\* failed or was loaded after a crash (fold, sync, chain).
FoldIsPrefix ==
    /\ head.last = Prefix(head.folded)
    /\ fc.last = Prefix(fc.folded)
    /\ fproof # <<>> => fproof = head.last

\* The proof of a batch that the running pass gathered is in storage until the
\* batch is folded, so the chain can be rebuilt on another worker: a proof that
\* could not be stored is not used, one that is dropped leaves the pending
\* batches too, and no prove that ends late replaces it (batchProof,
\* importBatch, foldFailed).
GatheredKept ==
    ~stopped => \A i \in 1..Len(fc.pending) :
                  fc.pending[i].batch \in pass.mine
                    => bproof[fc.pending[i].batch] = fc.pending[i].imported

\* The same of every pending batch, as docs/architecture.md has it: "davinci-fold
\* keeps the proofs it needs to rebuild them elsewhere: the last fold's and
\* those of the batches proved but not folded yet".  It fails: the second
\* attempt of a pass proves again from the records the pass listed before the
\* first one dropped a proof, and proveOn writes the dropped imported job back
\* (finding F3 of the README).
PendingKept ==
    ~stopped => \A i \in 1..Len(fc.pending) :
                  bproof[fc.pending[i].batch] = fc.pending[i].imported

\* Once the proofs of a stopped election are deleted and its proves have
\* ended, no batch proof is stored, whichever of the stop and the late proves
\* writes last; only a late proof whose own delete failed may be there, and only
\* until the next start (batchProof's second look at the election, restore).
BatchProofsDropped ==
    election = "clean" /\ Quiet => \A k \in Batches : bproof[k] = None

\* Every batch of an ended election is folded (drive, withFoldWorker and the
\* monitor's retries), whatever fails meanwhile, if every prover is good.
AllFolded == election = "ended" ~> (head.folded = Len(batches) \/ stopped)
=============================================================================
