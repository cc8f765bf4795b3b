------------------------------ MODULE Dispatch ------------------------------
(***************************************************************************)
(* What keeps the fold chain of one election moving: the trigger and the   *)
(* dispatch loop of Scheduler.Notify, the monitor's tick with the backoff  *)
(* of retries, the drain of an ended election, the finalize, and the drive *)
(* lock they take in turn.  Forget takes all of it down once the election  *)
(* is canceled or has its results.  Engine.Stop, a crash and a restart may *)
(* come at any time.                                                       *)
(*                                                                         *)
(* A pass over the chain (Scheduler.advance, module FoldChain) is the      *)
(* number of batches it brings onto the chain, or a failure.  A paused     *)
(* election is as good as an active one here.                              *)
(***************************************************************************)
EXTENDS ElectionTypes, FiniteSets

CONSTANTS
    MaxSealed,  \* batches sealed
    MaxFaults   \* failed passes, seals and writes, stops and crashes

ASSUME BoundsAssumption == MaxSealed \in Nat \ {0} /\ MaxFaults \in Nat

VARIABLES
    \* Persisted.
    status,     \* Election.Status
    sealed,     \* stored batches
    gathered,   \* batches a pass has brought onto the chain
    \* The engine's memory.
    proc,       \* the process: up, stopping (Engine.Stop runs) or down
    faults,     \* what has failed so far, stops and crashes included
    rt,         \* Engine.runtimes holds the election: "loaded" or "none"
    note,       \* under rt.mu: "seal" stored a batch and has not called Notify,
                \* "cancel" stored the status and has not called Forget, or "none"
    tick,       \* the monitor: idle, what it read of the status, or "notify"
    task,       \* retries: a task is "none" (not in the map), "later" or "due"
    started,    \* a drainAndPublish goroutine has not got to its guard: "yes" or "no"
    \* Scheduler.
    disp,       \* Scheduler.dispatchers: "none", or the trigger channel "empty" or "full"
    chain,      \* Scheduler.chains holds the election's fold chain: "kept" or "none"
    driveMu,    \* the mutex Scheduler.driveMu holds, 0 if none
    \* The goroutines that drive the chain.
    pc,         \* where each one is, "none" if it does not exist
    mutex,      \* the mutex it got from driveLock, 0 if none
    target      \* the batches its pass listed

stored == <<status, sealed, gathered>>
maps   == <<disp, chain, driveMu>>
drive  == <<mutex, target>>
vars   == <<stored, proc, faults, rt, note, tick, task, started, maps, pc, drive>>

\* The dispatch loop, the guarded drain and the guarded finalize.
Drivers == {"loop", "drain", "fin"}

\* One mutex per driver and one in the map are enough to tell them apart.
Mutexes == 1..4

\* The background tasks of retry.go that the monitor runs again.  (The third
\* one, ending an election past its end time, is part of End.)
Tasks == {"dispatch", "drain"}

\* One more thing fails.
Fault == faults < MaxFaults /\ faults' = faults + 1

up == proc = "up"
alive == proc # "down"
loaded == rt = "loaded"

\* goBackground takes a goroutine; once Stop started it refuses.
goBackground == up

\* Scheduler.finished and Scheduler.stopped
finished == status \in {Canceled, Results}

Goes(d, from, to) == pc[d] = from /\ pc' = [pc EXCEPT ![d] = to]

-----------------------------------------------------------------------------
(* Triggers and backoff *)

\* retries.due, retries.failed, retries.succeeded
due(t) == task[t] # "later"
failed(t) == task' = [task EXCEPT ![t] = "later"]
succeeded(t) == task' = [task EXCEPT ![t] = "none"]

\* retries.take holds the next run off for another delay.
take(t) == task[t] = "due" /\ task' = [task EXCEPT ![t] = "later"]

\* retries.schedule
schedule(t) == task' = [task EXCEPT ![t] = IF @ = "none" THEN "due" ELSE @]

\* retries.forget
forget == task' = [t \in Tasks |-> "none"]

\* Scheduler.Notify: a loop on first use, and a trigger; one that is there
\* already will do.
Notify ==
    IF up
    THEN /\ disp' = "full"
         /\ pc' = IF disp = "none" THEN [pc EXCEPT !["loop"] = "wait"] ELSE pc
    ELSE UNCHANGED <<disp, pc>>

\* Scheduler.forgetLocked
forgetLocked == chain' = "none" /\ driveMu' = 0

\* Mutant: the loop of a finished election is not woken.
MutForget == (IF disp # "none" THEN UNCHANGED <<chain, driveMu>> ELSE forgetLocked) /\ disp' = disp
\* Scheduler.Forget
Forget ==
    IF disp # "none"
    THEN disp' = "full" /\ UNCHANGED <<chain, driveMu>>
    ELSE forgetLocked /\ disp' = disp

-----------------------------------------------------------------------------
Init ==
    /\ status = Active /\ sealed = 0 /\ gathered = 0
    /\ proc = "up" /\ faults = 0 /\ rt = "loaded" /\ note = "none" /\ tick = "idle"
    /\ task = [t \in Tasks |-> "none"] /\ started = "no"
    /\ disp = "none" /\ chain = "none" /\ driveMu = 0
    /\ pc = [d \in Drivers |-> "none"]
    /\ mutex = [d \in Drivers |-> 0] /\ target = [d \in Drivers |-> 0]

\* SealBatch has stored a batch, for SubmitVote or an end; for sealIfStale, which
\* the tick calls for what it read as open; or for the drain.  The callers of
\* sealLocked hold rt.mu.
Seal ==
    /\ alive /\ loaded /\ note = "none" /\ sealed < MaxSealed
    /\ status = Active \/ (status = Ended /\ (tick = Active \/ pc["drain"] = "seal"))
    /\ sealed' = sealed + 1 /\ note' = "seal"
    /\ UNCHANGED <<status, gathered, proc, faults, rt, tick, task, started, maps, pc, drive>>

\* The end of sealLocked.
SealNotify ==
    /\ alive /\ note = "seal" /\ note' = "none"
    /\ Notify
    /\ UNCHANGED <<stored, proc, faults, rt, tick, task, started, chain, driveMu, drive>>

\* changeStatus to ended, by the organizer or, past the end time, by the
\* monitor (endElection), which tries again if it fails.
End ==
    /\ alive /\ loaded /\ note = "none" /\ status = Active
    /\ status' = Ended
    /\ UNCHANGED <<sealed, gathered, proc, faults, rt, note, tick, task, started, maps, pc, drive>>

\* changeStatus to canceled ...
Cancel ==
    /\ alive /\ loaded /\ note = "none" /\ status = Active
    /\ status' = Canceled /\ rt' = "none" /\ note' = "cancel"
    /\ UNCHANGED <<sealed, gathered, proc, faults, tick, task, started, maps, pc, drive>>

\* ... and its last step, rt.mu still held.
CancelForget ==
    /\ alive /\ note = "cancel" /\ note' = "none"
    /\ Forget
    /\ UNCHANGED <<stored, proc, faults, rt, tick, task, started, pc, drive>>

-----------------------------------------------------------------------------
(* The monitor *)

\* tick reads the status of a loaded election ...
TickRead ==
    /\ up /\ loaded /\ tick = "idle"
    /\ status \in {Active, Ended, Decrypting} /\ tick' = status
    /\ UNCHANGED <<stored, proc, faults, rt, note, task, started, maps, pc, drive>>

\* ... and acts on it, whatever it is by now.
\* retryDispatch (after sealIfStale, when the election is open).
TickRetry ==
    /\ alive /\ tick \in {Active, Decrypting}
    /\ \/ take("dispatch") /\ tick' = "notify"
       \/ task["dispatch"] # "due" /\ task' = task /\ tick' = "idle"
    /\ UNCHANGED <<stored, proc, faults, rt, note, started, maps, pc, drive>>

TickNotify ==
    /\ alive /\ tick = "notify" /\ tick' = "idle"
    /\ Notify
    /\ UNCHANGED <<stored, proc, faults, rt, note, task, started, chain, driveMu, drive>>

\* Mutant: only a drain that was scheduled is started.
MutTickDrain ==
    /\ alive /\ tick = Ended /\ tick' = "idle"
    /\ started' = IF task["drain"] = "due" /\ goBackground THEN "yes" ELSE started
    /\ UNCHANGED <<stored, proc, faults, rt, note, task, maps, pc, drive>>
\* A drain is started in the background.
TickDrain ==
    /\ alive /\ tick = Ended /\ tick' = "idle"
    /\ started' = IF due("drain") /\ goBackground THEN "yes" ELSE started
    /\ UNCHANGED <<stored, proc, faults, rt, note, task, maps, pc, drive>>

\* moveFoldChains: the worker the chain is pinned to was unregistered.  The
\* election was loaded when they were listed, and may have finished since.
MoveFoldChains ==
    /\ alive /\ sealed > 0
    /\ Notify
    /\ UNCHANGED <<stored, proc, faults, rt, note, tick, task, started, chain, driveMu, drive>>

\* The backoff of a task passes.
Elapse(t) ==
    /\ alive /\ task[t] = "later"
    /\ task' = [task EXCEPT ![t] = "due"]
    /\ UNCHANGED <<stored, proc, faults, rt, note, tick, started, maps, pc, drive>>

-----------------------------------------------------------------------------
(* A drive of the fold chain, by any of the three *)

\* driveLock: the mutex in the map, or a new one.
GetMutex(d) ==
    /\ alive /\ Goes(d, "begin", "queue")
    /\ driveMu' = IF driveMu # 0 THEN driveMu
                  ELSE CHOOSE m \in Mutexes : \A e \in Drivers : mutex[e] # m
    /\ mutex' = [mutex EXCEPT ![d] = driveMu']
    /\ UNCHANGED <<stored, proc, faults, rt, note, tick, task, started, disp, chain, target>>

Holds(d) == pc[d] \in {"load", "advance"}

\* Mutant: whether the election is finished is not looked at under the lock.
MutEnters(d) == TRUE
\* The status check of drive; Finalize has none.
Enters(d) == d = "fin" \/ ~finished

\* The lock is taken; for a finished election there is nothing to do.
Enter(d) ==
    /\ alive /\ pc[d] = "queue"
    /\ \A e \in Drivers \ {d} : Holds(e) => mutex[e] # mutex[d]
    /\ \/ Enters(d) /\ Goes(d, "queue", "load") /\ mutex' = mutex
       \/ ~Enters(d) /\ Goes(d, "queue", "ok") /\ mutex' = [mutex EXCEPT ![d] = 0]
    /\ UNCHANGED <<stored, proc, faults, rt, note, tick, task, started, maps, target>>

\* Scheduler.chain, and the batches that advance lists.
Load(d) ==
    /\ alive /\ Goes(d, "load", "advance")
    /\ chain' = "kept"
    /\ target' = [target EXCEPT ![d] = sealed]
    /\ UNCHANGED <<stored, proc, faults, rt, note, tick, task, started, disp, driveMu, mutex>>

\* advance returns: every batch it listed, and maybe some sealed since, is on
\* the chain; an election that finished meanwhile is left as it is.
AdvanceOK(d) ==
    /\ alive /\ Goes(d, "advance", "ok")
    /\ \/ gathered' \in target[d]..sealed /\ gathered' >= gathered
       \/ finished /\ gathered' = gathered
    /\ d = "fin" => gathered' > 0
    /\ mutex' = [mutex EXCEPT ![d] = 0] /\ target' = [target EXCEPT ![d] = 0]
    /\ UNCHANGED <<status, sealed, proc, faults, rt, note, tick, task, started, maps>>

\* A job, a prover, a write or the stop fails it.
AdvanceFails(d) ==
    /\ alive /\ Goes(d, "advance", "err")
    /\ IF up THEN Fault ELSE faults' = faults
    /\ mutex' = [mutex EXCEPT ![d] = 0] /\ target' = [target EXCEPT ![d] = 0]
    /\ UNCHANGED <<stored, proc, rt, note, tick, task, started, maps>>

Drive(d) == GetMutex(d) \/ Enter(d) \/ Load(d) \/ AdvanceOK(d) \/ AdvanceFails(d)

-----------------------------------------------------------------------------
(* The dispatch loop *)

LoopWake ==
    /\ alive /\ disp = "full" /\ Goes("loop", "wait", "begin")
    /\ disp' = "empty"
    /\ UNCHANGED <<stored, proc, faults, rt, note, tick, task, started, chain, driveMu, drive>>

\* Mutant: the context is looked at when a trigger comes.
MutLoopStop ==
    /\ proc = "stopping" /\ disp = "full" /\ Goes("loop", "wait", "none")
    /\ UNCHANGED <<stored, proc, faults, rt, note, tick, task, started, maps, drive>>
LoopStop ==
    /\ proc = "stopping" /\ Goes("loop", "wait", "none")
    /\ UNCHANGED <<stored, proc, faults, rt, note, tick, task, started, maps, drive>>

\* What the loop makes of a pass: it reads the status after the pass ...
LoopJudge ==
    /\ alive /\ pc["loop"] \in {"ok", "err"}
    /\ pc' = [pc EXCEPT !["loop"] = IF ~up THEN "wait"
                                     ELSE IF finished THEN "forget"
                                     ELSE IF @ = "ok" THEN "succeeded" ELSE "failed"]
    /\ UNCHANGED <<stored, proc, faults, rt, note, tick, task, started, maps, drive>>

\* Mutant: a failed pass is not recorded.
MutLoopRecord ==
    /\ alive
    /\ \/ Goes("loop", "succeeded", "wait") /\ succeeded("dispatch")
       \/ Goes("loop", "failed", "wait") /\ task' = task
    /\ UNCHANGED <<stored, proc, faults, rt, note, tick, started, maps, drive>>
\* ... and then records how it went,
LoopRecord ==
    /\ alive
    /\ \/ Goes("loop", "succeeded", "wait") /\ succeeded("dispatch")
       \/ Goes("loop", "failed", "wait") /\ failed("dispatch")
    /\ UNCHANGED <<stored, proc, faults, rt, note, tick, started, maps, drive>>

\* or drops the tasks of the finished election,
LoopForget ==
    /\ alive /\ Goes("loop", "forget", "exit")
    /\ forget
    /\ UNCHANGED <<stored, proc, faults, rt, note, tick, started, maps, drive>>

\* then, under Scheduler.mu, what the scheduler keeps for it, and returns.
LoopExit ==
    /\ alive /\ Goes("loop", "exit", "none")
    /\ disp' = "none" /\ forgetLocked
    /\ UNCHANGED <<stored, proc, faults, rt, note, tick, task, started, drive>>

Loop == LoopWake \/ LoopStop \/ LoopJudge \/ LoopRecord \/ LoopForget \/ LoopExit

-----------------------------------------------------------------------------
(* The drain and the finalize *)

\* drainAndPublish: one gets the guard Engine.draining, another returns.
DrainStart ==
    /\ alive /\ started = "yes" /\ started' = "no"
    /\ pc' = IF pc["drain"] = "none" THEN [pc EXCEPT !["drain"] = "seal"] ELSE pc
    /\ UNCHANGED <<stored, proc, faults, rt, note, tick, task, maps, drive>>

\* drain has sealed the votes left (Seal), or failed to.
DrainSealed ==
    /\ alive /\ note = "none"
    /\ \/ Goes("drain", "seal", "begin") /\ faults' = faults
       \/ Goes("drain", "seal", "err") /\ Fault
    /\ UNCHANGED <<stored, proc, rt, note, tick, task, started, maps, drive>>

\* The chain is up to date: the encrypted results are published, and
\* drainAndPublish clears the failures of its task.
DrainPublish ==
    /\ alive /\ status = Ended /\ Goes("drain", "ok", "none")
    /\ status' = Decrypting
    /\ succeeded("drain")
    /\ UNCHANGED <<sealed, gathered, proc, faults, rt, note, tick, started, maps, drive>>

\* A step of the drain failed, the last write too, which also finds out that
\* the election is no longer ended.
DrainFails ==
    /\ alive
    /\ \/ Goes("drain", "ok", "none") /\ status # Ended /\ faults' = faults
       \/ Goes("drain", "ok", "none") /\ status = Ended /\ Fault
       \/ Goes("drain", "err", "none") /\ faults' = faults
    /\ IF up THEN failed("drain") ELSE task' = task
    /\ UNCHANGED <<stored, proc, rt, note, tick, started, maps, drive>>

\* SubmitDecryptionKey (module Finalization) starts the finalize.
SubmitDecryptionKey ==
    /\ up /\ loaded /\ status = Decrypting /\ Goes("fin", "none", "begin")
    /\ status' = Finalizing
    /\ UNCHANGED <<sealed, gathered, proc, faults, rt, note, tick, task, started, maps, drive>>

\* finalizeElection: the results, or back to decrypting.
FinalizeWrite ==
    /\ alive
    /\ \/ Goes("fin", "ok", "forget") /\ status' = Results
       \/ Goes("fin", "err", "none") /\ status' = Decrypting
    /\ UNCHANGED <<sealed, gathered, proc, faults, rt, note, tick, task, started, maps, drive>>

\* The end of finalizeElection.
FinalizeForget ==
    /\ alive /\ Goes("fin", "forget", "none")
    /\ Forget
    /\ UNCHANGED <<stored, proc, faults, rt, note, tick, task, started, drive>>

Drain == DrainSealed \/ DrainPublish \/ DrainFails
Finalize == FinalizeWrite \/ FinalizeForget

-----------------------------------------------------------------------------
(* Stop, crash and restart *)

\* Engine.Stop cancels the contexts ...
Stop ==
    /\ up /\ Fault
    /\ proc' = "stopping"
    /\ UNCHANGED <<stored, rt, note, tick, task, started, maps, pc, drive>>

\* The memory is gone.
Down ==
    /\ proc' = "down" /\ rt' = "none" /\ note' = "none" /\ tick' = "idle"
    /\ task' = [t \in Tasks |-> "none"] /\ started' = "no"
    /\ disp' = "none" /\ chain' = "none" /\ driveMu' = 0
    /\ pc' = [d \in Drivers |-> "none"]
    /\ mutex' = [d \in Drivers |-> 0] /\ target' = [d \in Drivers |-> 0]
    /\ UNCHANGED stored

\* ... and waits for the monitor, the loops and the background goroutines.
Stopped ==
    /\ proc = "stopping" /\ tick = "idle" /\ started = "no" /\ \A d \in Drivers : pc[d] = "none"
    /\ Down /\ faults' = faults

Crash == alive /\ Fault /\ Down

\* NewEngine: the fold chain of an open election is resumed at the first tick;
\* an interrupted finalize is taken back.
Restart ==
    /\ ~alive
    /\ proc' = "up"
    /\ status' = IF status = Finalizing THEN Decrypting ELSE status
    /\ rt' = IF Loadable(status) THEN "loaded" ELSE "none"
    /\ IF Loadable(status) /\ status # Ended THEN schedule("dispatch") ELSE task' = task
    /\ UNCHANGED <<sealed, gathered, faults, note, tick, started, maps, pc, drive>>

-----------------------------------------------------------------------------
Organizer == Seal \/ SealNotify \/ End \/ Cancel \/ CancelForget \/ SubmitDecryptionKey
Monitor == TickRead \/ TickRetry \/ TickNotify \/ TickDrain
Process == Stop \/ Stopped \/ Crash \/ Restart

Next ==
    \/ Organizer \/ Monitor \/ MoveFoldChains \/ Loop \/ DrainStart \/ Drain \/ Finalize \/ Process
    \/ \E t \in Tasks : Elapse(t)
    \/ \E d \in Drivers : Drive(d)

Spec == Init /\ [][Next]_vars

\* The goroutines run on and time passes.  Organizer, keywarden and admins need
\* not act.
Fairness ==
    /\ WF_vars(SealNotify \/ CancelForget) /\ WF_vars(Monitor) /\ WF_vars(DrainStart)
    /\ WF_vars(Loop \/ Drive("loop")) /\ WF_vars(Drain \/ Drive("drain")) /\ WF_vars(Finalize \/ Drive("fin"))
    /\ \A t \in Tasks : WF_vars(Elapse(t))
    /\ WF_vars(Stopped \/ Restart)

FairSpec == Spec /\ Fairness

-----------------------------------------------------------------------------
(* Properties *)

\* Every variable has its type.
TypeOK ==
    /\ status \in Status \ {NoElection, Paused} /\ sealed \in 0..MaxSealed /\ gathered \in 0..sealed
    /\ proc \in {"up", "stopping", "down"} /\ faults \in 0..MaxFaults /\ rt \in {"loaded", "none"}
    /\ note \in {"none", "seal", "cancel"}
    /\ tick \in {"idle", Active, Ended, Decrypting, "notify"}
    /\ task \in [Tasks -> {"none", "later", "due"}] /\ started \in {"yes", "no"}
    /\ disp \in {"none", "empty", "full"} /\ chain \in {"kept", "none"} /\ driveMu \in Mutexes \union {0}
    /\ pc \in [Drivers -> {"none", "wait", "begin", "queue", "load", "advance", "ok", "err", "seal",
                           "succeeded", "failed", "forget", "exit"}]
    /\ mutex \in [Drivers -> Mutexes \union {0}] /\ target \in [Drivers -> 0..MaxSealed]

\* The loop runs a pass that will see every stored batch, or one that failed
\* and will be recorded.
PassCovers ==
    \/ pc["loop"] \in {"begin", "queue", "load", "err", "failed"}
    \/ pc["loop"] = "advance" /\ target["loop"] = sealed

\* No sealed batch is left without a pass to come: a trigger is set, the
\* sealer is about to set it, a pass will see the batch, or the monitor will
\* run one (Notify, dispatchLoop, retries, restore).
Covered ==
    up /\ loaded /\ status \in {Active, Decrypting} /\ gathered < sealed =>
        note = "seal" \/ disp = "full" \/ tick = "notify" \/ task["dispatch"] # "none" \/ PassCovers

\* At most one goroutine works on the fold chain, although Forget takes its
\* mutex out of the map while others may hold it or wait for it (driveLock,
\* forgetLocked).
OneDriver == \A d, e \in Drivers : Holds(d) /\ Holds(e) => d = e

\* A dispatcher in the map has a loop that sees its triggers, and the loop of a
\* finished election does not sleep for ever: a wake is on its way (Notify,
\* Forget, dispatchLoop).
NoIdleLoop ==
    up =>
        /\ disp = "none" <=> pc["loop"] = "none"
        /\ finished /\ pc["loop"] = "wait" =>
              disp = "full" \/ note = "cancel" \/ pc["fin"] = "forget" \/ tick = "notify"

\* Every sealed batch of an election that is not canceled gets onto the chain,
\* although passes fail and the process stops (Notify, retries, restore).
BatchGathered == gathered < sealed ~> gathered = sealed \/ status = Canceled

\* Engine.Stop returns: nothing that it waits for is stuck, and nothing new
\* starts behind it (Stop, goBackground, Notify).
StopReturns == proc = "stopping" ~> proc = "down"
=============================================================================
