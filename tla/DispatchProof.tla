--------------------------- MODULE DispatchProof ---------------------------
(***************************************************************************)
(* Theorems about Dispatch, for every number of batches and of faults.     *)
(***************************************************************************)
EXTENDS Dispatch, TLAPS

\* Where a driver is between driveLock and the end of its pass, and where it
\* has the mutex or queues for it.
Driving == {"begin", "queue", "load", "advance", "ok", "err"}
Locking == {"queue", "load", "advance"}

\* What the status says of who runs: the finalize runs while the election reads
\* finalizing and takes it down once it has its results, a cancel and a loop
\* that returns have seen the last status, and nobody drains an open election,
\* or one the monitor, which starts the drains, still takes for open.
StageInv ==
    /\ pc["fin"] \in Driving \union {"none", "forget"}
    /\ pc["fin"] \in Driving => status = Finalizing
    /\ pc["fin"] = "forget" => status = Results
    /\ note = "cancel" => status = Canceled
    /\ pc["loop"] \in {"forget", "exit"} => finished
    /\ tick = Ended \/ started = "yes" \/ pc["drain"] # "none" => status # Active /\ tick # Active

\* Nothing is sealed behind the drain's pass, so that an election is published
\* with every batch on the chain, and stays that way.
DrainInv ==
    /\ pc["drain"] = "advance" => target["drain"] = sealed
    /\ pc["drain"] = "ok" /\ status = Ended => gathered = sealed
    /\ status \in {Decrypting, Finalizing, Results} => gathered = sealed

\* A process that is down has no loop, no goroutine and no trigger.
DownInv ==
    ~alive =>
        /\ disp = "none" /\ note = "none" /\ tick = "idle" /\ started = "no"
        /\ \A d \in Drivers : pc[d] = "none"

\* Until the election is finished every driver that locks or queues got the
\* mutex that is in the map.
LockInv ==
    ~finished => \A d \in Drivers : pc[d] \in Locking => mutex[d] = driveMu /\ driveMu # 0

\* A wake of the loop of a finished election is on its way, from the moment the
\* loop can no longer see the status change.
WakeInv ==
    up =>
        /\ disp = "none" <=> pc["loop"] = "none"
        /\ finished /\ pc["loop"] \in {"wait", "succeeded", "failed"} =>
              disp = "full" \/ note = "cancel" \/ pc["fin"] = "forget" \/ tick = "notify"

\* A batch that the running pass has not listed has its own trigger, set or
\* about to be set, so that the end of the pass may clear the task.
PassInv ==
    up /\ status = Active =>
        /\ pc["loop"] = "advance" /\ target["loop"] < sealed => note = "seal" \/ disp = "full"
        /\ pc["loop"] \in {"ok", "succeeded"} /\ gathered < sealed => note = "seal" \/ disp = "full"

DispatchInv ==
    /\ TypeOK /\ StageInv /\ DrainInv /\ DownInv /\ LockInv /\ WakeInv /\ PassInv
    /\ OneDriver /\ Covered

\* A mutex that no driver got is left for driveLock.
LEMMA FreshMutex == \E m \in Mutexes : \A e \in Drivers : mutex[e] # m
BY DEF Mutexes, Drivers

\* A new election has no batch, and nobody drives its chain.
LEMMA DispatchInit == Init => DispatchInv
<1> SUFFICES ASSUME Init PROVE DispatchInv
    OBVIOUS
<1>1. TypeOK
    BY BoundsAssumption
       DEF Init, TypeOK, Status, NoElection, Paused, Active, Ended, Decrypting, Finalizing, Results, Canceled
<1>2. StageInv /\ DrainInv /\ DownInv /\ LockInv /\ WakeInv /\ PassInv /\ OneDriver /\ Covered
    BY DEF Init, StageInv, DrainInv, DownInv, LockInv, WakeInv, PassInv, OneDriver, Covered, Holds, finished,
           up, alive, loaded, Drivers, Driving, Locking, Active, Ended, Decrypting, Finalizing, Results, Canceled
<1> QED
    BY <1>1, <1>2 DEF DispatchInv

\* Every step keeps the types.
LEMMA TypeNext == TypeOK /\ [Next]_vars => TypeOK'
<1> SUFFICES ASSUME TypeOK, [Next]_vars PROVE TypeOK'
    OBVIOUS
<1> USE BoundsAssumption
    DEF TypeOK, Status, NoElection, Paused, Active, Ended, Decrypting, Finalizing, Results, Canceled,
        stored, maps, drive, Goes, up, alive, loaded, finished, Fault, Drivers, Tasks
<1>1. CASE UNCHANGED vars
    BY <1>1 DEF vars
<1>2. CASE Organizer
  <2>1. CASE Seal
    BY <2>1 DEF Seal
  <2>2. CASE SealNotify
    BY <2>2 DEF SealNotify, Notify
  <2>3. CASE End
    BY <2>3 DEF End
  <2>4. CASE Cancel
    BY <2>4 DEF Cancel
  <2>5. CASE CancelForget
    BY <2>5 DEF CancelForget, Forget, forgetLocked
  <2>6. CASE SubmitDecryptionKey
    BY <2>6 DEF SubmitDecryptionKey
  <2> QED
    BY <1>2, <2>1, <2>2, <2>3, <2>4, <2>5, <2>6 DEF Organizer
<1>3. CASE Monitor
  <2>1. CASE TickRead
    BY <2>1 DEF TickRead
  <2>2. CASE TickRetry
    BY <2>2 DEF TickRetry, take
  <2>3. CASE TickNotify
    BY <2>3 DEF TickNotify, Notify
  <2>4. CASE TickDrain
    BY <2>4 DEF TickDrain, goBackground
  <2> QED
    BY <1>3, <2>1, <2>2, <2>3, <2>4 DEF Monitor
<1>4. CASE Loop
  <2>1. CASE LoopWake
    BY <2>1 DEF LoopWake
  <2>2. CASE LoopStop
    BY <2>2 DEF LoopStop
  <2>3. CASE LoopJudge
    BY <2>3 DEF LoopJudge
  <2>4. CASE LoopRecord
    BY <2>4 DEF LoopRecord, succeeded, failed
  <2>5. CASE LoopForget
    BY <2>5 DEF LoopForget, forget
  <2>6. CASE LoopExit
    BY <2>6 DEF LoopExit, forgetLocked
  <2> QED
    BY <1>4, <2>1, <2>2, <2>3, <2>4, <2>5, <2>6 DEF Loop
<1>5. CASE Drain
  <2>1. CASE DrainSealed
    BY <2>1 DEF DrainSealed
  <2>2. CASE DrainPublish
    BY <2>2 DEF DrainPublish, succeeded
  <2>3. CASE DrainFails
    BY <2>3 DEF DrainFails, failed
  <2> QED
    BY <1>5, <2>1, <2>2, <2>3 DEF Drain
<1>6. CASE Finalize
  <2>1. CASE FinalizeWrite
    BY <2>1 DEF FinalizeWrite
  <2>2. CASE FinalizeForget
    BY <2>2 DEF FinalizeForget, Forget, forgetLocked
  <2> QED
    BY <1>6, <2>1, <2>2 DEF Finalize
<1>7. CASE Process
  <2>1. CASE Stop
    BY <2>1 DEF Stop
  <2>2. CASE Stopped
    BY <2>2 DEF Stopped, Down
  <2>3. CASE Crash
    BY <2>3 DEF Crash, Down
  <2>4. CASE Restart
    BY <2>4 DEF Restart, schedule, Loadable
  <2> QED
    BY <1>7, <2>1, <2>2, <2>3, <2>4 DEF Process
<1>8. CASE MoveFoldChains
    BY <1>8 DEF MoveFoldChains, Notify
<1>9. CASE DrainStart
    BY <1>9 DEF DrainStart
<1>10. ASSUME NEW t \in Tasks, Elapse(t) PROVE TypeOK'
    BY <1>10 DEF Elapse
<1>11. ASSUME NEW d \in Drivers, Drive(d) PROVE TypeOK'
  <2>1. CASE GetMutex(d)
    BY <2>1, FreshMutex DEF GetMutex, Mutexes
  <2>2. CASE Enter(d)
    BY <2>2 DEF Enter, Enters, Holds
  <2>3. CASE Load(d)
    BY <2>3 DEF Load
  <2>4. CASE AdvanceOK(d)
    BY <2>4 DEF AdvanceOK
  <2>5. CASE AdvanceFails(d)
    BY <2>5 DEF AdvanceFails
  <2> QED
    BY <1>11, <2>1, <2>2, <2>3, <2>4, <2>5 DEF Drive
<1> QED
    BY <1>1, <1>2, <1>3, <1>4, <1>5, <1>6, <1>7, <1>8, <1>9, <1>10, <1>11 DEF Next

\* The status moves only where whoever runs has seen it, and a batch is stored
\* only where no drain is past its seal.
LEMMA StageNext ==
    TypeOK /\ StageInv /\ DrainInv /\ DownInv /\ [Next]_vars => StageInv' /\ DrainInv' /\ DownInv'
<1> SUFFICES ASSUME TypeOK, StageInv, DrainInv, DownInv, [Next]_vars PROVE StageInv' /\ DrainInv' /\ DownInv'
    OBVIOUS
<1> USE DEF TypeOK, StageInv, DrainInv, DownInv, Driving, Active, Ended, Decrypting, Finalizing, Results,
            Canceled, stored, maps, drive, Goes, up, alive, loaded, finished, Fault, Drivers, Tasks
<1>1. CASE UNCHANGED vars
    BY <1>1 DEF vars
<1>2. CASE Organizer
  <2>1. CASE Seal
    BY <2>1 DEF Seal
  <2>2. CASE SealNotify
    BY <2>2 DEF SealNotify, Notify
  <2>3. CASE End
    BY <2>3 DEF End
  <2>4. CASE Cancel
    BY <2>4 DEF Cancel
  <2>5. CASE CancelForget
    BY <2>5 DEF CancelForget, Forget, forgetLocked
  <2>6. CASE SubmitDecryptionKey
    BY <2>6 DEF SubmitDecryptionKey
  <2> QED
    BY <1>2, <2>1, <2>2, <2>3, <2>4, <2>5, <2>6 DEF Organizer
<1>3. CASE Monitor
  <2>1. CASE TickRead
    BY <2>1 DEF TickRead
  <2>2. CASE TickRetry
    BY <2>2 DEF TickRetry, take
  <2>3. CASE TickNotify
    BY <2>3 DEF TickNotify, Notify
  <2>4. CASE TickDrain
    BY <2>4 DEF TickDrain, goBackground
  <2> QED
    BY <1>3, <2>1, <2>2, <2>3, <2>4 DEF Monitor
<1>4. CASE Loop
  <2>1. CASE LoopWake
    BY <2>1 DEF LoopWake
  <2>2. CASE LoopStop
    BY <2>2 DEF LoopStop
  <2>3. CASE LoopJudge
    BY <2>3 DEF LoopJudge
  <2>4. CASE LoopRecord
    BY <2>4 DEF LoopRecord, succeeded, failed
  <2>5. CASE LoopForget
    BY <2>5 DEF LoopForget, forget
  <2>6. CASE LoopExit
    BY <2>6 DEF LoopExit, forgetLocked
  <2> QED
    BY <1>4, <2>1, <2>2, <2>3, <2>4, <2>5, <2>6 DEF Loop
<1>5. CASE Drain
  <2>1. CASE DrainSealed
    BY <2>1 DEF DrainSealed
  <2>2. CASE DrainPublish
    BY <2>2 DEF DrainPublish, succeeded
  <2>3. CASE DrainFails
    BY <2>3 DEF DrainFails, failed
  <2> QED
    BY <1>5, <2>1, <2>2, <2>3 DEF Drain
<1>6. CASE Finalize
  <2>1. CASE FinalizeWrite
    BY <2>1 DEF FinalizeWrite
  <2>2. CASE FinalizeForget
    BY <2>2 DEF FinalizeForget, Forget, forgetLocked
  <2> QED
    BY <1>6, <2>1, <2>2 DEF Finalize
<1>7. CASE Process
  <2>1. CASE Stop
    BY <2>1 DEF Stop
  <2>2. CASE Stopped
    BY <2>2 DEF Stopped, Down
  <2>3. CASE Crash
    BY <2>3 DEF Crash, Down
  <2>4. CASE Restart
    BY <2>4 DEF Restart, schedule, Loadable
  <2> QED
    BY <1>7, <2>1, <2>2, <2>3, <2>4 DEF Process
<1>8. CASE MoveFoldChains
    BY <1>8 DEF MoveFoldChains, Notify
<1>9. CASE DrainStart
    BY <1>9 DEF DrainStart
<1>10. ASSUME NEW t \in Tasks, Elapse(t) PROVE StageInv' /\ DrainInv' /\ DownInv'
    BY <1>10 DEF Elapse
<1>11. ASSUME NEW d \in Drivers, Drive(d) PROVE StageInv' /\ DrainInv' /\ DownInv'
  <2>1. CASE GetMutex(d)
    BY <2>1 DEF GetMutex
  <2>2. CASE Enter(d)
    BY <2>2 DEF Enter, Enters, Holds
  <2>3. CASE Load(d)
    BY <2>3 DEF Load
  <2>4. CASE AdvanceOK(d)
    BY <2>4 DEF AdvanceOK
  <2>5. CASE AdvanceFails(d)
    BY <2>5 DEF AdvanceFails
  <2> QED
    BY <1>11, <2>1, <2>2, <2>3, <2>4, <2>5 DEF Drive
<1> QED
    BY <1>1, <1>2, <1>3, <1>4, <1>5, <1>6, <1>7, <1>8, <1>9, <1>10, <1>11 DEF Next

\* The map loses its mutex only once the election is finished, and then nobody
\* enters any more.
LEMMA LockNext ==
    TypeOK /\ StageInv /\ DownInv /\ LockInv /\ OneDriver /\ [Next]_vars => LockInv' /\ OneDriver'
<1> SUFFICES ASSUME TypeOK, StageInv, DownInv, LockInv, OneDriver, [Next]_vars PROVE LockInv' /\ OneDriver'
    OBVIOUS
<1> USE DEF TypeOK, StageInv, DownInv, LockInv, OneDriver, Holds, Driving, Locking, Active, Ended,
            Decrypting, Finalizing, Results, Canceled, stored, maps, drive, Goes, up, alive, loaded,
            finished, Fault, Drivers, Tasks
<1>1. CASE UNCHANGED vars
    BY <1>1 DEF vars
<1>2. CASE Organizer
  <2>1. CASE Seal
    BY <2>1 DEF Seal
  <2>2. CASE SealNotify
    BY <2>2 DEF SealNotify, Notify
  <2>3. CASE End
    BY <2>3 DEF End
  <2>4. CASE Cancel
    BY <2>4 DEF Cancel
  <2>5. CASE CancelForget
    BY <2>5 DEF CancelForget, Forget, forgetLocked
  <2>6. CASE SubmitDecryptionKey
    BY <2>6 DEF SubmitDecryptionKey
  <2> QED
    BY <1>2, <2>1, <2>2, <2>3, <2>4, <2>5, <2>6 DEF Organizer
<1>3. CASE Monitor
  <2>1. CASE TickRead
    BY <2>1 DEF TickRead
  <2>2. CASE TickRetry
    BY <2>2 DEF TickRetry, take
  <2>3. CASE TickNotify
    BY <2>3 DEF TickNotify, Notify
  <2>4. CASE TickDrain
    BY <2>4 DEF TickDrain, goBackground
  <2> QED
    BY <1>3, <2>1, <2>2, <2>3, <2>4 DEF Monitor
<1>4. CASE Loop
  <2>1. CASE LoopWake
    BY <2>1 DEF LoopWake
  <2>2. CASE LoopStop
    BY <2>2 DEF LoopStop
  <2>3. CASE LoopJudge
    BY <2>3 DEF LoopJudge
  <2>4. CASE LoopRecord
    BY <2>4 DEF LoopRecord, succeeded, failed
  <2>5. CASE LoopForget
    BY <2>5 DEF LoopForget, forget
  <2>6. CASE LoopExit
    BY <2>6 DEF LoopExit, forgetLocked
  <2> QED
    BY <1>4, <2>1, <2>2, <2>3, <2>4, <2>5, <2>6 DEF Loop
<1>5. CASE Drain
  <2>1. CASE DrainSealed
    BY <2>1 DEF DrainSealed
  <2>2. CASE DrainPublish
    BY <2>2 DEF DrainPublish, succeeded
  <2>3. CASE DrainFails
    BY <2>3 DEF DrainFails, failed
  <2> QED
    BY <1>5, <2>1, <2>2, <2>3 DEF Drain
<1>6. CASE Finalize
  <2>1. CASE FinalizeWrite
    BY <2>1 DEF FinalizeWrite
  <2>2. CASE FinalizeForget
    BY <2>2 DEF FinalizeForget, Forget, forgetLocked
  <2> QED
    BY <1>6, <2>1, <2>2 DEF Finalize
<1>7. CASE Process
  <2>1. CASE Stop
    BY <2>1 DEF Stop
  <2>2. CASE Stopped
    BY <2>2 DEF Stopped, Down
  <2>3. CASE Crash
    BY <2>3 DEF Crash, Down
  <2>4. CASE Restart
    BY <2>4 DEF Restart, schedule, Loadable
  <2> QED
    BY <1>7, <2>1, <2>2, <2>3, <2>4 DEF Process
<1>8. CASE MoveFoldChains
    BY <1>8 DEF MoveFoldChains, Notify
<1>9. CASE DrainStart
    BY <1>9 DEF DrainStart
<1>10. ASSUME NEW t \in Tasks, Elapse(t) PROVE LockInv' /\ OneDriver'
    BY <1>10 DEF Elapse
<1>11. ASSUME NEW d \in Drivers, Drive(d) PROVE LockInv' /\ OneDriver'
  <2>1. CASE GetMutex(d)
    BY <2>1, FreshMutex DEF GetMutex, Mutexes
  <2>2. CASE Enter(d)
    BY <2>2 DEF Enter, Enters, Holds
  <2>3. CASE Load(d)
    BY <2>3 DEF Load
  <2>4. CASE AdvanceOK(d)
    BY <2>4 DEF AdvanceOK
  <2>5. CASE AdvanceFails(d)
    BY <2>5 DEF AdvanceFails
  <2> QED
    BY <1>11, <2>1, <2>2, <2>3, <2>4, <2>5 DEF Drive
<1> QED
    BY <1>1, <1>2, <1>3, <1>4, <1>5, <1>6, <1>7, <1>8, <1>9, <1>10, <1>11 DEF Next

\* Who finishes the election wakes its loop, and the loop looks at the status
\* after every pass.
LEMMA WakeNext == TypeOK /\ StageInv /\ DownInv /\ WakeInv /\ [Next]_vars => WakeInv'
<1> SUFFICES ASSUME TypeOK, StageInv, DownInv, WakeInv, [Next]_vars PROVE WakeInv'
    OBVIOUS
<1> USE DEF TypeOK, StageInv, DownInv, WakeInv, Driving, Active, Ended, Decrypting, Finalizing, Results,
            Canceled, stored, maps, drive, Goes, up, alive, loaded, finished, Fault, Drivers, Tasks
<1>1. CASE UNCHANGED vars
    BY <1>1 DEF vars
<1>2. CASE Organizer
  <2>1. CASE Seal
    BY <2>1 DEF Seal
  <2>2. CASE SealNotify
    BY <2>2 DEF SealNotify, Notify
  <2>3. CASE End
    BY <2>3 DEF End
  <2>4. CASE Cancel
    BY <2>4 DEF Cancel
  <2>5. CASE CancelForget
    BY <2>5 DEF CancelForget, Forget, forgetLocked
  <2>6. CASE SubmitDecryptionKey
    BY <2>6 DEF SubmitDecryptionKey
  <2> QED
    BY <1>2, <2>1, <2>2, <2>3, <2>4, <2>5, <2>6 DEF Organizer
<1>3. CASE Monitor
  <2>1. CASE TickRead
    BY <2>1 DEF TickRead
  <2>2. CASE TickRetry
    BY <2>2 DEF TickRetry, take
  <2>3. CASE TickNotify
    BY <2>3 DEF TickNotify, Notify
  <2>4. CASE TickDrain
    BY <2>4 DEF TickDrain, goBackground
  <2> QED
    BY <1>3, <2>1, <2>2, <2>3, <2>4 DEF Monitor
<1>4. CASE Loop
  <2>1. CASE LoopWake
    BY <2>1 DEF LoopWake
  <2>2. CASE LoopStop
    BY <2>2 DEF LoopStop
  <2>3. CASE LoopJudge
    BY <2>3 DEF LoopJudge
  <2>4. CASE LoopRecord
    BY <2>4 DEF LoopRecord, succeeded, failed
  <2>5. CASE LoopForget
    BY <2>5 DEF LoopForget, forget
  <2>6. CASE LoopExit
    BY <2>6 DEF LoopExit, forgetLocked
  <2> QED
    BY <1>4, <2>1, <2>2, <2>3, <2>4, <2>5, <2>6 DEF Loop
<1>5. CASE Drain
  <2>1. CASE DrainSealed
    BY <2>1 DEF DrainSealed
  <2>2. CASE DrainPublish
    BY <2>2 DEF DrainPublish, succeeded
  <2>3. CASE DrainFails
    BY <2>3 DEF DrainFails, failed
  <2> QED
    BY <1>5, <2>1, <2>2, <2>3 DEF Drain
<1>6. CASE Finalize
  <2>1. CASE FinalizeWrite
    BY <2>1 DEF FinalizeWrite
  <2>2. CASE FinalizeForget
    BY <2>2 DEF FinalizeForget, Forget, forgetLocked
  <2> QED
    BY <1>6, <2>1, <2>2 DEF Finalize
<1>7. CASE Process
  <2>1. CASE Stop
    BY <2>1 DEF Stop
  <2>2. CASE Stopped
    BY <2>2 DEF Stopped, Down
  <2>3. CASE Crash
    BY <2>3 DEF Crash, Down
  <2>4. CASE Restart
    BY <2>4 DEF Restart, schedule, Loadable
  <2> QED
    BY <1>7, <2>1, <2>2, <2>3, <2>4 DEF Process
<1>8. CASE MoveFoldChains
    BY <1>8 DEF MoveFoldChains, Notify
<1>9. CASE DrainStart
    BY <1>9 DEF DrainStart
<1>10. ASSUME NEW t \in Tasks, Elapse(t) PROVE WakeInv'
    BY <1>10 DEF Elapse
<1>11. ASSUME NEW d \in Drivers, Drive(d) PROVE WakeInv'
  <2>1. CASE GetMutex(d)
    BY <2>1 DEF GetMutex
  <2>2. CASE Enter(d)
    BY <2>2 DEF Enter, Enters, Holds
  <2>3. CASE Load(d)
    BY <2>3 DEF Load
  <2>4. CASE AdvanceOK(d)
    BY <2>4 DEF AdvanceOK
  <2>5. CASE AdvanceFails(d)
    BY <2>5 DEF AdvanceFails
  <2> QED
    BY <1>11, <2>1, <2>2, <2>3, <2>4, <2>5 DEF Drive
<1> QED
    BY <1>1, <1>2, <1>3, <1>4, <1>5, <1>6, <1>7, <1>8, <1>9, <1>10, <1>11 DEF Next

\* A pass lists every batch that is stored when it starts, and whoever stores
\* one later sets a trigger that only the next pass takes.
LEMMA CoverNext ==
    TypeOK /\ StageInv /\ DrainInv /\ DownInv /\ PassInv /\ Covered /\ [Next]_vars => PassInv' /\ Covered'
<1> SUFFICES ASSUME TypeOK, StageInv, DrainInv, DownInv, PassInv, Covered, [Next]_vars PROVE PassInv' /\ Covered'
    OBVIOUS
<1> USE DEF TypeOK, StageInv, DrainInv, DownInv, PassInv, Covered, PassCovers, Driving, Active, Ended,
            Decrypting, Finalizing, Results, Canceled, stored, maps, drive, Goes, up, alive, loaded,
            finished, Fault, Drivers, Tasks
<1>1. CASE UNCHANGED vars
    BY <1>1 DEF vars
<1>2. CASE Organizer
  <2>1. CASE Seal
    BY <2>1 DEF Seal
  <2>2. CASE SealNotify
    BY <2>2 DEF SealNotify, Notify
  <2>3. CASE End
    BY <2>3 DEF End
  <2>4. CASE Cancel
    BY <2>4 DEF Cancel
  <2>5. CASE CancelForget
    BY <2>5 DEF CancelForget, Forget, forgetLocked
  <2>6. CASE SubmitDecryptionKey
    BY <2>6 DEF SubmitDecryptionKey
  <2> QED
    BY <1>2, <2>1, <2>2, <2>3, <2>4, <2>5, <2>6 DEF Organizer
<1>3. CASE Monitor
  <2>1. CASE TickRead
    BY <2>1 DEF TickRead
  <2>2. CASE TickRetry
    BY <2>2 DEF TickRetry, take
  <2>3. CASE TickNotify
    BY <2>3 DEF TickNotify, Notify
  <2>4. CASE TickDrain
    BY <2>4 DEF TickDrain, goBackground
  <2> QED
    BY <1>3, <2>1, <2>2, <2>3, <2>4 DEF Monitor
<1>4. CASE Loop
  <2>1. CASE LoopWake
    BY <2>1 DEF LoopWake
  <2>2. CASE LoopStop
    BY <2>2 DEF LoopStop
  <2>3. CASE LoopJudge
    BY <2>3 DEF LoopJudge
  <2>4. CASE LoopRecord
    BY <2>4 DEF LoopRecord, succeeded, failed
  <2>5. CASE LoopForget
    BY <2>5 DEF LoopForget, forget
  <2>6. CASE LoopExit
    BY <2>6 DEF LoopExit, forgetLocked
  <2> QED
    BY <1>4, <2>1, <2>2, <2>3, <2>4, <2>5, <2>6 DEF Loop
<1>5. CASE Drain
  <2>1. CASE DrainSealed
    BY <2>1 DEF DrainSealed
  <2>2. CASE DrainPublish
    BY <2>2 DEF DrainPublish, succeeded
  <2>3. CASE DrainFails
    BY <2>3 DEF DrainFails, failed
  <2> QED
    BY <1>5, <2>1, <2>2, <2>3 DEF Drain
<1>6. CASE Finalize
  <2>1. CASE FinalizeWrite
    BY <2>1 DEF FinalizeWrite
  <2>2. CASE FinalizeForget
    BY <2>2 DEF FinalizeForget, Forget, forgetLocked
  <2> QED
    BY <1>6, <2>1, <2>2 DEF Finalize
<1>7. CASE Process
  <2>1. CASE Stop
    BY <2>1 DEF Stop
  <2>2. CASE Stopped
    BY <2>2 DEF Stopped, Down
  <2>3. CASE Crash
    BY <2>3 DEF Crash, Down
  <2>4. CASE Restart
    BY <2>4 DEF Restart, schedule, Loadable
  <2> QED
    BY <1>7, <2>1, <2>2, <2>3, <2>4 DEF Process
<1>8. CASE MoveFoldChains
    BY <1>8 DEF MoveFoldChains, Notify
<1>9. CASE DrainStart
    BY <1>9 DEF DrainStart
<1>10. ASSUME NEW t \in Tasks, Elapse(t) PROVE PassInv' /\ Covered'
    BY <1>10 DEF Elapse
<1>11. ASSUME NEW d \in Drivers, Drive(d) PROVE PassInv' /\ Covered'
  <2>1. CASE GetMutex(d)
    BY <2>1 DEF GetMutex
  <2>2. CASE Enter(d)
    BY <2>2 DEF Enter, Enters, Holds
  <2>3. CASE Load(d)
    BY <2>3 DEF Load
  <2>4. CASE AdvanceOK(d)
    BY <2>4 DEF AdvanceOK
  <2>5. CASE AdvanceFails(d)
    BY <2>5 DEF AdvanceFails
  <2> QED
    BY <1>11, <2>1, <2>2, <2>3, <2>4, <2>5 DEF Drive
<1> QED
    BY <1>1, <1>2, <1>3, <1>4, <1>5, <1>6, <1>7, <1>8, <1>9, <1>10, <1>11 DEF Next

\* The inductive invariant holds in every state.
LEMMA DispatchInvariant == Spec => []DispatchInv
<1>1. DispatchInv /\ [Next]_vars => DispatchInv'
    BY TypeNext, StageNext, LockNext, WakeNext, CoverNext DEF DispatchInv
<1> QED
    BY DispatchInit, <1>1, PTL DEF Spec

\* At most one goroutine works on the fold chain, although Forget takes its
\* mutex out of the map while others hold it or wait for it (driveLock,
\* forgetLocked, drive).
THEOREM OneDriverHolds == Spec => []OneDriver
<1>1. DispatchInv => OneDriver
    BY DEF DispatchInv
<1> QED
    BY <1>1, DispatchInvariant, PTL

\* A dispatcher in the map has a loop, and the loop of a finished election does
\* not sleep for ever (Notify, Forget, dispatchLoop).
THEOREM NoIdleLoopHolds == Spec => []NoIdleLoop
<1>1. DispatchInv => NoIdleLoop
    BY DEF DispatchInv, WakeInv, NoIdleLoop
<1> QED
    BY <1>1, DispatchInvariant, PTL

\* No sealed batch is left without a pass to come (Notify, dispatchLoop,
\* retries, restore).
THEOREM CoveredHolds == Spec => []Covered
<1>1. DispatchInv => Covered
    BY DEF DispatchInv
<1> QED
    BY <1>1, DispatchInvariant, PTL

\* An election is published, and finalized, with every sealed batch on its fold
\* chain (drain, publish).
THEOREM PublishedIsGathered ==
    Spec => [](status \in {Decrypting, Finalizing, Results} => gathered = sealed)
<1>1. DispatchInv => (status \in {Decrypting, Finalizing, Results} => gathered = sealed)
    BY DEF DispatchInv, DrainInv
<1> QED
    BY <1>1, DispatchInvariant, PTL
=============================================================================
