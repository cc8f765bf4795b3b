---------------------------- MODULE WorkerClaims ----------------------------
(***************************************************************************)
(* The claims on the prover workers of a WorkerManager.  A prove takes an  *)
(* idle worker (Acquire), a fold or a finalize waits for its fold worker   *)
(* (Claim), the job a previous run left on a worker is counted when it is  *)
(* waited for again (Hold); Release and RemoveWorker wake whoever waits.   *)
(* Every atomic load, compare-and-swap and channel operation is a step.    *)
(*                                                                         *)
(* A worker object is an address and the number of its registration: a     *)
(* worker that is removed and registered again is a new object.            *)
(* Health and bans (module WorkerBans) decide which objects are usable.    *)
(***************************************************************************)
EXTENDS Integers, FiniteSets

CONSTANTS
    Addrs,      \* worker addresses
    Provers,    \* goroutines that prove batches, one after the other
    Folders,    \* drive loops that fold or finalize on a fold worker
    Leftovers,  \* goroutines that wait for a job of a previous run, once
    MaxReg      \* registrations of one address

ASSUME RegAssumption == MaxReg \in Nat \ {0}
\* A goroutine has one job; there are finitely many.
ASSUME CallersAssumption ==
    /\ IsFiniteSet(Provers \union Folders \union Leftovers)
    /\ Leftovers \intersect (Provers \union Folders) = {}

VARIABLES
    pool,      \* WorkerManager.workers: the registration in the pool, 0 if none
    made,      \* registrations so far
    usable,    \* objects of the pool that are healthy and not banned
    jobs,      \* Worker.jobs
    claimers,  \* Worker.claimers
    pc,        \* where each goroutine is
    obj,       \* the worker object it deals with, NoWorker if none
    freed,     \* goroutines that hold a channel of Freed no wake has closed
    removing   \* RemoveWorker calls that have not called wake yet

vars == <<pool, made, usable, jobs, claimers, pc, obj, freed, removing>>

Callers == Provers \union Folders \union Leftovers
Objs == Addrs \X (1..MaxReg)
NoWorker == <<>>

\* WorkerManager.Has
Has(o) == pool[o[1]] = o[2]

Init ==
    /\ pool = [a \in Addrs |-> 1] /\ made = [a \in Addrs |-> 1]
    /\ usable = {}
    /\ jobs = [o \in Objs |-> 0] /\ claimers = [o \in Objs |-> 0]
    /\ pc = [c \in Callers |-> "idle"] /\ obj = [c \in Callers |-> NoWorker]
    /\ freed = {} /\ removing = {}

\* The step of caller c, from one place to another.
Goes(c, from, to) == pc[c] = from /\ pc' = [pc EXCEPT ![c] = to]

\* The same, when c is through with its worker.
Leaves(c, from, to) == Goes(c, from, to) /\ obj' = [obj EXCEPT ![c] = NoWorker]

\* wake closes the channel every earlier Freed returned.
wake == freed' = {}

-----------------------------------------------------------------------------
AddWorker(a) ==
    /\ pool[a] = 0 /\ made[a] < MaxReg
    /\ pool' = [pool EXCEPT ![a] = made[a] + 1]
    /\ made' = [made EXCEPT ![a] = @ + 1]
    /\ UNCHANGED <<usable, jobs, claimers, pc, obj, freed, removing>>

RemoveWorker(a) ==
    /\ pool[a] # 0
    /\ pool' = [pool EXCEPT ![a] = 0] /\ usable' = usable \ {<<a, pool[a]>>}
    /\ removing' = removing \union {a}
    /\ UNCHANGED <<made, jobs, claimers, pc, obj, freed>>

RemoveWake(a) ==
    /\ a \in removing
    /\ removing' = removing \ {a}
    /\ wake
    /\ UNCHANGED <<pool, made, usable, jobs, claimers, pc, obj>>

\* A health poll or the ban rules change whether a worker can take a job.
ChangeUsable(o) ==
    /\ Has(o)
    /\ usable' = IF o \in usable THEN usable \ {o} ELSE usable \union {o}
    /\ UNCHANGED <<pool, made, jobs, claimers, pc, obj, freed, removing>>

-----------------------------------------------------------------------------
\* Scheduler.acquire calls Acquire ...
AcquireBegin(c) ==
    /\ c \in Provers /\ Goes(c, "idle", "scan")
    /\ UNCHANGED <<pool, made, usable, jobs, claimers, obj, freed, removing>>

\* Mutant: a worker somebody waits for is taken.
MutIdle(o) == Has(o) /\ o \in usable /\ jobs[o] = 0
\* What leastLoaded keeps of the pool for Acquire.
Idle(o) == Has(o) /\ o \in usable /\ jobs[o] = 0 /\ claimers[o] = 0

\* ... which picks an idle worker (the least loaded that is not excluded) ...
AcquireScan(c) ==
    /\ Goes(c, "scan", "swap")
    /\ \E o \in Objs : Idle(o) /\ obj' = [obj EXCEPT ![c] = o]
    /\ UNCHANGED <<pool, made, usable, jobs, claimers, freed, removing>>

\* ... or gives up, when no worker can take a job or the election stopped; while
\* the usable workers are busy acquire polls, and stays where it is.
AcquireNone(c) ==
    /\ Goes(c, "scan", "idle")
    /\ UNCHANGED <<pool, made, usable, jobs, claimers, obj, freed, removing>>

\* Mutant: the job is counted without comparing.
MutAcquireSwap(c) ==
    /\ Goes(c, "swap", "run")
    /\ jobs' = [jobs EXCEPT ![obj[c]] = @ + 1]
    /\ UNCHANGED <<pool, made, usable, claimers, obj, freed, removing>>
\* The compare-and-swap on jobs; after a failed one the pool is scanned again.
AcquireSwap(c) ==
    /\ \/ /\ Goes(c, "swap", "run") /\ jobs[obj[c]] = 0
          /\ jobs' = [jobs EXCEPT ![obj[c]] = 1]
          /\ obj' = obj
       \/ Leaves(c, "swap", "scan") /\ jobs[obj[c]] # 0 /\ jobs' = jobs
    /\ UNCHANGED <<pool, made, usable, claimers, freed, removing>>

-----------------------------------------------------------------------------
\* Claim(o): o was handed out earlier and may have left the pool.
ClaimBegin(c, o) ==
    /\ c \in Folders /\ o[2] <= made[o[1]] /\ Goes(c, "idle", "look")
    /\ obj' = [obj EXCEPT ![c] = o]
    /\ claimers' = [claimers EXCEPT ![o] = @ + 1]
    /\ UNCHANGED <<pool, made, usable, jobs, freed, removing>>

\* Freed: the channel the next wake closes.
ClaimFreed(c) ==
    /\ Goes(c, "look", "check")
    /\ freed' = freed \union {c}
    /\ UNCHANGED <<pool, made, usable, jobs, claimers, obj, removing>>

\* Claim fails once the worker left the pool.
ClaimCheck(c) ==
    /\ \/ Goes(c, "check", "try") /\ Has(obj[c]) /\ UNCHANGED <<claimers, obj, freed>>
       \/ /\ Leaves(c, "check", "idle") /\ ~Has(obj[c])
          /\ claimers' = [claimers EXCEPT ![obj[c]] = @ - 1] /\ freed' = freed \ {c}
    /\ UNCHANGED <<pool, made, usable, jobs, removing>>

\* The context of a Claim is over: it fails at its next check, from its sleep
\* through the top of the loop.
ClaimCanceled(c) ==
    /\ Leaves(c, "check", "idle") \/ Leaves(c, "wait", "idle")
    /\ claimers' = [claimers EXCEPT ![obj[c]] = @ - 1] /\ freed' = freed \ {c}
    /\ UNCHANGED <<pool, made, usable, jobs, removing>>

\* Mutant: the channel to wait on is taken after the compare-and-swap.
MutClaimTry(c) ==
    /\ \/ /\ Goes(c, "try", "run") /\ jobs[obj[c]] = 0
          /\ jobs' = [jobs EXCEPT ![obj[c]] = 1]
          /\ claimers' = [claimers EXCEPT ![obj[c]] = @ - 1] /\ freed' = freed \ {c}
       \/ /\ Goes(c, "try", "wait") /\ jobs[obj[c]] # 0 /\ UNCHANGED <<jobs, claimers>>
          /\ freed' = freed \union {c}
    /\ UNCHANGED <<pool, made, usable, obj, removing>>
\* The compare-and-swap of Claim.
ClaimTry(c) ==
    /\ \/ /\ Goes(c, "try", "run") /\ jobs[obj[c]] = 0
          /\ jobs' = [jobs EXCEPT ![obj[c]] = 1]
          /\ claimers' = [claimers EXCEPT ![obj[c]] = @ - 1] /\ freed' = freed \ {c}
       \/ Goes(c, "try", "wait") /\ jobs[obj[c]] # 0 /\ UNCHANGED <<jobs, claimers, freed>>
    /\ UNCHANGED <<pool, made, usable, obj, removing>>

\* The channel is closed: Claim looks again.
ClaimWoken(c) ==
    /\ c \notin freed /\ Goes(c, "wait", "look")
    /\ UNCHANGED <<pool, made, usable, jobs, claimers, obj, freed, removing>>

\* Hold counts the job a previous run left on the worker.
Hold(c, o) ==
    /\ c \in Leftovers /\ o[2] <= made[o[1]] /\ Goes(c, "idle", "run")
    /\ obj' = [obj EXCEPT ![c] = o]
    /\ jobs' = [jobs EXCEPT ![o] = @ + 1]
    /\ UNCHANGED <<pool, made, usable, claimers, freed, removing>>

-----------------------------------------------------------------------------
\* Where a caller goes when it has released its worker.
Rest(c) == IF c \in Leftovers THEN "gone" ELSE "idle"

\* Mutant: the worker is taken to be free.
MutReleased(o) == 0
\* The counter after a Release.
Released(o) == jobs[o] - 1

\* The job ends; the last one to leave a worker wakes the waiters.
Release(c) ==
    /\ Leaves(c, "run", IF Released(obj[c]) = 0 THEN "wake" ELSE Rest(c))
    /\ jobs' = [jobs EXCEPT ![obj[c]] = Released(obj[c])]
    /\ UNCHANGED <<pool, made, usable, claimers, freed, removing>>

ReleaseWake(c) ==
    /\ Goes(c, "wake", Rest(c))
    /\ wake
    /\ UNCHANGED <<pool, made, usable, jobs, claimers, obj, removing>>

-----------------------------------------------------------------------------
Registry ==
    \/ \E a \in Addrs : AddWorker(a) \/ RemoveWorker(a) \/ RemoveWake(a)
    \/ \E o \in Objs : ChangeUsable(o)
Acquire(c) == AcquireBegin(c) \/ AcquireScan(c) \/ AcquireNone(c) \/ AcquireSwap(c)
Claim(c) == ClaimFreed(c) \/ ClaimCheck(c) \/ ClaimTry(c) \/ ClaimWoken(c)
Finish(c) == Release(c) \/ ReleaseWake(c)

Next ==
    \/ Registry
    \/ \E c \in Callers : Acquire(c) \/ Claim(c) \/ ClaimCanceled(c) \/ Finish(c)
    \/ \E c \in Callers, o \in Objs : ClaimBegin(c, o) \/ Hold(c, o)

Spec == Init /\ [][Next]_vars

\* A Claim, and a RemoveWorker, run on; jobs end (a job call and a job have a
\* timeout).
Fairness ==
    /\ \A c \in Callers : WF_vars(Claim(c)) /\ WF_vars(Finish(c))
    /\ \A a \in Addrs : WF_vars(RemoveWake(a))

FairSpec == Spec /\ Fairness

-----------------------------------------------------------------------------
(* Properties *)

Claiming(c) == pc[c] \in {"look", "check", "try", "wait"}
Running(c) == pc[c] = "run"

\* The counters of a worker are the callers that run on it and that wait for
\* it, also after it left the pool (Acquire, Claim, Hold, Release).
Counted ==
    \A o \in Objs : /\ jobs[o] = Cardinality({c \in Callers : Running(c) /\ obj[c] = o})
                    /\ claimers[o] = Cardinality({c \in Callers : Claiming(c) /\ obj[c] = o})

\* Two jobs that claimed a worker never run on it together; a job of a
\* previous run may be on it too (Acquire, Claim).
OneClaim ==
    \A c, d \in Provers \union Folders :
        Running(c) /\ Running(d) /\ obj[c] = obj[d] => c = d

\* Nobody sleeps on a worker that is free or gone unless a wake that reaches
\* it is on its way (Claim takes the channel before it looks).
NoLostWakeup ==
    \A c \in freed :
        pc[c] = "wait" /\ (jobs[obj[c]] = 0 \/ ~Has(obj[c])) =>
            removing # {} \/ \E d \in Callers : pc[d] = "wake"

\* A fold that waits for its worker gets it, or learns that the worker left,
\* or another fold of the worker runs first: proves never keep it waiting (Claim,
\* Acquire).  Among the folds of one worker there is no order, which is note
\* F16 of the README.
Overtaken(c) == \E d \in Folders \ {c} : Running(d) /\ obj[d] = obj[c]
ClaimServed == \A c \in Folders : Claiming(c) ~> (~Claiming(c) \/ Overtaken(c))
=============================================================================
