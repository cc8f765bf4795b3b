------------------------ MODULE WorkerRegistryProof ------------------------
(***************************************************************************)
(* Theorems about WorkerRegistry, and through it about WorkerBans, for     *)
(* every number of concurrent requests and every setting of the ban rules. *)
(***************************************************************************)
EXTENDS WorkerRegistry, TLAPS

\* Every variable of the worker has its type.
BanTypes ==
    /\ fails \in 0..MaxFails /\ window \in -1..BanTimeout /\ over \in -1..BanTimeout
    /\ healthy \in {"yes", "no"} /\ missed \in 0..MaxFails
    /\ tick \in {"poll", "answered", "missed", "list", "listed", "reset", "old"}
    /\ leftover \in {"yes", "no"}

\* Every variable of the registry has its type.
RegistryTypes ==
    /\ stored \in {"yes", "no"} /\ pooled \in {"yes", "no"}
    /\ failed \in {"yes", "no"} /\ overlap \in {"yes", "no"}
    /\ req \in [Admins -> {"idle", "look", "name", "add", "added", "found", "deleted"}]
    /\ known \in [Admins -> {"yes", "no"}]
    /\ named \in {"yes", "no"} /\ stale \subseteq {a \in Admins : req[a] = "name"}

\* The failures are timed from the one that went over the limit; a window that
\* was opened for them ends no earlier than BanTimeout after that.
WindowInv ==
    /\ fails > FailuresToGetBanned <=> over # -1
    /\ window # -1 /\ leftover = "no" => over # -1 /\ over + window >= BanTimeout

BanInv == BanTypes /\ WindowInv

\* Where a request that was alone since the start stands, and what it left of
\* pool and storage so far.
AloneAt(a) ==
    /\ req[a] = "look"    => known[a] = pooled /\ pooled = stored
    /\ req[a] = "add"     => known[a] = "no" /\ pooled = "no" /\ stored = "no"
    /\ req[a] = "name"    => pooled = "yes" /\ known[a] = stored
    /\ req[a] = "added"   => pooled = "yes" /\ known[a] = stored
    /\ req[a] = "found"   => pooled = "yes" /\ stored = "yes"
    /\ req[a] = "deleted" => stored = "no"

\* As long as no two requests overlapped one is under way at most, and pool and
\* storage differ only where that one is.
AloneInv ==
    overlap = "no" =>
        /\ \A a, b \in Admins : req[a] # "idle" /\ req[b] # "idle" => a = b
        /\ stale = {} /\ (Quiescent => pooled = stored)
        /\ \A a \in Admins : AloneAt(a)

\* A worker in the pool that is not stored has a request that will store it or
\* take it out of the pool.
OwedInv ==
    failed = "no" /\ pooled = "yes" /\ stored = "no" =>
        \E a \in Admins : req[a] \in {"added", "deleted"}

RegistryInv == RegistryTypes /\ AloneInv /\ OwedInv

\* Nothing is registered, and no worker has failed.
LEMMA RegistryStart == RegistryInit => BanInv /\ RegistryInv
BY RulesAssumption
   DEF RegistryInit, Init, BanInv, BanTypes, WindowInv, RegistryInv, RegistryTypes,
       AloneInv, AloneAt, OwedInv, Quiescent

\* Job results, polls, the two halves of expireBans and time keep the ban of a
\* worker in agreement with its failures.
LEMMA BanStep == BanInv /\ Next => BanInv'
<1> SUFFICES ASSUME BanInv, Next PROVE BanInv'
    OBVIOUS
<1> USE RulesAssumption DEF BanInv, BanTypes, WindowInv, counters
<1>1. CASE Success
    BY <1>1 DEF Success
<1>2. CASE Failure
    BY <1>2 DEF Failure
<1>3. CASE Poll \/ ListBanned
    BY <1>3
       DEF Poll, PollAnswered, PollMissed, PollAnsweredCount, PollMissedCount, ListBanned, Ticks
<1>4. CASE ExpireBan
    BY <1>4 DEF ExpireBan, Ban, Opened, Reset, ResetWorker, Ticks
<1>5. CASE ResetWindow
    BY <1>5 DEF ResetWindow, Ticks
<1>6. CASE Advance
    BY <1>6 DEF Advance
<1> QED
    BY <1>1, <1>2, <1>3, <1>4, <1>5, <1>6 DEF Next, Result, Tick, Expire

\* So do the steps that put another worker, or none, at the address.
LEMMA BanRegistryStep == BanInv /\ RegistryTypes /\ [RegistryNext]_allVars => BanInv'
<1> SUFFICES ASSUME BanInv, RegistryTypes, [RegistryNext]_allVars PROVE BanInv'
    OBVIOUS
<1>a. ASSUME UNCHANGED vars PROVE BanInv'
    BY <1>a DEF vars, counters, BanInv, BanTypes, WindowInv
<1>b. ASSUME Replaced PROVE BanInv'
    BY <1>b, RulesAssumption DEF Replaced, Leaves, TickOld, Fresh, BanInv, BanTypes, WindowInv
<1>1. CASE UNCHANGED allVars
    BY <1>1, <1>a DEF allVars
<1>2. CASE InPool
    BY <1>2, BanStep DEF InPool, Next
<1>3. CASE ExpireOld
    BY <1>3, RulesAssumption
       DEF ExpireOld, Opened, ResetWorker, Ticks, BanInv, BanTypes, WindowInv, counters
<1>4. CASE Restart
    BY <1>4, RulesAssumption DEF Restart, Fresh, BanInv, BanTypes, WindowInv
<1>5. ASSUME NEW a \in Admins, RegisterSteps(a) PROVE BanInv'
  <2>1. CASE AddWorkerNamed(a)
    BY <2>1, <1>a, RulesAssumption DEF AddWorkerNamed, TickOld, BanInv, BanTypes, WindowInv
  <2>2. CASE ~AddWorkerNamed(a)
    BY <1>5, <1>a, <1>b, <2>2
       DEF RegisterSteps, Register, AddWorkerFound, AddWorkerMissing, AddWorkerStore, SetWorker,
           SetWorkerFails, Undo, Unpool
  <2> QED
    BY <2>1, <2>2
<1>6. ASSUME NEW a \in Admins, RemoveSteps(a) PROVE BanInv'
    BY <1>6, <1>a, <1>b DEF RemoveSteps, Remove, DeleteWorker, DeleteWorkerFails, RemoveWorker, Unpool
<1> QED
    BY <1>1, <1>2, <1>3, <1>4, <1>5, <1>6 DEF RegistryNext

\* Requests, failed writes and restarts keep pool and storage in agreement up
\* to the requests that are still under way.
LEMMA RegistryStep == RegistryInv /\ [RegistryNext]_allVars => RegistryInv'
<1> SUFFICES ASSUME RegistryInv, [RegistryNext]_allVars PROVE RegistryInv'
    OBVIOUS
<1> USE DEF RegistryInv, RegistryTypes, AloneInv, AloneAt, OwedInv, Quiescent
<1>1. CASE UNCHANGED registry
    BY <1>1 DEF registry
<1>2. CASE Restart
    BY <1>2 DEF Restart, Fresh
<1> USE DEF Arrives, Steps, Returns, Replaced, Leaves, Fresh
<1>3. ASSUME NEW a \in Admins, RegisterSteps(a) PROVE RegistryInv'
  <2>1. CASE Register(a)
    BY <2>1 DEF Register
  <2>2. CASE AddWorkerFound(a)
    BY <2>2 DEF AddWorkerFound
  <2>7. CASE AddWorkerNamed(a)
    BY <2>7 DEF AddWorkerNamed
  <2>3. CASE AddWorkerMissing(a)
    BY <2>3 DEF AddWorkerMissing
  <2>4. CASE AddWorkerStore(a)
    BY <2>4 DEF AddWorkerStore
  <2>5. CASE SetWorker(a)
    BY <2>5 DEF SetWorker
  <2>6. CASE SetWorkerFails(a)
    BY <2>6 DEF SetWorkerFails, Undo, Unpool
  <2> QED
    BY <1>3, <2>1, <2>2, <2>3, <2>4, <2>5, <2>6, <2>7 DEF RegisterSteps
<1>4. ASSUME NEW a \in Admins, RemoveSteps(a) PROVE RegistryInv'
  <2>1. CASE Remove(a)
    BY <2>1 DEF Remove
  <2>2. CASE DeleteWorker(a)
    BY <2>2 DEF DeleteWorker
  <2>3. CASE DeleteWorkerFails(a)
    BY <2>3 DEF DeleteWorkerFails
  <2>4. CASE RemoveWorker(a)
    BY <2>4 DEF RemoveWorker, Unpool
  <2> QED
    BY <1>4, <2>1, <2>2, <2>3, <2>4 DEF RemoveSteps
<1>5. CASE UNCHANGED allVars
    BY <1>1, <1>5 DEF allVars
<1> QED
    BY <1>1, <1>2, <1>3, <1>4, <1>5 DEF RegistryNext, InPool, ExpireOld

\* Both inductive invariants hold in every state.
LEMMA RegistryInvariant == RegistrySpec => [](BanInv /\ RegistryInv)
<1>1. BanInv /\ RegistryInv /\ [RegistryNext]_allVars => (BanInv /\ RegistryInv)'
    BY BanRegistryStep, RegistryStep DEF RegistryInv
<1> QED
    BY RegistryStart, <1>1, PTL DEF RegistrySpec

\* Whenever no request is running pool and storage agree, as far as the requests
\* came one by one or every write succeeded (RegisterWorker, RemoveWorker,
\* AddWorker, restoreWorkers).
THEOREM RegistryAgreesHolds == RegistrySpec => []RegistryAgrees
<1>1. RegistryInv => RegistryAgrees
    BY DEF RegistryInv, RegistryTypes, AloneInv, OwedInv, RegistryAgrees, Quiescent
<1> QED
    BY <1>1, RegistryInvariant, PTL

\* A worker over the limit is reset only once BanTimeout has passed since it
\* went over, unless its window is older than its failures, whatever job
\* results come in between the two halves of expireBans (expireBans,
\* WorkerResult, ResetWorker).
THEOREM BanServedHolds == RegistrySpec => BanServed
<1>1. BanInv /\ [RegistryNext]_allVars =>
        [ExpireBan /\ fails > FailuresToGetBanned /\ fails' = 0 /\ leftover = "no"
           => over >= BanTimeout]_vars
    BY RulesAssumption DEF BanInv, BanTypes, WindowInv, ExpireBan, Ban, Reset, counters
<1> QED
    BY <1>1, RegistryInvariant, PTL DEF RegistrySpec, BanServed
=============================================================================
