--------------------------- MODULE WorkerRegistry ---------------------------
(***************************************************************************)
(* How one prover worker comes into the pool and leaves it: admins         *)
(* register and remove it (Engine.RegisterWorker, RemoveWorker) with       *)
(* requests that may overlap, the registration is stored next to the pool, *)
(* a write may fail, and the process may crash and rebuild the pool from   *)
(* storage.  Whatever the pool holds lives as module WorkerBans says; a    *)
(* worker registered again is a new object.                                *)
(***************************************************************************)
EXTENDS WorkerBans

CONSTANT Admins  \* concurrent requests

VARIABLES
    stored,   \* the WorkerRegistration is stored: "yes" or "no"
    pooled,   \* WorkerManager.workers has the address: "yes" or "no"
    req,      \* where the request of an admin is
    named,    \* a request gave the worker of the pool its name: "yes" or "no"
    stale,    \* requests whose AddWorker named a worker that left the pool since
    known,    \* what RegisterWorker found in the pool first: "yes" or "no"
    failed,   \* history: a write of a registration failed since the start: "yes" or "no"
    overlap   \* history: two requests overlapped since the start: "yes" or "no"

registry == <<stored, pooled, req, named, stale, known, failed, overlap>>
allVars  == <<vars, registry>>

Quiescent == \A a \in Admins : req[a] = "idle"

RegistryInit ==
    /\ Init /\ stored = "no" /\ pooled = "no"
    /\ req = [a \in Admins |-> "idle"] /\ known = [a \in Admins |-> "no"]
    /\ named = "no" /\ stale = {} /\ failed = "no" /\ overlap = "no"

\* What LeastLoaded and Acquire hand out.
Usable == pooled = "yes" /\ healthy = "yes" /\ ~IsBanned

\* WorkerManager.Lost: the fold chain has to move.
Lost == pooled = "no" \/ IsBanned \/ missed > FailuresToGetBanned

\* A request comes in, and one takes its next step.
Arrives(a, to) ==
    /\ req[a] = "idle" /\ req' = [req EXCEPT ![a] = to]
    /\ overlap' = IF Quiescent THEN overlap ELSE "yes"
Steps(a, from, to) == req[a] = from /\ req' = [req EXCEPT ![a] = to]

\* Where the ticker goes on when the object it dealt with has left the pool: its
\* stores no longer reach the pool, and expireBans still holds an object it listed.
TickOld ==
    CASE tick = "poll"                 -> {"poll", "list"}
      [] tick \in {"answered", "missed"} -> {"list"}
      [] tick = "listed"               -> {"old"}
      [] tick = "reset"                -> {"poll"}
      [] OTHER                         -> {tick}

\* The object at the address is another one, or none, and whoever is about to
\* store the one it named there holds one that left.
Leaves == tick' \in TickOld /\ stale' = stale \union {a \in Admins : req[a] = "name"}

\* A new worker; one that comes with a name is one that no request names.
Fresh ==
    /\ fails' = 0 /\ window' = -1 /\ over' = -1 /\ leftover' = "no"
    /\ healthy' = "no" /\ missed' = 0 /\ named' = "no"
Replaced == Leaves /\ Fresh

\* WorkerManager.RemoveWorker
Unpool == pooled' = "no" /\ Replaced

-----------------------------------------------------------------------------
(* Engine.RegisterWorker *)

\* The request returns, and with it what it found first.
Returns(a) == Steps(a, "added", "idle") /\ known' = [known EXCEPT ![a] = "no"]

\* The first look at the pool.
Register(a) ==
    /\ Arrives(a, "look")
    /\ known' = [known EXCEPT ![a] = pooled]
    /\ UNCHANGED <<vars, stored, pooled, named, stale, failed>>

\* AddWorker looks again and returns the worker that is there, which it first
\* gives the name, if there is one and the worker has none ...
AddWorkerFound(a) ==
    /\ pooled = "yes"
    /\ \/ Steps(a, "look", "added") /\ named' = named
       \/ named = "no" /\ Steps(a, "look", "name") /\ named' = "yes"
    /\ UNCHANGED <<vars, stored, pooled, stale, known, failed, overlap>>

AddWorkerMissing(a) ==
    /\ pooled = "no" /\ Steps(a, "look", "add")
    /\ UNCHANGED <<vars, stored, pooled, named, stale, known, failed, overlap>>

\* ... and then stores again: a worker that left the pool meanwhile is back, over
\* whatever there is by then, with the failures, the window and the health it has.
AddWorkerNamed(a) ==
    /\ Steps(a, "name", "added")
    /\ \/ a \notin stale /\ UNCHANGED <<vars, pooled, named, stale>>
       \/ /\ a \in stale /\ pooled' = "yes" /\ named' = "yes"
          /\ tick' \in TickOld /\ stale' = {b \in Admins \ {a} : req[b] = "name"}
          /\ fails' \in 0..MaxFails /\ window' \in -1..BanTimeout
          /\ over' = IF fails' > FailuresToGetBanned THEN 0 ELSE -1
          /\ leftover' = IF window' # -1 THEN "yes" ELSE "no"
          /\ healthy' \in {"yes", "no"} /\ missed' \in 0..MaxFails
    /\ UNCHANGED <<stored, known, failed, overlap>>

\* ... or stores a new one, over one that another request added meanwhile.
AddWorkerStore(a) ==
    /\ Steps(a, "add", "added") /\ pooled' = "yes" /\ Replaced
    /\ UNCHANGED <<stored, known, failed, overlap>>

\* Mutant: the registration is only stored for a worker that was not known.
MutSetWorker(a) ==
    /\ Returns(a) /\ stored' = IF known[a] = "no" THEN "yes" ELSE stored
    /\ UNCHANGED <<vars, pooled, named, stale, failed, overlap>>
SetWorker(a) ==
    /\ Returns(a) /\ stored' = "yes"
    /\ UNCHANGED <<vars, pooled, named, stale, failed, overlap>>

\* A worker that was not known leaves the pool again.
Undo(a) == IF known[a] = "no" THEN Unpool ELSE UNCHANGED <<vars, pooled, named, stale>>

SetWorkerFails(a) ==
    /\ Returns(a) /\ failed' = "yes" /\ Undo(a)
    /\ UNCHANGED <<stored, overlap>>

-----------------------------------------------------------------------------
(* Engine.RemoveWorker *)

\* The worker is looked up by its ID; without one the request fails.
Remove(a) ==
    /\ pooled = "yes" /\ Arrives(a, "found")
    /\ UNCHANGED <<vars, stored, pooled, named, stale, known, failed>>

DeleteWorker(a) ==
    /\ Steps(a, "found", "deleted") /\ stored' = "no"
    /\ UNCHANGED <<vars, pooled, named, stale, known, failed, overlap>>

DeleteWorkerFails(a) ==
    /\ Steps(a, "found", "idle") /\ failed' = "yes"
    /\ UNCHANGED <<vars, stored, pooled, named, stale, known, overlap>>

RemoveWorker(a) ==
    /\ Steps(a, "deleted", "idle") /\ Unpool
    /\ UNCHANGED <<stored, known, failed, overlap>>

-----------------------------------------------------------------------------
\* A worker of the pool; expireBans, WorkerResult and the polls find it there.
InPool == pooled = "yes" /\ (Result \/ Tick \/ Advance) /\ UNCHANGED registry

\* expireBans goes on with an object that left the pool: it reads that one's
\* window, and bans or resets whatever worker is at the address by then.
ExpireOld ==
    /\ \/ /\ pooled = "yes" /\ Ticks("old", "poll")
          /\ window' = BanTimeout /\ Opened /\ UNCHANGED <<fails, over>>
       \/ pooled = "yes" /\ Ticks("old", "reset") /\ ResetWorker
       \/ Ticks("old", "poll") /\ UNCHANGED counters
    /\ UNCHANGED <<healthy, missed, registry>>

\* The process stops and starts again; restoreWorkers adds the stored worker.
Restart ==
    /\ pooled' = stored
    /\ req' = [a \in Admins |-> "idle"] /\ known' = [a \in Admins |-> "no"]
    /\ stale' = {} /\ failed' = "no" /\ overlap' = "no"
    /\ Fresh /\ tick' = "poll"
    /\ UNCHANGED stored

RegisterSteps(a) ==
    \/ Register(a) \/ AddWorkerFound(a) \/ AddWorkerNamed(a) \/ AddWorkerMissing(a)
    \/ AddWorkerStore(a) \/ SetWorker(a) \/ SetWorkerFails(a)
RemoveSteps(a) == Remove(a) \/ DeleteWorker(a) \/ DeleteWorkerFails(a) \/ RemoveWorker(a)

RegistryNext == InPool \/ ExpireOld \/ Restart \/ \E a \in Admins : RegisterSteps(a) \/ RemoveSteps(a)

\* The ticker, one goroutine, runs on and time passes.
RegistrySpec ==
    /\ RegistryInit /\ [][RegistryNext]_allVars
    /\ WF_allVars(InPool /\ Tick) /\ WF_allVars(InPool /\ Advance) /\ WF_allVars(ExpireOld)

-----------------------------------------------------------------------------
(* Properties *)

\* Whenever no request is running, pool and stored registration agree as long as
\* requests came one after the other, whatever writes failed and wherever the
\* process stopped; and requests that overlapped leave no worker in the pool
\* that the next start would lose, unless a write failed (RegisterWorker,
\* RemoveWorker, AddWorker, restoreWorkers).
RegistryAgrees ==
    Quiescent =>
        /\ overlap = "no" => pooled = stored
        /\ failed = "no" /\ pooled = "yes" => stored = "yes"

\* No job fails, no poll is missed, no request runs and the process goes on.
Calm == fails' <= fails /\ tick' # "missed" /\ UNCHANGED registry /\ ~Restart

\* Once its polls are answered and no job fails, a worker of the pool comes back
\* and stays: it is handed out, and a fold chain need not leave it, whatever
\* bans, windows, missed polls and half-done resets it had (pollHealth,
\* expireBans, ResetWorker, LeastLoaded, Lost).
WorkerRecovers == <>[][Calm]_allVars => <>[](pooled = "yes" => Usable /\ ~Lost)
=============================================================================
