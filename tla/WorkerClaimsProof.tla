------------------------- MODULE WorkerClaimsProof -------------------------
(***************************************************************************)
(* Theorems about WorkerClaims, for every set of workers, of proves, folds *)
(* and left jobs, and every number of registrations.                       *)
(***************************************************************************)
EXTENDS WorkerClaims, FiniteSetTheorems, TLAPS

\* Every variable has its type; the counters are integers here, and naturals
\* because they count (Counted).
TypeOK ==
    /\ pool \in [Addrs -> 0..MaxReg] /\ made \in [Addrs -> 1..MaxReg]
    /\ usable \subseteq Objs /\ removing \subseteq Addrs
    /\ jobs \in [Objs -> Int] /\ claimers \in [Objs -> Int]
    /\ pc \in [Callers -> {"idle", "scan", "swap", "look", "check", "try", "wait", "run", "wake", "gone"}]
    /\ obj \in [Callers -> Objs \union {NoWorker}] /\ freed \subseteq Callers
    /\ \A c \in Callers : pc[c] \in {"swap", "look", "check", "try", "wait", "run"} => obj[c] \in Objs

\* The callers whose job is on a worker, and the ones that wait for it.
RunningOn(o) == {c \in Callers : Running(c) /\ obj[c] = o}
ClaimingOn(o) == {c \in Callers : Claiming(c) /\ obj[c] = o}

\* Who is past its look at the pool, or asleep, with a channel no wake has
\* closed since it took it: when its worker left the pool meanwhile the wake of
\* RemoveWorker is still to come, and when it sleeps on a free worker the wake
\* of Release is.
WakeInv ==
    \A c \in freed :
        /\ pc[c] \in {"try", "wait"} /\ ~Has(obj[c]) => removing # {}
        /\ pc[c] = "wait" /\ jobs[obj[c]] = 0 => \E d \in Callers : pc[d] = "wake"

ClaimInv == TypeOK /\ Counted /\ OneClaim /\ WakeInv

\* One for a caller that is in the set, none for one that is not.
One(b) == IF b THEN 1 ELSE 0

\* Subsets of the callers are finite, and nothing is counted exactly when
\* nobody is there.
LEMMA Finite ==
    ASSUME NEW o
    PROVE  /\ IsFiniteSet(RunningOn(o)) /\ IsFiniteSet(ClaimingOn(o))
           /\ Cardinality(RunningOn(o)) = 0 <=> RunningOn(o) = {}
<1>1. RunningOn(o) \subseteq Callers /\ ClaimingOn(o) \subseteq Callers
    BY DEF RunningOn, ClaimingOn
<1>2. IsFiniteSet(RunningOn(o)) /\ IsFiniteSet(ClaimingOn(o))
    BY <1>1, FS_Subset, CallersAssumption DEF Callers
<1> QED
    BY <1>2, FS_EmptySet

\* A caller that enters or leaves a set of callers changes its size by one.
LEMMA Recount ==
    ASSUME NEW S, NEW T, NEW c, IsFiniteSet(S), \A d : d # c => (d \in T <=> d \in S)
    PROVE  /\ Cardinality(S) \in Nat
           /\ Cardinality(T) = Cardinality(S) + One(c \in T) - One(c \in S)
<1>1. Cardinality(S) \in Nat
    BY FS_CardinalityType
<1>2. CASE c \in T
  <2>1. T = S \cup {c}
    BY <1>2
  <2> QED
    BY <1>1, <1>2, <2>1, FS_AddElement DEF One
<1>3. CASE c \notin T
  <2>1. T = S \ {c}
    BY <1>3
  <2> QED
    BY <1>1, <1>3, <2>1, FS_RemoveElement DEF One
<1> QED
    BY <1>2, <1>3

\* A step of one caller changes the counts of a worker by its own part.
LEMMA Moved ==
    ASSUME NEW c \in Callers, NEW o,
           \A d \in Callers : d # c => pc'[d] = pc[d] /\ obj'[d] = obj[d]
    PROVE  /\ Cardinality(RunningOn(o))' =
                  Cardinality(RunningOn(o)) + One(c \in RunningOn(o)') - One(c \in RunningOn(o))
           /\ Cardinality(ClaimingOn(o))' =
                  Cardinality(ClaimingOn(o)) + One(c \in ClaimingOn(o)') - One(c \in ClaimingOn(o))
           /\ Cardinality(RunningOn(o)) \in Nat /\ Cardinality(ClaimingOn(o)) \in Nat
<1>1. \A d : d # c => (d \in RunningOn(o)' <=> d \in RunningOn(o))
    BY DEF RunningOn, Running
<1>2. \A d : d # c => (d \in ClaimingOn(o)' <=> d \in ClaimingOn(o))
    BY DEF ClaimingOn, Claiming
<1>3. IsFiniteSet(RunningOn(o)) /\ IsFiniteSet(ClaimingOn(o))
    BY Finite
<1>4. /\ Cardinality(RunningOn(o)) \in Nat
      /\ Cardinality(RunningOn(o)') =
            Cardinality(RunningOn(o)) + One(c \in RunningOn(o)') - One(c \in RunningOn(o))
    BY <1>1, <1>3, Recount
<1>5. /\ Cardinality(ClaimingOn(o)) \in Nat
      /\ Cardinality(ClaimingOn(o)') =
            Cardinality(ClaimingOn(o)) + One(c \in ClaimingOn(o)') - One(c \in ClaimingOn(o))
    BY <1>2, <1>3, Recount
<1> QED
    BY <1>4, <1>5

\* Counted, by the sets.
LEMMA CountedSets ==
    Counted <=> \A o \in Objs : /\ jobs[o] = Cardinality(RunningOn(o))
                                /\ claimers[o] = Cardinality(ClaimingOn(o))
BY DEF Counted, RunningOn, ClaimingOn

\* The counters stay right when a caller's step changes them by what it
\* changes of itself.
LEMMA CountStep ==
    ASSUME Counted, NEW c \in Callers,
           \A d \in Callers : d # c => pc'[d] = pc[d] /\ obj'[d] = obj[d],
           \A o \in Objs :
               /\ jobs'[o] = jobs[o] + One(c \in RunningOn(o)') - One(c \in RunningOn(o))
               /\ claimers'[o] = claimers[o] + One(c \in ClaimingOn(o)') - One(c \in ClaimingOn(o))
    PROVE  Counted'
<1>1. SUFFICES ASSUME NEW o \in Objs
               PROVE  jobs'[o] = Cardinality(RunningOn(o))' /\ claimers'[o] = Cardinality(ClaimingOn(o))'
    BY DEF Counted, RunningOn, ClaimingOn
<1> QED
    BY CountedSets, Moved

\* What a step that leaves callers and counters alone keeps.
LEMMA CountSame == Counted /\ UNCHANGED <<pc, obj, jobs, claimers>> => Counted'
BY DEF Counted, Running, Claiming

\* One worker is registered per address, and no call was made.
LEMMA ClaimInit == Init => ClaimInv
<1> SUFFICES ASSUME Init PROVE ClaimInv
    OBVIOUS
<1>1. TypeOK
    BY RegAssumption DEF Init, TypeOK, Objs
<1>2. Counted
  <2> SUFFICES ASSUME NEW o \in Objs
               PROVE  jobs[o] = Cardinality(RunningOn(o)) /\ claimers[o] = Cardinality(ClaimingOn(o))
      BY CountedSets
  <2>1. RunningOn(o) = {} /\ ClaimingOn(o) = {}
      BY DEF Init, RunningOn, ClaimingOn, Running, Claiming
  <2> QED
      BY <2>1, FS_EmptySet DEF Init
<1>3. OneClaim /\ WakeInv
    BY DEF Init, OneClaim, WakeInv, Running, Callers
<1> QED
    BY <1>1, <1>2, <1>3 DEF ClaimInv

\* A worker with no job counted has no caller running on it.
LEMMA FreeIsEmpty ==
    ASSUME Counted, NEW o \in Objs, jobs[o] = 0
    PROVE  \A c \in Callers : ~(Running(c) /\ obj[c] = o)
BY CountedSets, Finite DEF RunningOn

\* Every step keeps the types.
LEMMA TypeNext == TypeOK /\ [Next]_vars => TypeOK'
<1> SUFFICES ASSUME TypeOK, [Next]_vars PROVE TypeOK'
    OBVIOUS
<1> USE RegAssumption DEF TypeOK, Goes, Leaves, wake
<1>1. CASE UNCHANGED vars
    BY <1>1 DEF vars
<1>2. CASE Registry
  <2>1. ASSUME NEW a \in Addrs, AddWorker(a) PROVE TypeOK'
    BY <2>1 DEF AddWorker
  <2>2. ASSUME NEW a \in Addrs, RemoveWorker(a) \/ RemoveWake(a) PROVE TypeOK'
    BY <2>2 DEF RemoveWorker, RemoveWake
  <2>3. ASSUME NEW o \in Objs, ChangeUsable(o) PROVE TypeOK'
    BY <2>3 DEF ChangeUsable
  <2> QED
    BY <1>2, <2>1, <2>2, <2>3 DEF Registry
<1>3. ASSUME NEW c \in Callers, Acquire(c) PROVE TypeOK'
    BY <1>3 DEF Acquire, AcquireBegin, AcquireScan, AcquireNone, AcquireSwap
<1>4. ASSUME NEW c \in Callers, Claim(c) \/ ClaimCanceled(c) PROVE TypeOK'
    BY <1>4 DEF Claim, ClaimCanceled, ClaimFreed, ClaimCheck, ClaimTry, ClaimWoken
<1>5. ASSUME NEW c \in Callers, Finish(c) PROVE TypeOK'
    BY <1>5 DEF Finish, Release, ReleaseWake, Rest, Released
<1>6. ASSUME NEW c \in Callers, NEW o \in Objs, ClaimBegin(c, o) \/ Hold(c, o) PROVE TypeOK'
    BY <1>6 DEF ClaimBegin, Hold
<1> QED
    BY <1>1, <1>2, <1>3, <1>4, <1>5, <1>6 DEF Next

\* Every step changes the counters of a worker by what it changes of the
\* callers that are on it.
LEMMA CountNext == TypeOK /\ Counted /\ [Next]_vars => Counted'
<1> SUFFICES ASSUME TypeOK, Counted, [Next]_vars PROVE Counted'
    OBVIOUS
<1>1. CASE UNCHANGED vars \/ Registry
    BY <1>1, CountSame
       DEF vars, Registry, AddWorker, RemoveWorker, RemoveWake, ChangeUsable
<1> USE DEF TypeOK, Goes, Leaves, RunningOn, ClaimingOn, Running, Claiming, One
<1>2. ASSUME NEW c \in Callers, Acquire(c) PROVE Counted'
  <2>1. CASE AcquireBegin(c) \/ AcquireScan(c) \/ AcquireNone(c)
    BY <2>1, CountStep DEF AcquireBegin, AcquireScan, AcquireNone
  <2>2. CASE AcquireSwap(c)
    BY <2>2, CountStep DEF AcquireSwap
  <2> QED
    BY <1>2, <2>1, <2>2 DEF Acquire
<1>3. ASSUME NEW c \in Callers, Claim(c) \/ ClaimCanceled(c) PROVE Counted'
  <2>1. CASE ClaimFreed(c) \/ ClaimWoken(c)
    <3>1. /\ \E to \in {"check", "look"} : pc' = [pc EXCEPT ![c] = to]
          /\ pc[c] \in {"look", "wait"} /\ UNCHANGED <<obj, jobs, claimers>>
        BY <2>1 DEF ClaimFreed, ClaimWoken
    <3> QED
        BY <3>1, CountStep
  <2>2. CASE ClaimCheck(c)
    BY <2>2, CountStep DEF ClaimCheck
  <2>3. CASE ClaimTry(c)
    BY <2>3, CountStep DEF ClaimTry
  <2>4. CASE ClaimCanceled(c)
    BY <2>4, CountStep DEF ClaimCanceled
  <2> QED
    BY <1>3, <2>1, <2>2, <2>3, <2>4 DEF Claim
<1>4. ASSUME NEW c \in Callers, Finish(c) PROVE Counted'
  <2>1. CASE Release(c)
    <3>1. pc[c] = "run" /\ \E to \in {"wake", "gone", "idle"} : pc' = [pc EXCEPT ![c] = to]
        BY <2>1 DEF Release, Rest
    <3>2. /\ jobs' = [jobs EXCEPT ![obj[c]] = @ - 1] /\ claimers' = claimers
          /\ obj' = [obj EXCEPT ![c] = NoWorker]
        BY <2>1 DEF Release, Released
    <3> QED
        BY <3>1, <3>2, CountStep
  <2>2. CASE ReleaseWake(c)
    BY <2>2, CountStep DEF ReleaseWake, Rest
  <2> QED
    BY <1>4, <2>1, <2>2 DEF Finish
<1>5. ASSUME NEW c \in Callers, NEW o \in Objs, ClaimBegin(c, o) PROVE Counted'
    BY <1>5, CountStep DEF ClaimBegin
<1>6. ASSUME NEW c \in Callers, NEW o \in Objs, Hold(c, o) PROVE Counted'
    BY <1>6, CountStep DEF Hold
<1> QED
    BY <1>1, <1>2, <1>3, <1>4, <1>5, <1>6 DEF Next

\* Who takes a worker finds no job on it, so that nobody else with a claim runs
\* there; whoever waits was either awake after the change, or a wake is coming.
LEMMA ClaimNext == ClaimInv /\ [Next]_vars => ClaimInv'
<1> SUFFICES ASSUME ClaimInv, [Next]_vars PROVE ClaimInv'
    OBVIOUS
<1>0. TypeOK' /\ Counted'
    BY TypeNext, CountNext DEF ClaimInv
<1>a. SUFFICES OneClaim' /\ WakeInv'
    BY <1>0 DEF ClaimInv
<1> USE <1>0 DEF ClaimInv, TypeOK, OneClaim, WakeInv, Goes, Leaves, Running, Has
<1>b. Provers \subseteq Callers /\ Folders \subseteq Callers
    BY DEF Callers
<1>1. CASE UNCHANGED vars
    BY <1>1, <1>b DEF vars
<1>2. CASE Registry
  <2>1. ASSUME NEW a \in Addrs, AddWorker(a) PROVE OneClaim' /\ WakeInv'
    BY <2>1 DEF AddWorker, Objs
  <2>2. ASSUME NEW a \in Addrs, RemoveWorker(a) PROVE OneClaim' /\ WakeInv'
    BY <2>2 DEF RemoveWorker
  <2>3. ASSUME NEW a \in Addrs, RemoveWake(a) PROVE OneClaim' /\ WakeInv'
    BY <2>3 DEF RemoveWake, wake
  <2>4. ASSUME NEW o \in Objs, ChangeUsable(o) PROVE OneClaim' /\ WakeInv'
    BY <2>4 DEF ChangeUsable
  <2> QED
    BY <1>2, <2>1, <2>2, <2>3, <2>4 DEF Registry
<1>3. ASSUME NEW c \in Callers, Acquire(c) PROVE OneClaim' /\ WakeInv'
  <2>1. CASE AcquireBegin(c) \/ AcquireNone(c)
    BY <1>b, <2>1 DEF AcquireBegin, AcquireNone
  <2>2. CASE AcquireScan(c)
    BY <1>b, <2>2 DEF AcquireScan
  <2>3. CASE AcquireSwap(c)
    BY <1>b, <2>3, FreeIsEmpty DEF AcquireSwap
  <2> QED
    BY <1>3, <2>1, <2>2, <2>3 DEF Acquire
<1>4. ASSUME NEW c \in Callers, Claim(c) \/ ClaimCanceled(c) PROVE OneClaim' /\ WakeInv'
  <2>1. CASE ClaimFreed(c) \/ ClaimWoken(c)
    BY <1>b, <2>1 DEF ClaimFreed, ClaimWoken
  <2>2. CASE ClaimCheck(c)
    BY <1>b, <2>2 DEF ClaimCheck
  <2>3. CASE ClaimTry(c)
    BY <1>b, <2>3, FreeIsEmpty DEF ClaimTry
  <2>4. CASE ClaimCanceled(c)
    BY <1>b, <2>4 DEF ClaimCanceled
  <2> QED
    BY <1>4, <2>1, <2>2, <2>3, <2>4 DEF Claim
<1>5. ASSUME NEW c \in Callers, Finish(c) PROVE OneClaim' /\ WakeInv'
  <2>1. CASE Release(c)
    BY <1>b, <2>1 DEF Release, Released, Rest
  <2>2. CASE ReleaseWake(c)
    BY <1>b, <2>2 DEF ReleaseWake, Rest, wake
  <2> QED
    BY <1>5, <2>1, <2>2 DEF Finish
<1>6. ASSUME NEW c \in Callers, NEW o \in Objs, ClaimBegin(c, o) PROVE OneClaim' /\ WakeInv'
    BY <1>b, <1>6 DEF ClaimBegin
<1>7. ASSUME NEW c \in Callers, NEW o \in Objs, Hold(c, o) PROVE OneClaim' /\ WakeInv'
  <2>1. c \notin Provers \union Folders
    BY <1>7, CallersAssumption DEF Hold
  <2>2. jobs[o] \in Nat
    BY CountedSets, Finite, FS_CardinalityType
  <2> QED
    BY <1>b, <1>7, <2>1, <2>2 DEF Hold
<1> QED
    BY <1>1, <1>2, <1>3, <1>4, <1>5, <1>6, <1>7 DEF Next

\* The inductive invariant holds in every state.
LEMMA ClaimInvariant == Spec => []ClaimInv
BY ClaimInit, ClaimNext, PTL DEF Spec

\* Worker.jobs and Worker.claimers are the callers that run on the worker and
\* that wait for it, however calls interleave and workers come and go
\* (Acquire, Claim, Hold, Release).
THEOREM CountedHolds == Spec => []Counted
<1>1. ClaimInv => Counted
    BY DEF ClaimInv
<1> QED
    BY <1>1, ClaimInvariant, PTL

\* Two jobs that claimed a worker never run on it together (Acquire, Claim).
THEOREM OneClaimHolds == Spec => []OneClaim
<1>1. ClaimInv => OneClaim
    BY DEF ClaimInv
<1> QED
    BY <1>1, ClaimInvariant, PTL

\* Nobody sleeps on a worker that is free or gone unless a wake that reaches it
\* is on its way (Claim, Release, RemoveWorker).
THEOREM NoLostWakeupHolds == Spec => []NoLostWakeup
<1>1. ClaimInv => NoLostWakeup
    BY DEF ClaimInv, WakeInv, NoLostWakeup
<1> QED
    BY <1>1, ClaimInvariant, PTL
=============================================================================
