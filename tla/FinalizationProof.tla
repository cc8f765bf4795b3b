------------------------- MODULE FinalizationProof -------------------------
(***************************************************************************)
(* Theorems about Finalization, for every set of keywardens and whatever   *)
(* may fail, however often.                                                *)
(***************************************************************************)
EXTENDS Finalization, TLAPS

\* The request or the finalize of w that has Engine.finalizing and has yet to
\* give it back.
Holds(w) == handler[w] \in {"guarded", "stored"} \/ fin[w] \in {"proving", "ok", "err"}

\* finalizing.LoadOrStore lets one submission in: the guard is held exactly
\* while one of them has it, and by only one.
GuardInv ==
    /\ \A w \in Wardens : Holds(w) => guard = "held"
    /\ \A v, w \in Wardens : Holds(v) /\ Holds(w) => v = w
    /\ guard = "held" => \E w \in Wardens : Holds(w)

\* A submission past the write to finalizing is the only one, and the election
\* reads finalizing until it is through.  It is what lets the guard go before
\* the last write: no one else passes the status check meanwhile.
FlightInv ==
    /\ \A w \in Wardens : InFlight(w) => status = Finalizing
    /\ \A v, w \in Wardens : InFlight(v) /\ InFlight(w) => v = w
    /\ \A w \in Wardens : handler[w] \in {"guarded", "stored"} => fin[w] \notin {"proving", "ok", "err"}
    /\ \A w \in Wardens : handler[w] = "stored" => fin[w] = "none"

\* An election whose last write failed reads finalizing, and nobody is on the
\* way to write it again.
LostInv == Lost => status = Finalizing /\ \A w \in Wardens : ~InFlight(w)

\* A process that is down has no request, no finalize and no guard.
DownInv ==
    proc = "down" =>
        guard = "free" /\ \A w \in Wardens : handler[w] = "none" /\ fin[w] = "none"

\* A client that polls, or is about to, has failed less often in a row than it may.
PollInv == \A w \in Wardens : client[w] \in {"posting", "waiting"} => pollErrs[w] < maxPollErrs

FinInv == TypeOK /\ GuardInv /\ FlightInv /\ LostInv /\ DownInv /\ PollInv /\ FailureIsShown

\* Nothing has been submitted: every part holds.
LEMMA FinInit == Init => FinInv
BY WardenAssumption
   DEF Init, FinInv, TypeOK, GuardInv, FlightInv, LostInv, DownInv, PollInv, FailureIsShown,
       Holds, InFlight, Lost, Decrypting, Finalizing

\* Every step of a request, a finalize, a client and the process keeps the
\* types, and a client stops polling before its errors pass maxPollErrs.
LEMMA TypeNext == TypeOK /\ PollInv /\ [Next]_vars => TypeOK' /\ PollInv'
<1> SUFFICES ASSUME TypeOK, PollInv, [Next]_vars PROVE TypeOK' /\ PollInv'
    OBVIOUS
<1> USE WardenAssumption
    DEF TypeOK, PollInv, stored, process, wardens, Handles, Runs, Answers, Fault, alive, up
<1>1. CASE UNCHANGED vars
    BY <1>1 DEF vars
<1>2. CASE Process
  <2>1. CASE Stop
    BY <2>1 DEF Stop
  <2>2. CASE Stopped \/ Crash
    <3>1. /\ UNCHANGED stored /\ proc' = "down" /\ faults' \in 0..MaxFaults /\ guard' = "free"
        BY <2>2 DEF Stopped, Crash, Down
    <3>2. handler' = [w \in Wardens |-> "none"] /\ fin' = [w \in Wardens |-> "none"]
        BY <2>2 DEF Stopped, Crash, Down
    <3>3. pollErrs' = pollErrs /\ client' = [w \in Wardens |-> IF client[w] = "posting" THEN "told" ELSE client[w]]
        BY <2>2 DEF Stopped, Crash, Down
    <3> QED
        BY <3>1, <3>2, <3>3
  <2>3. CASE Restart
    BY <2>3 DEF Restart, Restored
  <2>4. CASE RestartFails
    BY <2>4 DEF RestartFails
  <2> QED
    BY <1>2, <2>1, <2>2, <2>3, <2>4 DEF Process
<1>3. ASSUME NEW w \in Wardens, Handler(w) PROVE TypeOK' /\ PollInv'
  <2>1. CASE CheckStatus(w)
    BY <2>1 DEF CheckStatus
  <2>2. CASE TakeGuard(w)
    BY <2>2 DEF TakeGuard
  <2>3. CASE StoreFinalizing(w)
    BY <2>3 DEF StoreFinalizing
  <2>4. CASE StoreFails(w)
    BY <2>4 DEF StoreFails
  <2>5. CASE Launch(w)
    BY <2>5 DEF Launch
  <2> QED
    BY <1>3, <2>1, <2>2, <2>3, <2>4, <2>5 DEF Handler
<1>4. ASSUME NEW w \in Wardens, Finalize(w) PROVE TypeOK' /\ PollInv'
  <2>1. CASE Proved(w) \/ ProveFails(w) \/ Release(w)
    BY <2>1 DEF Proved, ProveFails, Release
  <2>2. CASE FinalWrite(w)
    BY <2>2 DEF FinalWrite, Rollback
  <2>3. CASE FinalWriteFails(w)
    BY <2>3 DEF FinalWriteFails
  <2> QED
    BY <1>4, <2>1, <2>2, <2>3 DEF Finalize
<1>5. ASSUME NEW w \in Wardens, Client(w) PROVE TypeOK' /\ PollInv'
  <2>1. CASE Post(w)
    BY <2>1 DEF Post
  <2>2. CASE AnswerLost(w) \/ Fetch(w) \/ GiveUp(w)
    BY <2>2 DEF AnswerLost, Fetch, GiveUp
  <2>3. CASE Poll(w)
    BY <2>3 DEF Poll, Polled
  <2>4. CASE PollFails(w)
    BY <2>4 DEF PollFails, TooMany
  <2> QED
    BY <1>5, <2>1, <2>2, <2>3, <2>4 DEF Client
<1> QED
    BY <1>1, <1>2, <1>3, <1>4, <1>5 DEF Next

\* One submission is let in and one finalize runs, through every interleaving,
\* stop, crash and failed write.
LEMMA FinNext == FinInv /\ [Next]_vars => FinInv'
<1> SUFFICES ASSUME FinInv, [Next]_vars PROVE FinInv'
    OBVIOUS
<1>0. TypeOK' /\ PollInv'
    BY TypeNext DEF FinInv
<1>a. SUFFICES GuardInv' /\ FlightInv' /\ LostInv' /\ DownInv' /\ FailureIsShown'
    BY <1>0 DEF FinInv
<1> USE <1>0
    DEF FinInv, TypeOK, GuardInv, FlightInv, LostInv, DownInv, FailureIsShown, Holds, InFlight, Lost,
        stored, process, wardens, Handles, Runs, Answers, alive, up, Decrypting, Finalizing, Results
<1>1. CASE UNCHANGED vars
    BY <1>1 DEF vars
<1>2. CASE Process
  <2>1. CASE Stop
    BY <2>1 DEF Stop
  <2>2. CASE Stopped \/ Crash
    <3>1. UNCHANGED stored /\ proc' = "down" /\ guard' = "free"
        BY <2>2 DEF Stopped, Crash, Down
    <3>2. \A w \in Wardens : handler'[w] = "none" /\ fin'[w] = "none"
        BY <2>2 DEF Stopped, Crash, Down
    <3>3. \A w \in Wardens : client'[w] = "waiting" => client[w] = "waiting"
        BY <2>2 DEF Stopped, Crash, Down
    <3> QED
        BY <3>1, <3>2, <3>3
  <2>3. CASE Restart
    BY <2>3 DEF Restart, Restored
  <2>4. CASE RestartFails
    BY <2>4 DEF RestartFails
  <2> QED
    BY <1>2, <2>1, <2>2, <2>3, <2>4 DEF Process
<1>3. ASSUME NEW w \in Wardens, Handler(w)
      PROVE  GuardInv' /\ FlightInv' /\ LostInv' /\ DownInv' /\ FailureIsShown'
  <2>1. CASE CheckStatus(w)
    BY <2>1 DEF CheckStatus
  <2>2. CASE TakeGuard(w)
    BY <2>2 DEF TakeGuard
  <2>3. CASE StoreFinalizing(w)
    BY <2>3 DEF StoreFinalizing, MayFinalize
  <2>4. CASE StoreFails(w)
    BY <2>4 DEF StoreFails
  <2>5. CASE Launch(w)
    BY <2>5 DEF Launch
  <2> QED
    BY <1>3, <2>1, <2>2, <2>3, <2>4, <2>5 DEF Handler
<1>4. ASSUME NEW w \in Wardens, Finalize(w)
      PROVE  GuardInv' /\ FlightInv' /\ LostInv' /\ DownInv' /\ FailureIsShown'
  <2>1. CASE Proved(w) \/ ProveFails(w)
    BY <2>1 DEF Proved, ProveFails
  <2>2. CASE Release(w)
    BY <2>2 DEF Release
  <2>3. CASE FinalWrite(w)
    BY <2>3 DEF FinalWrite, Rollback
  <2>4. CASE FinalWriteFails(w)
    BY <2>4 DEF FinalWriteFails
  <2> QED
    BY <1>4, <2>1, <2>2, <2>3, <2>4 DEF Finalize
<1>5. ASSUME NEW w \in Wardens, Client(w)
      PROVE  GuardInv' /\ FlightInv' /\ LostInv' /\ DownInv' /\ FailureIsShown'
  <2>1. CASE Post(w)
    BY <2>1 DEF Post
  <2>2. CASE AnswerLost(w) \/ Fetch(w) \/ GiveUp(w) \/ PollFails(w)
    BY <2>2 DEF AnswerLost, Fetch, GiveUp, PollFails
  <2>3. CASE Poll(w)
    BY <2>3 DEF Poll, Polled
  <2> QED
    BY <1>5, <2>1, <2>2, <2>3 DEF Client
<1> QED
    BY <1>1, <1>2, <1>3, <1>4, <1>5 DEF Next

\* The inductive invariant holds in every state (SubmitDecryptionKey,
\* finalizeElection, Stop, restore, WaitForResults).
LEMMA FinInvariant == Spec => []FinInv
BY FinInit, FinNext, PTL DEF Spec

\* However many keywardens submit at once, one submission at a time is past the
\* write to finalizing, and an election that is decrypting again can be given a
\* key again (SubmitDecryptionKey, finalizeElection).
THEOREM OneFinalizeHolds == Spec => []OneFinalize
<1>1. FinInv => OneFinalize
    BY DEF FinInv, GuardInv, FlightInv, TypeOK, OneFinalize, Holds, InFlight, Decrypting, Finalizing
<1> QED
    BY <1>1, FinInvariant, PTL

\* A keywarden that waits and finds the election decrypting is shown why
\* (finalizeElection's rollback, restore, WaitForResults).
THEOREM FailureIsShownHolds == Spec => []FailureIsShown
<1>1. FinInv => FailureIsShown
    BY DEF FinInv
<1> QED
    BY <1>1, FinInvariant, PTL

\* No submission, rollback or restart takes back the results: neither the
\* write that ends a finalize nor the rollback looks at the status, and none
\* of them is on its way once the results are shown (finalizeElection, restore).
THEOREM ResultsStayHolds == Spec => ResultsStay
<1>1. FinInv /\ [Next]_vars => [status = Results => status' = Results]_vars
  <2> SUFFICES ASSUME FinInv, Next, status = Results PROVE status' = Results
      OBVIOUS
  <2> USE DEF FinInv, FlightInv, InFlight, stored, process, wardens, Decrypting, Finalizing, Results
  <2>1. CASE Process
    BY <2>1 DEF Process, Stop, Stopped, Crash, Down, Restart, Restored, RestartFails
  <2>2. ASSUME NEW w \in Wardens, Handler(w) PROVE status' = Results
    BY <2>2 DEF Handler, CheckStatus, TakeGuard, StoreFinalizing, MayFinalize, StoreFails, Launch
  <2>3. ASSUME NEW w \in Wardens, Finalize(w) PROVE status' = Results
    BY <2>3 DEF Finalize, Proved, ProveFails, Release, FinalWrite, FinalWriteFails, Runs
  <2>4. ASSUME NEW w \in Wardens, Client(w) PROVE status' = Results
    BY <2>4 DEF Client, Post, AnswerLost, Poll, PollFails, Fetch, GiveUp
  <2> QED
    BY <2>1, <2>2, <2>3, <2>4 DEF Next
<1> QED
    BY <1>1, FinInvariant, PTL DEF Spec, ResultsStay
=============================================================================
