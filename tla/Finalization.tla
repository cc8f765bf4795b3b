---------------------------- MODULE Finalization ----------------------------
(***************************************************************************)
(* From the published ciphertext to the results: keywardens submit the     *)
(* decryption key of one election at the same time and follow the election *)
(* to its results (keywarden.Client), the engine lets one submission       *)
(* through, finalizes in the background and takes the election back when   *)
(* that fails.  Answers get lost, and the process stops, crashes and       *)
(* starts again.                                                           *)
(*                                                                         *)
(* Key and ciphertext are abstracted away (a wrong key is refused before   *)
(* any state changes); what the finalize computes is in module Election,   *)
(* the fold chain it drives in module FoldChain.                           *)
(***************************************************************************)
EXTENDS ElectionTypes

CONSTANTS
    Wardens,      \* keywardens, each with one submission at a time
    maxPollErrs,  \* failed polls in a row that end WaitForResults
    Faulty,       \* what may fail, a subset of Faults
    MaxFaults     \* how often

\* A failing write of the status (before the finalize, and after it), an answer that gets
\* lost, a stop and a crash of the process.
Faults == {"Store", "Final", "Net", "Stop", "Crash"}

ASSUME WardenAssumption == maxPollErrs \in Nat \ {0} /\ Faulty \subseteq Faults /\ MaxFaults \in Nat

VARIABLES
    \* Persisted.
    status,     \* Election.Status, from decrypting on
    reason,     \* Election.FinalizeError: "none", "failed" or "interrupted"
    results,    \* the Results record is stored: "yes" or "no"
    \* The engine.
    proc,       \* the process: up, stopping or down
    faults,     \* faults so far
    guard,      \* Engine.finalizing: "free" or "held"
    handler,    \* SubmitDecryptionKey of each keywarden's request
    fin,        \* the finalizeElection goroutine its request started
    \* The keywardens.
    client,     \* what each one is doing: idle, posting, waiting, fetching, told or done
    pollErrs    \* failed polls in a row

stored  == <<status, reason, results>>
process == <<proc, faults>>
wardens == <<client, pollErrs>>
vars    == <<stored, process, guard, handler, fin, wardens>>

up == proc = "up"
alive == proc # "down"

Fault(f) == f \in Faulty /\ faults < MaxFaults /\ faults' = faults + 1

Init ==
    /\ status = Decrypting /\ reason = "none" /\ results = "no"
    /\ proc = "up" /\ faults = 0 /\ guard = "free"
    /\ handler = [w \in Wardens |-> "none"] /\ fin = [w \in Wardens |-> "none"]
    /\ client = [w \in Wardens |-> "idle"] /\ pollErrs = [w \in Wardens |-> 0]

\* A step of the request of keywarden w, and of its finalize.
Handles(w, from, to) == handler[w] = from /\ handler' = [handler EXCEPT ![w] = to]
Runs(w, from, to) == fin[w] = from /\ fin' = [fin EXCEPT ![w] = to]

\* The answer reaches a client that still waits for it.
Answers(w, to) == client' = [client EXCEPT ![w] = IF @ = "posting" THEN to ELSE @]

-----------------------------------------------------------------------------
(* Engine.SubmitDecryptionKey *)

\* Client.SubmitDecryptionKey; the request reaches the engine.
Post(w) ==
    /\ up /\ client[w] \in {"idle", "told"} /\ Handles(w, "none", "arrived")
    /\ client' = [client EXCEPT ![w] = "posting"]
    /\ pollErrs' = [pollErrs EXCEPT ![w] = 0]
    /\ UNCHANGED <<stored, process, guard, fin>>

\* The status, and the key, are checked.
CheckStatus(w) ==
    /\ alive
    /\ \/ status = Decrypting /\ Handles(w, "arrived", "checked") /\ client' = client
       \/ status # Decrypting /\ Handles(w, "arrived", "none") /\ Answers(w, "told")
    /\ UNCHANGED <<stored, process, guard, fin, pollErrs>>

\* Two requests may both have seen decrypting: one gets the guard.
TakeGuard(w) ==
    /\ alive
    /\ \/ /\ guard = "free" /\ guard' = "held"
          /\ Handles(w, "checked", "guarded") /\ client' = client
       \/ /\ guard = "held" /\ guard' = guard
          /\ Handles(w, "checked", "none") /\ Answers(w, "told")
    /\ UNCHANGED <<stored, process, fin, pollErrs>>

\* Mutant: only a running finalize is looked for.
MutMayFinalizeAgain == status # Finalizing
\* The check in the UpdateElection to finalizing.
MayFinalize == status = Decrypting

\* The election moves to finalizing, and the reason of an earlier failure goes.
StoreFinalizing(w) ==
    /\ alive /\ MayFinalize /\ Handles(w, "guarded", "stored")
    /\ status' = Finalizing /\ reason' = "none"
    /\ UNCHANGED <<results, process, guard, fin, wardens>>

\* That write fails: the guard is given back.
StoreFails(w) ==
    /\ alive /\ Handles(w, "guarded", "none")
    /\ IF MayFinalize THEN Fault("Store") ELSE faults' = faults
    /\ guard' = "free" /\ Answers(w, "told")
    /\ UNCHANGED <<stored, proc, fin, pollErrs>>

\* goBackground starts the finalize; once the engine stops it refuses to.
Launch(w) ==
    /\ alive /\ Handles(w, "stored", "none")
    /\ \/ up /\ Runs(w, "none", "proving") /\ Answers(w, "waiting") /\ guard' = guard
       \/ ~up /\ guard' = "free" /\ Answers(w, "told") /\ fin' = fin
    /\ UNCHANGED <<stored, process, pollErrs>>

-----------------------------------------------------------------------------
(* Engine.finalizeElection *)

\* Scheduler.Finalize stores the results ...
Proved(w) ==
    /\ alive /\ Runs(w, "proving", "ok")
    /\ results' = "yes"
    /\ UNCHANGED <<status, reason, process, guard, handler, wardens>>

\* ... or fails.
ProveFails(w) ==
    /\ alive /\ Runs(w, "proving", "err")
    /\ UNCHANGED <<stored, process, guard, handler, wardens>>

\* Mutant: a failed finalize keeps the guard.
MutRelease(w) ==
    /\ alive /\ guard' = IF fin[w] = "ok" THEN "free" ELSE guard
    /\ Runs(w, "ok", "okFree") \/ Runs(w, "err", "errFree")
    /\ UNCHANGED <<stored, process, handler, wardens>>
\* The guard is given back before the status moves on.
Release(w) ==
    /\ alive /\ guard' = "free"
    /\ Runs(w, "ok", "okFree") \/ Runs(w, "err", "errFree")
    /\ UNCHANGED <<stored, process, handler, wardens>>

\* Mutant: the status goes back without the reason.
MutRollback(w) == status' = Decrypting /\ reason' = reason
\* The failed finalize in the election's record.
Rollback(w) == status' = Decrypting /\ reason' \in {"failed"} \cup (IF up THEN {} ELSE {"interrupted"})

\* The election shows its results, or is decrypting again; whoever writes that
\* does not look at the status.
FinalWrite(w) ==
    /\ alive
    /\ \/ Runs(w, "okFree", "none") /\ status' = Results /\ reason' = reason
       \/ Runs(w, "errFree", "none") /\ Rollback(w)
    /\ UNCHANGED <<results, process, guard, handler, wardens>>

\* That write fails and is not tried again: the election reads finalizing
\* until the next start.
FinalWriteFails(w) ==
    /\ alive /\ Fault("Final")
    /\ Runs(w, "okFree", "lost") \/ Runs(w, "errFree", "lost")
    /\ UNCHANGED <<stored, proc, guard, handler, wardens>>

-----------------------------------------------------------------------------
(* Client.SubmitDecryptionKey and Client.WaitForResults *)

\* The answer to the key is lost: the client gives up, the engine does not.
AnswerLost(w) ==
    /\ Fault("Net") /\ client[w] = "posting"
    /\ client' = [client EXCEPT ![w] = "told"]
    /\ UNCHANGED <<stored, proc, guard, handler, fin, pollErrs>>

\* What a poll makes of the election it got.
Polled(w) ==
    CASE status = Results     -> "fetching"
      [] reason # "none"          -> "told"
      [] status # Finalizing  -> "told"
      [] OTHER                -> "waiting"

Poll(w) ==
    /\ alive /\ client[w] = "waiting"
    /\ client' = [client EXCEPT ![w] = Polled(w)]
    /\ pollErrs' = [pollErrs EXCEPT ![w] = 0]
    /\ UNCHANGED <<stored, process, guard, handler, fin>>

TooMany(w) == pollErrs[w] + 1 >= maxPollErrs

\* A poll fails, because nobody listens or its answer is lost.
PollFails(w) ==
    /\ client[w] = "waiting"
    /\ IF alive THEN Fault("Net") ELSE faults' = faults
    /\ pollErrs' = [pollErrs EXCEPT ![w] = @ + 1]
    /\ client' = [client EXCEPT ![w] = IF TooMany(w) THEN "told" ELSE @]
    /\ UNCHANGED <<stored, proc, guard, handler, fin>>

\* Client.Results, not tried again if it fails.
Fetch(w) ==
    /\ client[w] = "fetching"
    /\ \/ alive /\ results = "yes" /\ client' = [client EXCEPT ![w] = "done"] /\ faults' = faults
       \/ /\ IF alive THEN Fault("Net") ELSE faults' = faults
          /\ client' = [client EXCEPT ![w] = "told"]
    /\ UNCHANGED <<stored, proc, guard, handler, fin, pollErrs>>

\* The deadline of WaitForResults.
GiveUp(w) ==
    /\ client[w] = "waiting"
    /\ client' = [client EXCEPT ![w] = "told"]
    /\ UNCHANGED <<stored, process, guard, handler, fin, pollErrs>>

-----------------------------------------------------------------------------
(* The process *)

\* The memory is gone, and the requests with it.
Down ==
    /\ proc' = "down" /\ guard' = "free"
    /\ handler' = [w \in Wardens |-> "none"] /\ fin' = [w \in Wardens |-> "none"]
    /\ client' = [w \in Wardens |-> IF client[w] = "posting" THEN "told" ELSE client[w]]
    /\ UNCHANGED <<stored, pollErrs>>

\* Engine.Stop, which waits for the finalize in flight.
Stop ==
    /\ up /\ Fault("Stop") /\ proc' = "stopping"
    /\ UNCHANGED <<stored, guard, handler, fin, wardens>>

Stopped == proc = "stopping" /\ (\A w \in Wardens : fin[w] \in {"none", "lost"}) /\ Down /\ faults' = faults

Crash == alive /\ Fault("Crash") /\ Down

\* Mutant: an interrupted finalize is taken to be running.
MutRestored == UNCHANGED <<status, reason>>
\* restore takes an election whose finalize died back to decrypting.
Restored ==
    IF status = Finalizing
    THEN status' = Decrypting /\ reason' = "interrupted"
    ELSE UNCHANGED <<status, reason>>

Restart ==
    /\ ~alive /\ proc' = "up" /\ Restored
    /\ UNCHANGED <<results, faults, guard, handler, fin, wardens>>

\* That write fails, and is not tried again either.
RestartFails ==
    /\ ~alive /\ proc' = "up" /\ status = Finalizing /\ Fault("Final")
    /\ fin' = [w \in Wardens |-> "lost"]
    /\ UNCHANGED <<stored, guard, handler, wardens>>

-----------------------------------------------------------------------------
Handler(w) == CheckStatus(w) \/ TakeGuard(w) \/ StoreFinalizing(w) \/ StoreFails(w) \/ Launch(w)
Finalize(w) == Proved(w) \/ ProveFails(w) \/ Release(w) \/ FinalWrite(w) \/ FinalWriteFails(w)
Client(w) == Post(w) \/ AnswerLost(w) \/ Poll(w) \/ PollFails(w) \/ Fetch(w) \/ GiveUp(w)
Process == Stop \/ Stopped \/ Crash \/ Restart \/ RestartFails

Next == Process \/ \E w \in Wardens : Handler(w) \/ Finalize(w) \/ Client(w)

Spec == Init /\ [][Next]_vars

\* The goroutines run on (every job and call has a timeout), a client that
\* waits polls, and the service is started again.  Nobody needs to submit a
\* key, and a finalize may fail every time.
Fairness ==
    /\ \A w \in Wardens : WF_vars(Handler(w)) /\ WF_vars(Finalize(w)) /\ WF_vars(Poll(w)) /\ WF_vars(Fetch(w))
    /\ WF_vars(Stopped) /\ WF_vars(Restart)

FairSpec == Spec /\ Fairness

-----------------------------------------------------------------------------
(* Properties *)

\* Between the write to finalizing and the write that ends it.
InFlight(w) == handler[w] = "stored" \/ fin[w] \notin {"none", "lost"}

\* The write that should have taken the election out of finalizing failed.
Lost == \E w \in Wardens : fin[w] = "lost"

\* Every variable has its type.
TypeOK ==
    /\ status \in {Decrypting, Finalizing, Results} /\ reason \in {"none", "failed", "interrupted"}
    /\ results \in {"yes", "no"} /\ proc \in {"up", "stopping", "down"} /\ faults \in 0..MaxFaults
    /\ guard \in {"free", "held"}
    /\ handler \in [Wardens -> {"none", "arrived", "checked", "guarded", "stored"}]
    /\ fin \in [Wardens -> {"none", "proving", "ok", "err", "okFree", "errFree", "lost"}]
    /\ client \in [Wardens -> {"idle", "posting", "waiting", "fetching", "told", "done"}]
    /\ pollErrs \in [Wardens -> 0..maxPollErrs]

\* Only one submission at a time is past the write to finalizing, so that its
\* rollback cannot undo what another one stored; and who sees the election
\* decrypting again can submit its key again, the guard being held then only
\* by a submission that came since (SubmitDecryptionKey, finalizeElection).
OneFinalize ==
    /\ \A v, w \in Wardens : InFlight(v) /\ InFlight(w) => v = w
    /\ status = Decrypting /\ guard = "held" => \E w \in Wardens : handler[w] = "guarded"

\* A keywarden whose key was taken and that finds the election decrypting is
\* shown why (WaitForResults, SubmitDecryptionKey).
FailureIsShown ==
    \A w \in Wardens : client[w] = "waiting" /\ status = Decrypting => reason # "none"

\* Results stay, whoever still has a submission or a rollback on its way.
ResultsStay == [][status = Results => status' = Results]_vars

\* A finalize ends: the election reaches its results or can be given a key
\* again, also when the engine stops or dies meanwhile, unless the write that
\* says so failed (SubmitDecryptionKey, finalizeElection, Stop, restore).
FinalizeEnds == status = Finalizing ~> status # Finalizing \/ Lost
=============================================================================
