----------------------------- MODULE WorkerBans -----------------------------
(***************************************************************************)
(* The failure counter, the ban window and the health of one prover worker *)
(* of a WorkerManager: job results come in from the scheduler's goroutines *)
(* while the manager's ticker polls the worker, lists the banned workers   *)
(* and then bans or resets each one it listed; each atomic store is a step *)
(* of its own.  Workers do not affect each other, so one is enough.        *)
(* Module WorkerRegistry adds how it comes into the pool and leaves it.    *)
(*                                                                         *)
(* Time is kept as what is left of the ban window, in units of Advance.    *)
(***************************************************************************)
EXTENDS Integers

CONSTANTS
    FailuresToGetBanned, BanTimeout,  \* WorkerBanRules
    MaxFails                          \* bound on the counters

ASSUME RulesAssumption ==
    /\ FailuresToGetBanned \in Nat /\ BanTimeout \in Nat \ {0}
    /\ MaxFails \in Nat /\ MaxFails > FailuresToGetBanned

VARIABLES
    fails,       \* Worker.consecutiveFails
    window,      \* time left to bannedUntilNanos, 0 once it passed, -1 when it is 0
    healthy,     \* Worker.healthy: "yes" or "no"
    missed,      \* Worker.missedPolls
    tick,        \* what the ticker does next with the worker: "poll", "answered" or "missed"
                 \* (between two stores of a poll), "list", "listed", "reset" (between two
                 \* stores of a reset)
    over,        \* history: time since fails went over the limit, -1 when it is not over
    leftover     \* history: the window was not opened for the failures there are: "yes" or "no"

counters == <<fails, window, over, leftover>>
vars == <<counters, healthy, missed, tick>>

Init ==
    /\ fails = 0 /\ window = -1 /\ healthy = "no" /\ missed = 0
    /\ tick = "poll" /\ over = -1 /\ leftover = "no"

\* Worker.IsBanned
IsBanned == fails > FailuresToGetBanned \/ window > 0

-----------------------------------------------------------------------------
\* WorkerResult(address, true), also of a job that was running when other
\* calls tripped the ban: an open window stays.
Success ==
    /\ fails' = 0 /\ over' = -1
    /\ leftover' = IF window # -1 THEN "yes" ELSE leftover
    /\ UNCHANGED <<window, healthy, missed, tick>>

\* WorkerResult(address, false)
Failure ==
    /\ fails < MaxFails
    /\ fails' = fails + 1
    /\ over' = IF fails = FailuresToGetBanned THEN 0 ELSE over
    /\ UNCHANGED <<window, leftover, healthy, missed, tick>>

-----------------------------------------------------------------------------
(* The ticker *)

\* The ticker's step from one place to another.
Ticks(from, to) == tick = from /\ tick' = to

\* pollHealth stores healthy first ...
PollAnswered ==
    /\ Ticks("poll", "answered") /\ healthy' = "yes"
    /\ UNCHANGED <<counters, missed>>

PollMissed ==
    /\ Ticks("poll", "missed") /\ healthy' = "no"
    /\ UNCHANGED <<counters, missed>>

\* Mutant: an answered poll leaves the count of the missed ones.
MutPollAnsweredCount == Ticks("answered", "list") /\ UNCHANGED <<counters, healthy, missed>>
\* ... and then the count of the missed polls.
PollAnsweredCount ==
    /\ Ticks("answered", "list") /\ missed' = 0
    /\ UNCHANGED <<counters, healthy>>

\* The count is kept up to MaxFails.
PollMissedCount ==
    /\ Ticks("missed", "list") /\ missed' = IF missed < MaxFails THEN missed + 1 ELSE missed
    /\ UNCHANGED <<counters, healthy>>

\* expireBans lists the banned workers ...
ListBanned ==
    /\ Ticks("list", IF IsBanned THEN "listed" ELSE "poll")
    /\ UNCHANGED <<counters, healthy, missed>>

\* A window opened for a worker that is not over the limit is a leftover.
Opened == leftover' = IF fails > FailuresToGetBanned THEN "no" ELSE "yes"

\* Mutant: a ban is opened again at every tick.
MutBan == window' = BanTimeout /\ UNCHANGED <<fails, over>> /\ Opened
\* SetBanDuration when no window is open.
Ban == window = -1 /\ window' = BanTimeout /\ UNCHANGED <<fails, over>> /\ Opened

\* The first store of ResetWorker.
ResetWorker ==
    /\ fails' = 0 /\ over' = -1
    /\ leftover' = IF window # -1 THEN "yes" ELSE leftover
    /\ UNCHANGED window

\* Mutant: the worker is reset while its window is open.
MutReset == window # -1 /\ ResetWorker
\* The window has passed.
Reset == window = 0 /\ ResetWorker

\* ... and then bans each one whose window is not open, resets the ones whose
\* window has passed, and leaves the others.
ExpireBan ==
    /\ \/ Ban /\ Ticks("listed", "poll")
       \/ Reset /\ Ticks("listed", "reset")
       \/ window > 0 /\ Ticks("listed", "poll") /\ UNCHANGED counters
    /\ UNCHANGED <<healthy, missed>>

\* The second store of ResetWorker.
ResetWindow ==
    /\ Ticks("reset", "poll") /\ window' = -1 /\ leftover' = "no"
    /\ UNCHANGED <<fails, over, healthy, missed>>

\* Time passes; the age of the failures is kept up to BanTimeout.
Advance ==
    /\ window' = IF window > 0 THEN window - 1 ELSE window
    /\ over' = IF over \in 0..(BanTimeout - 1) THEN over + 1 ELSE over
    /\ UNCHANGED <<fails, leftover, healthy, missed, tick>>

Result == Success \/ Failure
Poll == PollAnswered \/ PollMissed \/ PollAnsweredCount \/ PollMissedCount
Expire == ListBanned \/ ExpireBan \/ ResetWindow
Tick == Poll \/ Expire

Next == Result \/ Tick \/ Advance

-----------------------------------------------------------------------------
(* Properties *)

\* A worker that failed more than FailuresToGetBanned times in a row is not
\* reset before BanTimeout has passed since, unless its window dates from
\* before those failures, which is note F1 of the README (expireBans,
\* WorkerResult).
BanServed ==
    [][ExpireBan /\ fails > FailuresToGetBanned /\ fails' = 0 /\ leftover = "no"
         => over >= BanTimeout]_vars

\* A ban ends, although failures of running jobs still come in (expireBans,
\* ResetWorker).
BanEnds == IsBanned ~> ~IsBanned
=============================================================================
