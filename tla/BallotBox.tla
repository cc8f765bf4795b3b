----------------------------- MODULE BallotBox -----------------------------
(***************************************************************************)
(* What an election promises its voters, without batches, folds, buffers,  *)
(* status writes or crashes: votes are cast one after the other while it   *)
(* is open, of two votes with the same vote-ID key one is refused, the     *)
(* last valid vote of a slot is the one counted, and what was published    *)
(* does not change.  Module ElectionRefinement shows that Election keeps   *)
(* this promise.                                                           *)
(***************************************************************************)
EXTENDS Naturals, FiniteSets

CONSTANTS
    Votes,  \* the votes that may be cast
    Slot,   \* the ballot slot of the voter who casts a vote
    Key     \* the vote-ID key of a vote

VARIABLES
    phase,   \* none, open, closed, published, announced or canceled
    castAt,  \* the turn a vote was cast in, 0 before
    void,    \* the votes that do not count
    box,     \* the votes behind the published ciphertext
    tally    \* the votes the results count

vars == <<phase, castAt, void, box, tally>>

Cast  == {v \in Votes : castAt[v] # 0}
Valid == Cast \ void

\* The votes that count: the last valid one of every slot.
Latest == {v \in Valid : \A u \in Valid : Slot[u] = Slot[v] => castAt[u] <= castAt[v]}

Init ==
    /\ phase = "none" /\ castAt = [v \in Votes |-> 0]
    /\ void = {} /\ box = {} /\ tally = {}

Open ==
    /\ phase = "none" /\ phase' = "open"
    /\ UNCHANGED <<castAt, void, box, tally>>

CastVote(v) ==
    /\ phase = "open" /\ v \notin Cast
    /\ castAt' = [castAt EXCEPT ![v] = Cardinality(Cast) + 1]
    /\ UNCHANGED <<phase, void, box, tally>>

\* Votes are refused while a valid vote with the key of each of them stays.
Refuse(vs) ==
    /\ phase \in {"open", "closed"}
    /\ \A v \in vs : \E u \in Valid \ vs : Key[u] = Key[v]
    /\ void' = void \union vs
    /\ UNCHANGED <<phase, castAt, box, tally>>

Close ==
    /\ phase = "open" /\ phase' = "closed"
    /\ UNCHANGED <<castAt, void, box, tally>>

\* The encrypted results: from here on nothing is refused any more.
Publish ==
    /\ phase = "closed" /\ phase' = "published"
    /\ box' = Latest
    /\ UNCHANGED <<castAt, void, tally>>

Count ==
    /\ phase = "published" /\ tally' = box
    /\ UNCHANGED <<phase, castAt, void, box>>

Announce ==
    /\ phase = "published" /\ phase' = "announced"
    /\ box # {} /\ tally = box
    /\ UNCHANGED <<castAt, void, box, tally>>

Cancel ==
    /\ phase = "open" /\ phase' = "canceled"
    /\ UNCHANGED <<castAt, void, box, tally>>

\* No vote of a canceled election counts.
Annul(vs) ==
    /\ phase = "canceled" /\ void' = void \union vs
    /\ UNCHANGED <<phase, castAt, box, tally>>

Next ==
    \/ Open \/ Close \/ Publish \/ Count \/ Announce \/ Cancel
    \/ \E v \in Votes : CastVote(v)
    \/ \E vs \in SUBSET Valid : Refuse(vs) \/ Annul(vs)

Spec == Init /\ [][Next]_vars
=============================================================================
