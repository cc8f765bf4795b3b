------------------------------ MODULE Sealing ------------------------------
(***************************************************************************)
(* The two loops of a seal, step by step: nextBatch, which splits the      *)
(* pending buffer, and applyBatch, which finds the votes the state tree    *)
(* refuses by a binary search over the prefixes of the batch.  A vote is   *)
(* its position in the buffer.  Election uses the sets these loops compute *)
(* (NextBatch, Refused); here the loops are shown to compute them.         *)
(***************************************************************************)
EXTENDS Integers, FiniteSets, Sequences, SequencesExt

CONSTANTS
    MaxPending,  \* longest buffer
    Slots, Keys, \* ballot slots and vote-ID tree keys
    Sizes        \* batch sizes

ASSUME SealingAssumption == MaxPending \in Nat /\ Sizes \subseteq Nat \ {0}

VARIABLES
    n, slot, key,   \* rt.pending: its length, the slot and the key of each vote
    size,           \* rt.batchSize
    base,           \* keys of the stored tree
    pc,             \* split, apply, search or done
    next,           \* the buffer position nextBatch looks at
    batch, rest,    \* nextBatch's results
    idx,            \* positions still in the batch
    refused,        \* positions left out
    lo, hi,         \* bounds of the search: the first hi votes of idx fail
    tree            \* keys of rt.state

input == <<n, slot, key, size, base>>
vars  == <<input, pc, next, batch, rest, idx, refused, lo, hi, tree>>

Init ==
    /\ n \in 0..MaxPending /\ slot \in [1..n -> Slots] /\ key \in [1..n -> Keys]
    /\ size \in Sizes /\ base \in SUBSET Keys
    /\ pc = "split" /\ next = 1 /\ batch = <<>> /\ rest = <<>>
    /\ idx = <<>> /\ refused = {} /\ lo = 0 /\ hi = 0 /\ tree = base

-----------------------------------------------------------------------------
\* Mutant: the size of the batch is compared after the vote is appended.
MutWaits(v) == Len(batch) > size \/ \E u \in Range(batch) : slot[u] = slot[v]
\* A vote waits for a following batch: its slot is taken or the batch is full.
Waits(v) == Len(batch) = size \/ \E u \in Range(batch) : slot[u] = slot[v]

\* One vote of nextBatch.
Split ==
    /\ pc = "split" /\ next <= n
    /\ next' = next + 1
    /\ batch' = IF Waits(next) THEN batch ELSE Append(batch, next)
    /\ rest' = IF Waits(next) THEN Append(rest, next) ELSE rest
    /\ UNCHANGED <<input, pc, idx, refused, lo, hi, tree>>

\* applyBatch starts with the whole batch.
SplitDone ==
    /\ pc = "split" /\ next > n
    /\ pc' = "apply" /\ idx' = batch
    /\ UNCHANGED <<input, next, batch, rest, refused, lo, hi, tree>>

\* chain.ElectionState.ApplyBatch of the first m votes of idx fails: a key is
\* in the tree or comes twice.
Fails(m) ==
    \E i \in 1..m : key[idx[i]] \in tree \/ \E j \in 1..(i - 1) : key[idx[j]] = key[idx[i]]

\* The keys of the first m votes of idx.
PrefixKeys(m) == {key[idx[i]] : i \in 1..m}

\* Mutant: the part of the batch a failed ApplyBatch wrote stays.
MutRestored(m) == tree \union PrefixKeys(m)
\* The tree after an ApplyBatch of m votes and a restoreState.
Restored(m) == base

\* The votes still in the batch are applied; after a failure the state is
\* restored and the search starts.  With no vote left the batch is empty.
Apply ==
    /\ pc = "apply"
    /\ \/ idx = <<>> /\ pc' = "done" /\ UNCHANGED <<lo, hi, tree>>
       \/ idx # <<>> /\ ~Fails(Len(idx)) /\ pc' = "done"
          /\ tree' = tree \union PrefixKeys(Len(idx)) /\ UNCHANGED <<lo, hi>>
       \/ idx # <<>> /\ Fails(Len(idx)) /\ pc' = "search"
          /\ lo' = 1 /\ hi' = Len(idx) /\ tree' = Restored(Len(idx))
    /\ UNCHANGED <<input, next, batch, rest, idx, refused>>

\* Mutant: a prefix that applies leaves its last vote in the search.
MutNarrow ==
    LET mid == (lo + hi) \div 2 IN
    IF Fails(mid) THEN hi' = mid /\ lo' = lo ELSE lo' = mid /\ hi' = hi
\* One probe of the search; the state is restored after it.
Narrow ==
    LET mid == (lo + hi) \div 2 IN
    IF Fails(mid) THEN hi' = mid /\ lo' = lo ELSE lo' = mid + 1 /\ hi' = hi

Search ==
    /\ pc = "search" /\ lo < hi
    /\ Narrow
    /\ tree' = Restored((lo + hi) \div 2)
    /\ UNCHANGED <<input, pc, next, batch, rest, idx, refused>>

\* The last vote of the shortest failing prefix is refused, and the batch is
\* applied again without it.
Refuse ==
    /\ pc = "search" /\ lo >= hi
    /\ refused' = refused \union {idx[hi]}
    /\ idx' = RemoveAt(idx, hi)
    /\ pc' = "apply"
    /\ UNCHANGED <<input, next, batch, rest, lo, hi, tree>>

\* The seal goes on with the votes of idx.
Sealed == pc = "done" /\ UNCHANGED vars

Next == Split \/ SplitDone \/ Apply \/ Search \/ Refuse \/ Sealed

Spec == Init /\ [][Next]_vars
\* The seal runs under rt.mu without waiting for anyone.
FairSpec == Spec /\ WF_vars(Next)

-----------------------------------------------------------------------------
(* Properties *)

\* Positions of the buffer that are the first of their slot.
FirstOfSlot == {v \in 1..n : \A u \in 1..(v - 1) : slot[u] # slot[v]}

\* In the order of the buffer.
Increasing(s) == \A i, j \in 1..Len(s) : i < j => s[i] < s[j]

\* nextBatch is the set Election seals: the first `size` votes that are the
\* first of their slot, in submission order, the others left in order.
SplitsFirstOfSlot ==
    pc # "split" =>
        /\ Range(batch) = {v \in FirstOfSlot : Cardinality({u \in FirstOfSlot : u < v}) < size}
        /\ Range(rest) = (1..n) \ Range(batch)
        /\ Increasing(batch) /\ Increasing(rest)

\* applyBatch refuses exactly the votes whose key is in the tree or belongs to
\* an earlier vote of the batch, and keeps the others in order; the tree the
\* seal hands on is the stored one plus the kept votes, with nothing left of
\* the probes and the refused votes.
RefusesCollisions ==
    pc = "done" =>
        /\ refused = {v \in Range(batch) :
                         \/ key[v] \in base
                         \/ \E u \in Range(batch) : u < v /\ key[u] = key[v]}
        /\ Range(idx) = Range(batch) \ refused /\ Increasing(idx)
        /\ tree = base \union {key[v] : v \in Range(batch) \ refused}

\* A seal ends, whatever votes the tree refuses.
Terminates == <>(pc = "done")
=============================================================================
