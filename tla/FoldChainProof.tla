--------------------------- MODULE FoldChainProof ---------------------------
(***************************************************************************)
(* Theorems about FoldChain, for every pool of workers, number of batches, *)
(* cadence and budget of faults.                                           *)
(***************************************************************************)
EXTENDS FoldChain, FiniteSetTheorems, SequenceTheorems, TLAPS

USE DEF Places

-----------------------------------------------------------------------------
(* Types. *)

\* A nonempty set of bounded naturals has a largest one.
LEMMA MaxIn ==
    ASSUME NEW n \in Nat, NEW S \in SUBSET (0..n), S # {}
    PROVE  Max(S) \in S
<1> DEFINE T == {n - x : x \in S}
<1>1. T \subseteq Nat /\ T # {}
  <2>1. \A x \in S : x \in Nat /\ x <= n
    OBVIOUS
  <2>2. \A x \in S : n - x \in Nat
    BY <2>1
  <2>3. \E x : x \in S
    OBVIOUS
  <2> QED
    BY <2>2, <2>3
<1>2. PICK y \in T : \A z \in T : ~(<<z, y>> \in OpToRel(<, Nat))
    BY <1>1, NatLessThanWellFounded, WFMin
<1>3. \A z \in T : ~(z < y)
    BY <1>1, <1>2 DEF OpToRel
<1>4. PICK x \in S : y = n - x
    OBVIOUS
<1>5. \A z \in S : x >= z
    BY <1>3, <1>4
<1> QED
    BY <1>5 DEF Max

\* The larger of two numbers.
LEMMA MaxTwo ==
    ASSUME NEW a \in Nat, NEW b \in Nat
    PROVE  Max({a, b}) \in {a, b} /\ Max({a, b}) >= a /\ Max({a, b}) >= b
<1>1. \E x \in {a, b} : \A y \in {a, b} : x >= y
    OBVIOUS
<1> QED
    BY <1>1 DEF Max

\* The smaller of two numbers.
LEMMA MinTwo ==
    ASSUME NEW a \in Nat, NEW b \in Nat
    PROVE  Min({a, b}) \in {a, b} /\ Min({a, b}) <= a /\ Min({a, b}) <= b
<1>1. \E x \in {a, b} : \A y \in {a, b} : x <= y
    OBVIOUS
<1> QED
    BY <1>1 DEF Min

\* A worker's failures are counted up to the ban.
LEMMA StrikesType ==
    ASSUME PoolOK, NEW w, NEW n \in Nat, Failed(w, n) \/ Succeeded(w)
    PROVE  strikes' \in [Workers -> 0..FailuresToGetBanned + 1]
<1>1. strikes \in [Workers -> 0..FailuresToGetBanned + 1]
    BY DEF PoolOK
<1>2. w \in Workers => Min({strikes[w] + n, FailuresToGetBanned + 1}) \in 0..FailuresToGetBanned + 1
    BY <1>1, MinTwo DEF FailuresToGetBanned
<1> QED
    BY <1>1, <1>2 DEF Failed, Succeeded, FailuresToGetBanned

\* A call that fails counts as failures of the fold worker.
LEMMA CallFailsType ==
    ASSUME PoolOK, CallFails
    PROVE  strikes' \in [Workers -> 0..FailuresToGetBanned + 1]
BY StrikesType DEF CallFails, maxJobAttempts

\* scatter.start takes batches of the pass's copies, from its position on.
LEMMA WindowIn ==
    ASSUME NEW copies \in Seq(Inputs), ChainOK, pass.at \in 1..Len(copies), NEW k \in Window(copies)
    PROVE  k \in pass.at..Len(copies)
<1> DEFINE most == Max({Available, 1})
           end  == Min({pass.at + most - 1, Len(copies)})
           left == {j \in end + 1 .. Len(copies) : task[j].st = "none" /\ copies[j].worker # None}
<1>1. Available \in Nat
    BY WorkersAssumption, FS_Subset, FS_CardinalityType DEF Available, Usable
<1>2. most \in Nat \ {0}
    BY <1>1, MaxTwo
<1> HIDE DEF most
<1>3. pass.at + most - 1 \in Nat /\ Len(copies) \in Nat
    BY <1>2
<1>4. end \in Nat /\ end <= Len(copies)
    BY <1>3, MinTwo
<1> HIDE DEF end
<1>5. left \cup {end} \in SUBSET (0..Len(copies))
    BY <1>3, <1>4
<1>6. Max(left \cup {end}) \in 0..Len(copies)
  <2>1. left \cup {end} # {}
    OBVIOUS
  <2> HIDE DEF left
  <2>2. Max(left \cup {end}) \in left \cup {end}
    BY <1>3, <1>5, <2>1, MaxIn
  <2> QED
    BY <1>5, <2>2
<1>7. k \in pass.at..Max(left \cup {end})
    BY DEF Window, left, end, most
<1> QED
    BY <1>3, <1>6, <1>7

\* A list with a record for every one of another's.
LEMMA ReplaceAll ==
    ASSUME NEW S, NEW s \in Seq(S), NEW t \in [DOMAIN s -> S]
    PROVE  t \in Seq(S) /\ Len(t) = Len(s)
<1>1. DOMAIN s = 1..Len(s) /\ Len(s) \in Nat
    OBVIOUS
<1>2. t \in Seq(S)
    BY <1>1, SeqDef
<1> QED
    BY <1>1, <1>2, LenProperties

\* Every variable has its type at the start.
LEMMA TypeInit == Init => TypeOK
<1> SUFFICES ASSUME Init PROVE TypeOK
    OBVIOUS
<1> USE BatchesAssumption, LegacyAssumption, WorkersAssumption
<1>1. StoredOK
    BY DEF Init, StoredOK, Inputs, Checkpoints, Prefix, Batches
<1>2. PoolOK
    BY DEF Init, PoolOK, FailuresToGetBanned
<1>3. ChainOK
    BY <1>1 DEF Init, StoredOK, ChainOK, Checkpoints, Chains, Passes, Tasks, Loaded, NoPass, NoTask,
                maxFoldFailures
<1> QED
    BY <1>1, <1>2, <1>3 DEF TypeOK

\* The lengths and counts are numbers.
Counts ==
    /\ Len(batches) \in Nat /\ DOMAIN batches = 1..Len(batches)
    /\ head.folded \in Nat /\ fc.folded \in Nat
    /\ fc.pending \in Seq(Pendings) /\ Len(fc.pending) \in Nat
    /\ pass.copies \in Seq(Inputs) /\ Len(pass.copies) \in Nat
    /\ DOMAIN pass.copies = 1..Len(pass.copies)
    /\ pass.listed \in Nat /\ pass.at \in Nat /\ fc.last \in Seq(Batches)

\* They are, as the types say.
LEMMA Numbers ==
    ASSUME TypeOK
    PROVE  Counts
<1>1. Len(batches) \in Nat /\ DOMAIN batches = 1..Len(batches)
    BY LenProperties DEF TypeOK, StoredOK
<1>2. head.folded \in Nat
    BY BatchesAssumption DEF TypeOK, StoredOK, Checkpoints
<1>3. /\ fc.folded \in Nat /\ fc.pending \in Seq(Pendings) /\ Len(fc.pending) \in Nat
      /\ fc.last \in Seq(Batches)
    BY BatchesAssumption, LenProperties DEF TypeOK, ChainOK, Chains
<1>4. /\ pass.copies \in Seq(Inputs) /\ pass.listed \in Nat /\ pass.at \in Nat
    BY DEF TypeOK, ChainOK, Passes
<1> QED
    BY <1>1, <1>2, <1>3, <1>4, LenProperties DEF Counts

\* The records listed since.
LEMMA RestLength ==
    ASSUME NEW a \in Nat, NEW b \in Nat, a <= b
    PROVE  (IF a + 1 <= b THEN b - (a + 1) + 1 ELSE 0) = b - a
OBVIOUS

\* A task belongs to the pass that runs, and to a batch the pass listed and did
\* not gather yet.
Driving == {"gather", "fold", "boot", "bound", "commit", "wait"}
TaskInv ==
    \A k \in Batches :
      task[k].st # "none" => pc \in Driving /\ k <= Len(pass.copies) /\ k >= next

\* The op of a pass returns: nothing else of the pass changes.
LEMMA ReturnType ==
    ASSUME ChainOK, NEW out \in {"ok", "worker", "error"}, Return(out)
    PROVE  /\ pc' = "wait" /\ pass' \in Passes /\ pass'.mine = pass.mine /\ pass'.at = pass.at
           /\ pass'.copies = pass.copies /\ pass'.listed = pass.listed /\ pass'.made = pass.made
BY DEF ChainOK, Return, Passes

\* The batches that are to be proved again keep their places.
LEMMA ResetType ==
    ASSUME StoredOK, NEW ks, ResetBatch(ks)
    PROVE  /\ batches' \in Seq(Inputs) /\ Len(batches') = Len(batches)
           /\ bproof' \in [Batches -> Places]
<1>1. batches' \in [DOMAIN batches -> Inputs]
  <2>1. \A k \in DOMAIN batches : batches[k] \in Inputs
    BY LenProperties, ElementOfSeq DEF StoredOK
  <2>2. Fresh \in Inputs
    BY DEF Fresh, Inputs
  <2> QED
    BY <2>1, <2>2 DEF ResetBatch
<1>2. bproof' \in [Batches -> Places]
    BY DEF ResetBatch, StoredOK
<1> QED
    BY <1>1, <1>2, ReplaceAll DEF StoredOK

\* The write that drops one batch's proof is made, or fails.
LEMMA DropOne ==
    ASSUME StoredOK, NEW k, dropBatchProofs({k})
    PROVE  ResetBatch({k}) \/ UNCHANGED <<batches, bproof>>
<1>1. PICK done \in SUBSET {k} : ResetBatch(done)
    BY DEF dropBatchProofs
<1>2. CASE done = {k}
    BY <1>1, <1>2
<1>3. CASE done = {}
  <2>1. /\ batches' = [j \in DOMAIN batches |-> batches[j]]
        /\ bproof' = [j \in Batches |-> bproof[j]]
    BY <1>1, <1>3 DEF ResetBatch
  <2>2. batches = [j \in DOMAIN batches |-> batches[j]] /\ bproof = [j \in Batches |-> bproof[j]]
    BY LenProperties DEF StoredOK
  <2> QED
    BY <2>1, <2>2
<1> QED
    BY <1>2, <1>3

\* The makers that are avoided are workers.
LEMMA AvoidType ==
    ASSUME ChainOK, NEW ps \in SUBSET Pendings
    PROVE  Avoiding(ps) \in [Batches -> SUBSET Workers]
<1>1. fc.avoid \in [Batches -> SUBSET Workers]
    BY DEF ChainOK, Chains
<1>2. \A p \in ps : p.worker # None => p.worker \in Workers
    BY DEF Pendings
<1> QED
    BY <1>1, <1>2 DEF Avoiding

\* importBatch keeps the records, and adds one pending batch at most.
LEMMA ImportType ==
    ASSUME TypeOK, NEW k \in Batches, k <= Len(batches), NEW bi \in Inputs, NEW p \in Places,
           NEW ACTION goOn, Import(k, bi, p, goOn)
    PROVE  /\ batches' \in Seq(Inputs) /\ Len(batches') = Len(batches)
           /\ bproof' \in [Batches -> Places]
           /\ strikes' \in [Workers -> 0..FailuresToGetBanned + 1]
           /\ fc' \in Chains /\ fc'.folded = fc.folded /\ fc'.last = fc.last
           /\ \/ /\ fc'.pending = Append(fc.pending, Pending(k, [bi EXCEPT !.imported = p, !.on = fc.pin]))
                 /\ Len(fc'.pending) = Len(fc.pending) + 1 /\ goOn
              \/ fc'.pending = fc.pending /\ (Return("error") \/ Return("worker"))
<1> DEFINE done == [bi EXCEPT !.imported = p, !.on = fc.pin]
<1>1. fc \in Chains /\ fc.pin \in Places
    BY DEF TypeOK, ChainOK, Chains
<1>2. done \in Inputs /\ Pending(k, done) \in Pendings /\ Pending(k, bi) \in Pendings
    BY <1>1 DEF Pending, Pendings, Inputs
<1>3. batches \in Seq(Inputs) /\ k \in 1..Len(batches) /\ bproof \in [Batches -> Places]
    BY Numbers, BatchesAssumption DEF TypeOK, StoredOK, Counts, Batches
<1>4. /\ fc.pending \in Seq(Pendings)
      /\ strikes \in [Workers -> 0..FailuresToGetBanned + 1]
    BY Numbers DEF Counts, TypeOK, PoolOK
<1>5. CASE /\ SetBatchInput(k, done) /\ goOn /\ UNCHANGED <<bproof, strikes>>
           /\ fc' = [fc EXCEPT !.pending = Append(@, Pending(k, done))]
  <2> DEFINE longer == Append(fc.pending, Pending(k, done))
  <2>1. longer \in Seq(Pendings) /\ Len(longer) = Len(fc.pending) + 1
    BY <1>2, <1>4, AppendProperties
  <2> HIDE DEF longer
  <2>2. fc' = [fc EXCEPT !.pending = longer]
    BY <1>5 DEF longer
  <2>3. fc' \in Chains /\ fc'.folded = fc.folded /\ fc'.last = fc.last /\ fc'.pending = longer
    BY <1>1, <2>1, <2>2 DEF Chains
  <2>4. batches' \in Seq(Inputs) /\ Len(batches') = Len(batches)
    BY <1>2, <1>3, <1>5, ExceptSeq DEF SetBatchInput
  <2> QED
    BY <1>3, <1>4, <1>5, <2>1, <2>3, <2>4 DEF longer
<1>6. CASE Return("error") /\ UNCHANGED <<batches, bproof, fc, strikes>>
    BY <1>1, <1>3, <1>4, <1>6
<1>7. CASE /\ Return("error") /\ dropBatchProofs({k}) /\ UNCHANGED strikes
           /\ fc' = [fc EXCEPT !.avoid = Avoiding({Pending(k, bi)})]
  <2> DEFINE av == Avoiding({Pending(k, bi)})
  <2>1. av \in [Batches -> SUBSET Workers]
    BY <1>2, AvoidType DEF TypeOK
  <2> HIDE DEF av
  <2>2. fc' = [fc EXCEPT !.avoid = av]
    BY <1>7 DEF av
  <2>3. /\ fc' \in Chains /\ fc'.folded = fc.folded /\ fc'.last = fc.last
        /\ fc'.pending = fc.pending
    BY <1>1, <2>1, <2>2 DEF Chains
  <2>4. PICK dropped : ResetBatch(dropped)
    BY <1>7 DEF dropBatchProofs
  <2> QED
    BY <1>4, <1>7, <2>3, <2>4, ResetType DEF TypeOK
<1>8. CASE CallFails /\ Return("worker") /\ UNCHANGED <<batches, bproof, fc>>
    BY <1>1, <1>3, <1>8, CallFailsType DEF TypeOK
<1> QED
    BY <1>5, <1>6, <1>7, <1>8 DEF Import

\* What a failed fold leaves: the batches' records, reset or not, and the chain
\* with its pending batches or none.
FailedType(r) ==
    /\ batches' \in Seq(Inputs) /\ Len(batches') = Len(batches)
    /\ bproof' \in [Batches -> Places]
    /\ fc' \in Chains /\ fc'.folded = fc.folded /\ fc'.last = fc.last
    /\ fc'.pending \in {<<>>, fc.pending} /\ fc'.folded + Len(fc'.pending) <= Len(batches)
    /\ pass' \in Passes /\ Len(pass'.copies) = Len(pass.copies) /\ pass'.listed = pass.listed
    /\ pass'.mine = pass.mine /\ pc' = "wait"

\* foldFailed leaves that.
LEMMA FoldFailedType ==
    ASSUME TypeOK, NEW r \in BOOLEAN, foldFailed(r)
    PROVE  FailedType(r)
<1>t. StoredOK /\ PoolOK /\ ChainOK
    BY DEF TypeOK
<1>a. Counts
    BY Numbers
<1>c. fc \in Chains /\ pass \in Passes
    BY <1>t DEF ChainOK
<1>d. batches \in Seq(Inputs) /\ bproof \in [Batches -> Places]
    BY <1>t DEF StoredOK
<1> DEFINE n  == fc.failures + (IF r THEN 1 ELSE 0)
           ps == {fc.pending[i] : i \in 1..Len(fc.pending)}
           ks == {p.batch : p \in ps}
<1>e. fc.folded + Len(fc.pending) <= Len(batches)
    BY <1>t DEF ChainOK
<1>f. fc.folded <= Len(batches)
    BY <1>a, <1>e DEF Counts
<1>1. CASE /\ ~Escalates(n) /\ pc' = "wait"
           /\ fc' = [fc EXCEPT !.failures = n] /\ pass' = [pass EXCEPT !.out = "worker"]
           /\ UNCHANGED <<batches, bproof>>
  <2>1. n \in 0..maxFoldFailures - 1
    BY <1>1, <1>c DEF Escalates, maxFoldFailures, Chains
  <2> HIDE DEF n
  <2>2. /\ fc' \in Chains /\ fc'.folded = fc.folded /\ fc'.last = fc.last
        /\ fc'.pending = fc.pending
    BY <1>1, <1>c, <2>1 DEF Chains
  <2>3. /\ pass' \in Passes /\ pass'.copies = pass.copies /\ pass'.listed = pass.listed
        /\ pass'.mine = pass.mine
    BY <1>1, <1>c DEF Passes
  <2> QED
    BY <1>1, <1>d, <1>e, <2>2, <2>3 DEF FailedType
<1>2. CASE /\ pc' = "wait" /\ fc' = [fc EXCEPT !.failures = 0, !.suspect = TRUE]
           /\ pass' = [pass EXCEPT !.out = "worker"] /\ UNCHANGED <<batches, bproof>>
  <2>1. 0 \in 0..maxFoldFailures - 1
    BY DEF maxFoldFailures
  <2>2. /\ fc' \in Chains /\ fc'.folded = fc.folded /\ fc'.last = fc.last
        /\ fc'.pending = fc.pending
    BY <1>2, <1>c, <2>1 DEF Chains
  <2>3. /\ pass' \in Passes /\ pass'.copies = pass.copies /\ pass'.listed = pass.listed
        /\ pass'.mine = pass.mine
    BY <1>2, <1>c DEF Passes
  <2> QED
    BY <1>2, <1>d, <1>e, <2>2, <2>3 DEF FailedType
<1>3. CASE /\ pc' = "wait"
           /\ fc' = [fc EXCEPT !.failures = 0, !.reproved = TRUE,
                               !.avoid = Avoiding(ps), !.pending = <<>>]
           /\ pass' = [pass EXCEPT !.out = "worker",
                         !.copies = [k \in DOMAIN @ |->
                                       IF k \in ks \cap pass.mine THEN Fresh ELSE @[k]]]
           /\ dropBatchProofs(ks)
  <2> DEFINE av == Avoiding(ps)
             cs == [k \in DOMAIN pass.copies |->
                      IF k \in ks \cap pass.mine THEN Fresh ELSE pass.copies[k]]
  <2>1. ps \in SUBSET Pendings
    BY <1>a, ElementOfSeq DEF Counts
  <2> HIDE DEF ps
  <2>2. av \in [Batches -> SUBSET Workers]
    BY <1>t, <2>1, AvoidType
  <2>3. cs \in Seq(Inputs) /\ Len(cs) = Len(pass.copies)
    <3>1. Fresh \in Inputs
        BY DEF Fresh, Inputs
    <3>2. \A k \in DOMAIN pass.copies : pass.copies[k] \in Inputs
        BY <1>a, ElementOfSeq DEF Counts
    <3>3. cs \in [DOMAIN pass.copies -> Inputs]
        BY <3>1, <3>2
    <3> HIDE DEF cs
    <3> QED
        BY <1>a, <3>3, ReplaceAll DEF Counts
  <2>4. pass' = [pass EXCEPT !.out = "worker", !.copies = cs]
    BY <1>3
  <2>5. fc' = [fc EXCEPT !.failures = 0, !.reproved = TRUE, !.avoid = av, !.pending = <<>>]
    BY <1>3
  <2>6. /\ batches' \in Seq(Inputs) /\ Len(batches') = Len(batches)
        /\ bproof' \in [Batches -> Places]
    <3>1. PICK dropped : ResetBatch(dropped)
        BY <1>3 DEF dropBatchProofs
    <3> QED
        BY <3>1, <1>t, ResetType
  <2> HIDE DEF av, cs
  <2>7. 0 \in 0..maxFoldFailures - 1 /\ <<>> \in Seq(Pendings) /\ Len(<<>>) = 0
    BY EmptySeq DEF maxFoldFailures
  <2>8. /\ fc' \in Chains /\ fc'.folded = fc.folded /\ fc'.last = fc.last
        /\ fc'.pending = <<>>
    BY <1>c, <2>2, <2>5, <2>7 DEF Chains
  <2>9. /\ pass' \in Passes /\ pass'.copies = cs /\ pass'.listed = pass.listed
        /\ pass'.mine = pass.mine
    BY <1>c, <2>3, <2>4 DEF Passes
  <2>10. fc'.folded + Len(fc'.pending) <= Len(batches)
    BY <1>a, <1>f, <2>7, <2>8 DEF Counts
  <2> QED
    BY <1>3, <2>3, <2>6, <2>8, <2>9, <2>10 DEF FailedType
<1> QED
    BY <1>1, <1>2, <1>3, Zenon DEF foldFailed

\* Every step keeps the types.
LEMMA TypeNext == TypeOK /\ TaskInv /\ [Next]_vars => TypeOK'
<1>s. SUFFICES ASSUME TypeOK, TaskInv, [Next]_vars PROVE TypeOK'
    OBVIOUS
<1>t. StoredOK /\ PoolOK /\ ChainOK
    BY <1>s DEF TypeOK
<1>a. Counts
    BY <1>s, Numbers
<1>c. fc \in Chains /\ pass \in Passes
    BY <1>t DEF ChainOK
<1> USE <1>t
<1> USE BatchesAssumption
<1> USE DEF TypeOK, vars, stored, workers, provers
<1>1. CASE UNCHANGED vars
    BY <1>1 DEF StoredOK, PoolOK, ChainOK
<1>2. CASE Seal
  <2>1. batches' \in Seq(Inputs) /\ Len(batches') = Len(batches) + 1
    BY <1>2 DEF Seal, StoredOK, Inputs, Fresh
  <2>2. /\ Len(batches) < MaxBatches
        /\ UNCHANGED <<bproof, fproof, pinned, head, election, provers, fc, pc, pass, task>>
    BY <1>2 DEF Seal
  <2>3. /\ Len(batches') <= MaxBatches /\ head.folded <= Len(batches')
        /\ fc.folded + Len(fc.pending) <= Len(batches') /\ Len(pass.copies) <= Len(batches')
    <3>1. Len(batches) \in Nat /\ head.folded \in Nat
        BY <1>a DEF Counts
    <3>2. fc.folded + Len(fc.pending) \in Nat /\ Len(pass.copies) \in Nat
        BY <1>a DEF Counts
    <3>3. /\ head.folded <= Len(batches) /\ fc.folded + Len(fc.pending) <= Len(batches)
          /\ Len(pass.copies) <= Len(batches)
        BY DEF StoredOK, ChainOK
    <3> QED
        BY <2>1, <2>2, <3>1, <3>2, <3>3
  <2> QED
    BY <2>1, <2>2, <2>3 DEF StoredOK, PoolOK, ChainOK
<1>3. CASE End
    BY <1>3 DEF StoredOK, PoolOK, ChainOK, End
<1>4. CASE Stop
    BY <1>4 DEF StoredOK, PoolOK, ChainOK, Stop
<1>5. CASE deleteProofs
    BY <1>5 DEF StoredOK, PoolOK, ChainOK, deleteProofs, DeleteProofs
<1>6. CASE Crash
  <2>1. fc' \in Chains /\ fc'.folded = head.folded /\ fc'.pending = <<>>
    BY <1>6 DEF Crash, StoredOK, Checkpoints, Loaded, Chains, maxFoldFailures
  <2>2. pass' \in Passes /\ pass'.copies = <<>> /\ pass'.listed = 0
    BY <1>6 DEF Crash, NoPass, Passes
  <2>3. task' \in [Batches -> Tasks]
    BY <1>6 DEF Crash, NoTask, Tasks
  <2>4. UNCHANGED <<batches, pinned, head, pool>> /\ pc' = "idle"
    BY <1>6 DEF Crash
  <2>5. /\ bproof' \in [Batches -> Places] /\ fproof' \in Seq(Batches)
        /\ election' \in {"open", "ended", "stopped", "clean", "left"}
    <3>1. CASE stopped
        BY <1>6, <3>1, EmptySeq DEF Crash, DeleteProofs
    <3>2. CASE ~stopped
        BY <1>6, <3>2 DEF Crash, StoredOK
    <3> QED
        BY <3>1, <3>2
  <2>6. strikes' \in [Workers -> 0..FailuresToGetBanned + 1]
    BY <1>6 DEF Crash, FailuresToGetBanned
  <2>7. StoredOK' /\ PoolOK'
    BY <2>4, <2>5, <2>6 DEF StoredOK, PoolOK
  <2>8. fc'.folded + Len(fc'.pending) <= Len(batches)
    BY <1>a, <2>1 DEF StoredOK, Counts
  <2>9. Len(pass'.copies) <= Len(batches) /\ pass'.listed <= Len(pass'.copies)
    BY <1>a, <2>2 DEF Counts
  <2> QED
    BY <1>6, <2>1, <2>2, <2>3, <2>4, <2>7, <2>8, <2>9 DEF ChainOK
<1>7. CASE \E w \in Workers : \E st \in {"away", "gone"} : WorkerLost(w, st)
    BY <1>7 DEF StoredOK, PoolOK, ChainOK, WorkerLost
<1>8. CASE \E w \in Workers : WorkerBack(w)
    BY <1>8, StrikesType DEF StoredOK, PoolOK, ChainOK, WorkerBack
<1>9. CASE \E w \in Workers : BanEnds(w)
    BY <1>9, StrikesType DEF StoredOK, PoolOK, ChainOK, BanEnds
<1>10. CASE \E w \in Workers : WorkerWiped(w)
    BY <1>10 DEF StoredOK, PoolOK, ChainOK, WorkerWiped
<1>11. CASE \E d \in BOOLEAN : Dispatch(d)
  <2>1. PICK d \in BOOLEAN : Dispatch(d)
    BY <1>11
  <2>2. batches \in Seq(Inputs)
    BY DEF StoredOK
  <2>3. pass' = [drain |-> d, attempt |-> 1, copies |-> batches, listed |-> Len(batches),
                 mine |-> {}, at |-> 1, out |-> "ok", made |-> <<>>]
    BY <2>1 DEF Dispatch, NoPass
  <2>4. pass' \in Passes /\ pass'.copies = batches /\ pass'.listed = Len(batches)
    BY <1>a, <2>2, <2>3 DEF Passes, Counts
  <2> QED
    BY <1>a, <2>1, <2>4 DEF Dispatch, StoredOK, PoolOK, ChainOK, Counts
<1>12. CASE foldWorker
  <2>1. \/ fc' = fc \/ fc' = [fc EXCEPT !.synced = FALSE]
        \/ \E w \in Workers : fc' = [fc EXCEPT !.synced = FALSE, !.pin = w]
    BY <1>12 DEF foldWorker, Usable
  <2>2. fc' \in Chains /\ fc'.folded = fc.folded /\ fc'.pending = fc.pending
    BY <2>1 DEF ChainOK, Chains
  <2>3. pinned' \in Places /\ pc' \in {"gather", "head", "idle"}
    BY <1>12 DEF foldWorker, Usable, StoredOK
  <2>4. UNCHANGED <<batches, bproof, fproof, head, election, provers, pass, task>>
    BY <1>12 DEF foldWorker
  <2> QED
    BY <2>2, <2>3, <2>4 DEF StoredOK, PoolOK, ChainOK
<1>13. CASE Waited
  <2>1. fc' \in Chains /\ fc'.folded = fc.folded /\ fc'.pending = fc.pending
    BY <1>13 DEF Waited, Resync, ChainOK, Chains
  <2>2. pass' \in Passes /\ Len(pass'.copies) <= Len(batches) /\ pass'.listed <= Len(pass'.copies)
    <3>1. CASE pass' = NoPass
        BY <1>a, <3>1 DEF NoPass, Passes, Counts
    <3> DEFINE cut == SubSeq(pass.copies, 1, pass.listed)
    <3>2. CASE pass' = [pass EXCEPT !.attempt = 2, !.at = 1, !.out = "ok", !.copies = cut]
      <4>1. \A i \in 1..pass.listed : pass.copies[i] \in Inputs
        BY <1>a, ElementOfSeq DEF ChainOK, Counts
      <4>2. cut \in Seq(Inputs) /\ Len(cut) = pass.listed
        BY <1>a, <4>1, SubSeqProperties DEF Counts
      <4> HIDE DEF cut
      <4>3. pass' \in Passes /\ pass'.copies = cut /\ pass'.listed = pass.listed
        BY <1>c, <3>2, <4>2 DEF Passes
      <4>4. pass.listed <= Len(batches)
        BY <1>a DEF ChainOK, Counts
      <4> QED
        BY <1>a, <4>2, <4>3, <4>4 DEF Counts
    <3> QED
        BY <1>13, <3>1, <3>2 DEF Waited
  <2>3. task' \in [Batches -> Tasks]
    BY <1>13 DEF Waited, NoTask, Tasks
  <2> QED
    BY <1>13, <2>1, <2>2, <2>3 DEF Waited, StoredOK, PoolOK, ChainOK
<1>14. CASE SyncHead
  <2>1. /\ fc \in Chains /\ fc.pin \in Places /\ fproof \in Seq(Batches)
        /\ <<>> \in Seq(Pendings) /\ <<>> \in Seq(Batches)
    BY EmptySeq DEF StoredOK, ChainOK, Chains
  <2> DEFINE c == [fc EXCEPT !.last = fproof, !.lastOn = fc.pin]
  <2>2. \/ fc' \in {fc, c} \/ fc' = [fc EXCEPT !.pending = <<>>]
        \/ fc' = [fc EXCEPT !.last = <<>>, !.lastOn = None, !.folded = 0, !.pending = <<>>]
        \/ fc' = [c EXCEPT !.pending = <<>>]
    BY <1>14 DEF SyncHead, Genesis
  <2>3. /\ fc' \in Chains /\ fc'.folded \in {0, fc.folded} /\ fc'.pending \in {<<>>, fc.pending}
    <3>1. CASE fc' \in {fc, c}
        BY <2>1, <3>1 DEF Chains
    <3>2. CASE fc' = [fc EXCEPT !.pending = <<>>]
        BY <2>1, <3>2 DEF Chains
    <3>3. CASE fc' = [fc EXCEPT !.last = <<>>, !.lastOn = None, !.folded = 0, !.pending = <<>>]
        BY <2>1, <3>3 DEF Chains
    <3>4. CASE fc' = [c EXCEPT !.pending = <<>>]
        BY <2>1, <3>4 DEF Chains
    <3> QED
        BY <2>2, <3>1, <3>2, <3>3, <3>4
  <2>4. fc'.folded + Len(fc'.pending) <= Len(batches)
    <3>1. fc.folded + Len(fc.pending) <= Len(batches)
        BY DEF ChainOK
    <3> QED
        BY <1>a, <2>3, <3>1, EmptySeq DEF Counts
  <2>5. head' = head \/ head' = checkpoint(c)
    BY <1>14 DEF SyncHead, SetFoldCheckpoint
  <2>6. head' \in Checkpoints /\ head'.folded <= Len(batches)
    <3>1. checkpoint(c) \in Checkpoints /\ checkpoint(c).folded = fc.folded
        BY <2>1 DEF checkpoint, Chains, Checkpoints
    <3>2. fc.folded <= Len(batches)
        BY <1>a DEF ChainOK, Counts
    <3> QED
        BY <2>5, <3>1, <3>2 DEF StoredOK
  <2>7. (UNCHANGED pass /\ pc' = "sync") \/ Return("error") \/ Return("worker")
    BY <1>14 DEF SyncHead
  <2>8. /\ pass' \in Passes /\ pass'.copies = pass.copies /\ pass'.listed = pass.listed
        /\ pc' \in {"sync", "wait"}
    BY <2>7, ReturnType DEF ChainOK
  <2>9. strikes' \in [Workers -> 0..FailuresToGetBanned + 1]
    BY <1>14, CallFailsType DEF SyncHead, PoolOK
  <2>10. UNCHANGED <<batches, bproof, fproof, pinned, election, pool, task>>
    BY <1>14 DEF SyncHead
  <2> QED
    BY <2>3, <2>4, <2>6, <2>8, <2>9, <2>10 DEF StoredOK, PoolOK, ChainOK
<1>15. CASE SyncBatch
  <2>1. UNCHANGED <<fproof, pinned, head, election, pool, task>>
    BY <1>15 DEF SyncBatch
  <2>2. CASE /\ next <= Len(batches) /\ Holds(batches[next])
             /\ fc' = [fc EXCEPT !.pending = Append(@, Pending(next, batches[next]))]
             /\ UNCHANGED <<batches, bproof, jobs, strikes, pc, pass, faults>>
    <3> DEFINE p == Pending(next, batches[next])
               longer == Append(fc.pending, p)
    <3>1. next \in 1..Len(batches) /\ next \in Batches
        BY <1>a, <2>2 DEF next, Counts, StoredOK, Batches
    <3>a. batches[next] \in Inputs
        BY <3>1, ElementOfSeq DEF StoredOK
    <3>2. p \in Pendings
        BY <3>1, <3>a DEF Pending, Pendings, Inputs
    <3> HIDE DEF p
    <3>3. longer \in Seq(Pendings) /\ Len(longer) = Len(fc.pending) + 1
        BY <1>a, <3>2, AppendProperties DEF Counts
    <3> HIDE DEF longer
    <3>4. fc' = [fc EXCEPT !.pending = longer]
        BY <2>2 DEF longer, p
    <3>5. fc' \in Chains /\ fc'.folded = fc.folded /\ fc'.pending = longer
        BY <3>3, <3>4 DEF ChainOK, Chains
    <3>6. fc'.folded + Len(fc'.pending) <= Len(batches)
        BY <1>a, <2>2, <3>3, <3>5 DEF next, Counts
    <3> QED
        BY <2>1, <2>2, <3>5, <3>6 DEF StoredOK, PoolOK, ChainOK
  <2>3. CASE /\ next <= Len(batches)
             /\ Import(next, batches[next], bproof[next], UNCHANGED <<pc, pass>>)
    <3>1. next \in 1..Len(batches) /\ next \in Batches
        BY <1>a, <2>3 DEF next, Counts, StoredOK, Batches
    <3>2. batches[next] \in Inputs /\ bproof[next] \in Places
        BY <3>1, ElementOfSeq DEF StoredOK
    <3>3. /\ batches' \in Seq(Inputs) /\ Len(batches') = Len(batches)
          /\ bproof' \in [Batches -> Places]
          /\ strikes' \in [Workers -> 0..FailuresToGetBanned + 1]
          /\ fc' \in Chains /\ fc'.folded = fc.folded
          /\ \/ Len(fc'.pending) = Len(fc.pending) + 1 /\ UNCHANGED <<pc, pass>>
             \/ fc'.pending = fc.pending /\ (Return("error") \/ Return("worker"))
        BY <2>3, <3>1, <3>2, ImportType
    <3>4. /\ pass' \in Passes /\ pass'.copies = pass.copies /\ pass'.listed = pass.listed
          /\ pc' \in {pc, "wait"}
        BY <3>3, ReturnType DEF ChainOK
    <3>5. fc'.folded + Len(fc'.pending) <= Len(batches)
        BY <1>a, <2>3, <3>3 DEF next, Counts, ChainOK
    <3> QED
        BY <2>1, <3>3, <3>4, <3>5 DEF StoredOK, PoolOK, ChainOK
  <2>4. CASE /\ fc' = [fc EXCEPT !.synced = TRUE, !.resync = FALSE] /\ pc' = "gather"
             /\ pass' = [pass EXCEPT !.mine = {}]
             /\ UNCHANGED <<batches, bproof, jobs, strikes, faults>>
    <3>1. fc' \in Chains /\ fc'.folded = fc.folded /\ fc'.pending = fc.pending
        BY <2>4 DEF ChainOK, Chains
    <3>2. pass' \in Passes /\ pass'.copies = pass.copies /\ pass'.listed = pass.listed
        BY <2>4 DEF ChainOK, Passes
    <3> QED
        BY <2>1, <2>4, <3>1, <3>2 DEF StoredOK, PoolOK, ChainOK
  <2> QED
    <3>1. CASE next <= Len(batches)
        BY <1>15, <2>2, <2>3, <2>4, <3>1, Zenon DEF SyncBatch
    <3>2. CASE ~(next <= Len(batches))
        BY <1>15, <2>4, <3>2, Zenon DEF SyncBatch
    <3> QED
        BY <3>1, <3>2
<1>16. CASE GatherStep
  <2>1. /\ pass' = pass \/ pass' = [pass EXCEPT !.at = @ + 1] \/ pass' = [pass EXCEPT !.out = "ok"]
        /\ pc' \in {"gather", "fold", "wait"}
    BY <1>16 DEF GatherStep, Gather, GatherFolds, Return
  <2>2. pass' \in Passes /\ pass'.copies = pass.copies /\ pass'.listed = pass.listed
    BY <1>c, <2>1 DEF Passes
  <2> QED
    BY <1>16, <2>1, <2>2 DEF GatherStep, StoredOK, PoolOK, ChainOK
<1>17. CASE Scatter
  <2> DEFINE copies == topUp(pass.copies)
             new == {k \in Window(copies) : task[k].st = "none"}
             rest == SubSeq(batches, Len(pass.copies) + 1, Len(batches))
  <2>1. /\ Wanting /\ pass' = [pass EXCEPT !.copies = copies]
        /\ task' = [k \in Batches |-> IF k \in new THEN newTask(k, copies[k]) ELSE task[k]]
        /\ UNCHANGED <<stored, election, provers, fc, pc>>
    BY <1>17 DEF Scatter
  <2>2. rest \in Seq(Inputs) /\ Len(rest) = Len(batches) - Len(pass.copies)
    <3>1. \A i \in Len(pass.copies) + 1 .. Len(batches) : batches[i] \in Inputs
        BY <1>a, ElementOfSeq DEF StoredOK, Counts
    <3>2. Len(pass.copies) <= Len(batches)
        BY DEF ChainOK
    <3>3. Len(pass.copies) + 1 \in Int /\ Len(batches) \in Int
        BY <1>a DEF Counts
    <3>4. /\ rest \in Seq(Inputs)
          /\ Len(rest) = IF Len(pass.copies) + 1 <= Len(batches)
                         THEN Len(batches) - (Len(pass.copies) + 1) + 1 ELSE 0
        BY <3>1, <3>3, SubSeqProperties
    <3> HIDE DEF rest
    <3>5. Len(batches) \in Nat /\ Len(pass.copies) \in Nat
        BY <1>a DEF Counts
    <3> QED
        BY <3>2, <3>4, <3>5, RestLength
  <2> HIDE DEF rest
  <2>3. copies = pass.copies \o rest
    BY DEF topUp, rest
  <2>4. copies \in Seq(Inputs) /\ Len(copies) = Len(batches)
    <3> HIDE DEF copies
    <3>1. pass.copies \in Seq(Inputs) /\ Len(batches) \in Nat /\ Len(pass.copies) \in Nat
        BY <1>a DEF Counts
    <3>2. copies \in Seq(Inputs) /\ Len(copies) = Len(pass.copies) + Len(rest)
        BY <2>2, <2>3, <3>1, ConcatProperties
    <3> QED
        BY <2>2, <3>1, <3>2
  <2> HIDE DEF copies
  <2>5. pass.at \in 1..Len(copies)
    <3>1. pass.at = next /\ pass.at <= Len(pass.copies)
        BY <2>1 DEF Wanting, size
    <3>2. Len(pass.copies) <= Len(batches) /\ next >= 1
        BY <1>a DEF ChainOK, next, Counts
    <3> QED
        BY <1>a, <2>4, <3>1, <3>2 DEF Counts
  <2>6. \A k \in new : copies[k] \in Inputs
    <3>1. \A k \in Window(copies) : k \in pass.at..Len(copies)
        BY <2>4, <2>5, WindowIn
    <3>2. \A k \in pass.at..Len(copies) : copies[k] \in Inputs
        BY <1>a, <2>4, <2>5, ElementOfSeq DEF Counts
    <3> QED
        BY <3>1, <3>2
  <2>7. \A k \in Batches : copies[k] \in Inputs => newTask(k, copies[k]) \in Tasks
    <3>1. \A k \in Batches : bproof[k] \in Places /\ fc.avoid[k] \in SUBSET Workers
        BY DEF StoredOK, ChainOK, Chains
    <3>2. \A k \in Batches : copies[k] \in Inputs => copies[k].worker \in Places
        BY DEF Inputs
    <3> QED
        BY <3>1, <3>2 DEF newTask, Tasks, Running
  <2> HIDE DEF new
  <2>8. task' \in [Batches -> Tasks]
    BY <2>1, <2>6, <2>7 DEF ChainOK
  <2>9. pass' \in Passes /\ pass'.copies = copies /\ pass'.listed = pass.listed
    BY <2>1, <2>4 DEF ChainOK, Passes
  <2>10. Len(pass'.copies) <= Len(batches) /\ pass'.listed <= Len(pass'.copies)
    BY <1>a, <2>4, <2>9 DEF ChainOK, Counts
  <2> QED
    BY <2>1, <2>8, <2>9, <2>10 DEF StoredOK, PoolOK, ChainOK
<1>18. CASE Gathered
  <2>0. /\ Wanting /\ UNCHANGED <<fproof, pinned, head, election, pool>>
        /\ task' = [task EXCEPT ![pass.at] = NoTask]
    BY <1>18 DEF Gathered
  <2>1. /\ pass.at = next /\ pass.at \in 1..Len(pass.copies) /\ pass.at \in 1..Len(batches)
        /\ pass.at \in Batches
    <3>1. pass.at = next /\ pass.at <= Len(pass.copies)
        BY <2>0 DEF Wanting, size
    <3>2. Len(pass.copies) <= Len(batches) /\ next >= 1 /\ Len(batches) <= MaxBatches
        BY <1>a DEF ChainOK, StoredOK, next, Counts
    <3> QED
        BY <1>a, <3>1, <3>2 DEF Counts, Batches
  <2>2. task' \in [Batches -> Tasks]
    <3>1. NoTask \in Tasks
        BY DEF NoTask, Tasks
    <3> QED
        BY <2>0, <3>1 DEF ChainOK
  <2>3. /\ pass.copies[pass.at] \in Inputs /\ task[pass.at].w \in Places
        /\ fc.pin \in Places
    BY <1>a, <1>c, <2>1, ElementOfSeq DEF ChainOK, Tasks, Counts, Chains
  <2> DEFINE goOn == /\ pass' = [pass EXCEPT !.at = @ + 1, !.mine = @ \cup {pass.at},
                                             !.copies[pass.at].imported = task[pass.at].w,
                                             !.copies[pass.at].on = fc.pin]
                     /\ UNCHANGED pc
  <2>4. CASE Import(pass.at, pass.copies[pass.at], task[pass.at].w, goOn)
    <3>1. /\ batches' \in Seq(Inputs) /\ Len(batches') = Len(batches)
          /\ bproof' \in [Batches -> Places]
          /\ strikes' \in [Workers -> 0..FailuresToGetBanned + 1]
          /\ fc' \in Chains /\ fc'.folded = fc.folded
          /\ \/ Len(fc'.pending) = Len(fc.pending) + 1 /\ goOn
             \/ fc'.pending = fc.pending /\ (Return("error") \/ Return("worker"))
      <4>1. pass.at <= Len(batches)
        BY <1>a, <2>1 DEF Counts
      <4> QED
        BY <2>1, <2>3, <2>4, <4>1, ImportType
    <3>4. /\ pass' \in Passes /\ Len(pass'.copies) = Len(pass.copies)
          /\ pass'.listed = pass.listed /\ pc' \in {pc, "wait"}
      <4>1. CASE goOn
        <5> DEFINE bi == [pass.copies[pass.at] EXCEPT !.imported = task[pass.at].w, !.on = fc.pin]
                   cs == [pass.copies EXCEPT ![pass.at] = bi]
        <5>1. bi \in Inputs
            BY <2>3 DEF Inputs
        <5>2. pass' = [pass EXCEPT !.at = @ + 1, !.mine = @ \cup {pass.at}, !.copies = cs]
            BY <1>a, <1>c, <2>1, <4>1 DEF Passes, Counts
        <5> HIDE DEF bi
        <5>3. cs \in Seq(Inputs) /\ Len(cs) = Len(pass.copies)
            BY <1>a, <2>1, <5>1, ExceptSeq DEF Counts
        <5> HIDE DEF cs
        <5>4. /\ pass' \in Passes /\ Len(pass'.copies) = Len(pass.copies)
              /\ pass'.listed = pass.listed
          <6> DEFINE at == pass.at + 1
                     mine == pass.mine \cup {pass.at}
          <6>1. at \in Nat /\ mine \in SUBSET Batches
            BY <1>a, <1>c, <2>1 DEF Counts, Passes
          <6>2. pass' = [pass EXCEPT !.at = at, !.mine = mine, !.copies = cs]
            BY <5>2
          <6> HIDE DEF at, mine
          <6> QED
            BY <1>c, <5>3, <6>1, <6>2 DEF Passes
        <5> QED
            BY <4>1, <5>4
      <4>2. CASE Return("error") \/ Return("worker")
        BY <4>2, ReturnType
      <4> HIDE DEF goOn
      <4> QED
        BY <3>1, <4>1, <4>2
    <3>5. fc'.folded + Len(fc'.pending) <= Len(batches)
        BY <1>a, <2>1, <3>1 DEF next, Counts, ChainOK
    <3> QED
        BY <2>0, <2>2, <3>1, <3>4, <3>5 DEF StoredOK, PoolOK, ChainOK
  <2>5. CASE /\ Return(IF stopped THEN "ok" ELSE "error")
             /\ UNCHANGED <<batches, bproof, jobs, strikes, fc, faults>>
    <3>1. /\ pass' \in Passes /\ pass'.copies = pass.copies
          /\ pass'.listed = pass.listed /\ pc' = "wait"
        BY <2>5, ReturnType
    <3> QED
        BY <2>0, <2>2, <2>5, <3>1 DEF StoredOK, PoolOK, ChainOK
  <2> QED
    BY <1>18, <2>4, <2>5, Zenon DEF Gathered
<1>19. CASE \E k \in Batches : TaskReuse(k)
  <2>1. PICK k \in Batches : TaskReuse(k)
    BY <1>19
  <2>2. task' \in [Batches -> Tasks]
    <3>1. CASE task' = [task EXCEPT ![k] = [@ EXCEPT !.st = "proved"]]
        BY <3>1 DEF ChainOK, Tasks, Running
    <3>2. CASE task' = [task EXCEPT ![k] = [@ EXCEPT !.st = "acquire", !.w = None]]
        BY <3>2 DEF ChainOK, Tasks, Running
    <3> QED
        BY <2>1, <3>1, <3>2 DEF TaskReuse, ChainOK
  <2>3. strikes' \in [Workers -> 0..FailuresToGetBanned + 1]
    BY <2>1, StrikesType DEF TaskReuse, PoolOK
  <2> QED
    BY <2>1, <2>2, <2>3 DEF TaskReuse, StoredOK, PoolOK, ChainOK
<1>20. CASE \E k \in Batches : TaskSubmit(k)
  <2>1. PICK k \in Batches : TaskSubmit(k)
    BY <1>20
  <2>2. PICK w \in Workers :
          /\ task' = [task EXCEPT ![k].st = "prove", ![k].w = w]
          /\ pass' = [pass EXCEPT !.copies[k].worker = w]
          /\ \/ SetBatchInput(k, [pass.copies[k] EXCEPT !.worker = w])
             \/ UNCHANGED batches
    BY <2>1 DEF TaskSubmit, Acquirable, Usable
  <2>3. UNCHANGED <<bproof, fproof, pinned, head, election, workers, fc, pc>>
    BY <2>1 DEF TaskSubmit
  <2>4. k \in 1..Len(pass.copies) /\ k \in 1..Len(batches)
    <3>1. k <= Len(pass.copies)
        BY <1>s, <2>1 DEF TaskInv, TaskSubmit
    <3>2. Len(pass.copies) <= Len(batches)
        BY DEF ChainOK
    <3> QED
        BY <1>a, <3>1, <3>2 DEF Batches, Counts
  <2> DEFINE bi == [pass.copies[k] EXCEPT !.worker = w]
             cs == [pass.copies EXCEPT ![k] = bi]
  <2>5. bi \in Inputs
    <3>1. pass.copies[k] \in Inputs
        BY <1>a, <2>4, ElementOfSeq DEF Counts
    <3> QED
        BY <3>1 DEF Inputs
  <2>6. pass' = [pass EXCEPT !.copies = cs]
    BY <2>2
  <2>7. UNCHANGED batches \/ batches' = [batches EXCEPT ![k] = bi]
    BY <2>2 DEF SetBatchInput
  <2> HIDE DEF bi
  <2>8. cs \in Seq(Inputs) /\ Len(cs) = Len(pass.copies)
    BY <1>a, <2>4, <2>5, ExceptSeq DEF Counts
  <2>9. batches' \in Seq(Inputs) /\ Len(batches') = Len(batches)
    <3>1. batches \in Seq(Inputs)
        BY DEF StoredOK
    <3> QED
        BY <2>4, <2>5, <2>7, <3>1, ExceptSeq
  <2> HIDE DEF cs
  <2>10. pass' \in Passes /\ pass'.copies = cs /\ pass'.listed = pass.listed
    BY <1>c, <2>6, <2>8 DEF Passes
  <2>11. task' \in [Batches -> Tasks]
    BY <2>2 DEF ChainOK, Tasks, Running
  <2> QED
    BY <2>3, <2>8, <2>9, <2>10, <2>11 DEF StoredOK, PoolOK, ChainOK
<1>21. CASE \E k \in Batches : TaskSubmitFails(k)
  <2>1. PICK k \in Batches : TaskSubmitFails(k)
    BY <1>21
  <2>2. task' \in [Batches -> Tasks]
    BY <2>1 DEF TaskSubmitFails, ChainOK, Tasks, Running, NextTry, Acquirable, Usable
  <2>3. bproof' \in [Batches -> Places]
    BY <2>1 DEF TaskSubmitFails, StoredOK, ChainOK, Tasks
  <2>4. strikes' \in [Workers -> 0..FailuresToGetBanned + 1]
    BY <2>1, StrikesType DEF TaskSubmitFails, PoolOK
  <2> QED
    BY <2>1, <2>2, <2>3, <2>4 DEF TaskSubmitFails, StoredOK, PoolOK, ChainOK
<1>22. CASE \E k \in Batches : TaskRefused(k)
  <2>1. PICK k \in Batches : TaskRefused(k)
    BY <1>22
  <2>2. task' \in [Batches -> Tasks]
    BY <2>1 DEF TaskRefused, ChainOK, Tasks, Running
  <2>3. bproof' \in [Batches -> Places]
    BY <2>1 DEF TaskRefused, StoredOK, ChainOK, Tasks
  <2>4. strikes' \in [Workers -> 0..FailuresToGetBanned + 1]
    BY <2>1 DEF TaskRefused, PoolOK
  <2> QED
    BY <2>1, <2>2, <2>3, <2>4 DEF TaskRefused, StoredOK, PoolOK, ChainOK
<1>23. CASE \E k \in Batches : TaskProved(k)
  <2>1. PICK k \in Batches : TaskProved(k)
    BY <1>23
  <2>2. task' \in [Batches -> Tasks]
    <3>1. CASE task' = [task EXCEPT ![k] = [@ EXCEPT !.st = "proved"]]
        BY <3>1 DEF ChainOK, Tasks, Running
    <3>2. CASE task' = [task EXCEPT ![k] = NextTry(@, task[k].w)]
        BY <3>2 DEF ChainOK, Tasks, Running, NextTry
    <3> QED
        BY <2>1, <3>1, <3>2 DEF TaskProved, ChainOK
  <2>3. strikes' \in [Workers -> 0..FailuresToGetBanned + 1]
    BY <2>1, StrikesType DEF TaskProved, PoolOK
  <2> QED
    BY <2>1, <2>2, <2>3 DEF TaskProved, StoredOK, PoolOK, ChainOK
<1>24. CASE \E k \in Batches : TaskCheck(k)
  <2>1. PICK k \in Batches : TaskCheck(k)
    BY <1>24
  <2>2. task' \in [Batches -> Tasks]
    BY <2>1 DEF TaskCheck, ChainOK, Tasks, Running
  <2>3. bproof' \in [Batches -> Places]
    BY <2>1 DEF TaskCheck, StoredOK, ChainOK, Tasks
  <2>4. strikes' \in [Workers -> 0..FailuresToGetBanned + 1]
    BY <2>1 DEF TaskCheck, PoolOK
  <2> QED
    BY <2>1, <2>2, <2>3, <2>4 DEF TaskCheck, StoredOK, PoolOK, ChainOK
<1>25. CASE \E k \in Batches : TaskStore(k)
  <2>1. PICK k \in Batches : TaskStore(k)
    BY <1>25
  <2>2. task' \in [Batches -> Tasks]
    <3>1. CASE task' = [task EXCEPT ![k].st = "stored"]
        BY <3>1 DEF ChainOK, Tasks, Running
    <3>2. CASE task' = [task EXCEPT ![k].st = "failed"]
        BY <3>2 DEF ChainOK, Tasks
    <3> QED
        BY <2>1, <3>1, <3>2 DEF TaskStore
  <2>3. bproof' \in [Batches -> Places]
    BY <2>1 DEF TaskStore, StoredOK, ChainOK, Tasks, SetBatchProof
  <2>4. strikes' \in [Workers -> 0..FailuresToGetBanned + 1]
    BY <2>1 DEF TaskStore, PoolOK
  <2> QED
    BY <2>1, <2>2, <2>3, <2>4 DEF TaskStore, StoredOK, PoolOK, ChainOK
<1>26. CASE \E k \in Batches : TaskRecheck(k)
  <2>1. PICK k \in Batches : TaskRecheck(k)
    BY <1>26
  <2>2. task' \in [Batches -> Tasks]
    BY <2>1 DEF TaskRecheck, ChainOK, Tasks, Running
  <2>3. bproof' \in [Batches -> Places]
    BY <2>1 DEF TaskRecheck, StoredOK, ChainOK, Tasks, DeleteBatchProof
  <2>5. election' \in {"open", "ended", "stopped", "clean", "left"}
    BY <2>1 DEF TaskRecheck, StoredOK
  <2>4. strikes' \in [Workers -> 0..FailuresToGetBanned + 1]
    BY <2>1 DEF TaskRecheck, PoolOK
  <2> QED
    BY <2>1, <2>2, <2>3, <2>4, <2>5 DEF TaskRecheck, StoredOK, PoolOK, ChainOK
<1>27. CASE FoldSkip
    BY <1>27 DEF StoredOK, PoolOK, ChainOK, FoldSkip, Return, Passes
<1>28. CASE Bootstrap
    BY <1>28, StrikesType DEF StoredOK, PoolOK, ChainOK, Bootstrap
<1>29. CASE Learn
    BY <1>29 DEF StoredOK, PoolOK, ChainOK, Learn, Chains
<1>30. CASE FoldRuns
  <2> DEFINE added == [i \in 1..Len(fc.pending) |-> fc.pending[i].batch]
             c == fc.last \o added
  <2>1. /\ pass' = [pass EXCEPT !.made = c] /\ pc' = "commit" /\ Succeeded(fc.pin)
        /\ UNCHANGED <<stored, election, pool, fc, task>>
    BY <1>30 DEF FoldRuns
  <2>2. added \in Seq(Batches)
    <3>1. \A i \in 1..Len(fc.pending) : fc.pending[i] \in Pendings
        BY <1>a, ElementOfSeq DEF Counts
    <3>2. \A i \in 1..Len(fc.pending) : fc.pending[i].batch \in Batches
        BY <3>1 DEF Pendings
    <3> QED
        BY <1>a, <3>2 DEF Counts
  <2> HIDE DEF added
  <2>3. c \in Seq(Batches)
    BY <1>a, <2>2, ConcatProperties DEF Counts
  <2> HIDE DEF c
  <2>4. pass' \in Passes /\ pass'.copies = pass.copies /\ pass'.listed = pass.listed
    BY <1>c, <2>1, <2>3 DEF Passes
  <2>5. strikes' \in [Workers -> 0..FailuresToGetBanned + 1]
    BY <2>1, StrikesType
  <2> QED
    BY <2>1, <2>4, <2>5 DEF StoredOK, PoolOK, ChainOK
<1>31. CASE FoldFails
  <2>1. /\ foldFailed(TRUE) \/ foldFailed(FALSE)
        /\ Failed(fc.pin, maxJobAttempts)
        /\ UNCHANGED <<fproof, pinned, head, election, pool, jobs, task>>
    BY <1>31 DEF FoldFails
  <2>2. PICK r \in BOOLEAN : foldFailed(r)
    BY <2>1
  <2>3. FailedType(r)
    BY <2>2, FoldFailedType
  <2>4. strikes' \in [Workers -> 0..FailuresToGetBanned + 1]
    BY <2>1, StrikesType DEF maxJobAttempts
  <2> QED
    BY <2>1, <2>3, <2>4 DEF StoredOK, PoolOK, ChainOK, FailedType
<1>32. CASE FetchFails
    BY <1>32, StrikesType, CallFailsType DEF StoredOK, PoolOK, ChainOK, FetchFails, Return, Passes
<1>33. CASE CommitFold
  <2> DEFINE c == [fc EXCEPT !.last = pass.made, !.lastOn = fc.pin,
                            !.folded = @ + Len(fc.pending), !.pending = <<>>,
                            !.failures = 0, !.reproved = FALSE, !.suspect = FALSE,
                            !.avoid = [k \in Batches |-> {}]]
  <2>1. /\ head' = checkpoint(c) /\ fproof' = pass.made /\ fc' = c
        /\ bproof' = [k \in Batches |-> IF k \in fc.folded + 1 .. c.folded THEN None ELSE bproof[k]]
        /\ UNCHANGED <<batches, pinned, election, provers, task, faults>>
        /\ Return("ok") \/ (pc' = "gather" /\ UNCHANGED pass)
    BY <1>33 DEF CommitFold
  <2>2. pass.made \in Seq(Batches) /\ fc.pin \in Places
    BY <1>c DEF Chains, Passes
  <2> DEFINE d == [fc EXCEPT !.last = pass.made, !.lastOn = fc.pin,
                            !.folded = @ + Len(fc.pending)]
             e == [d EXCEPT !.pending = <<>>, !.failures = 0, !.reproved = FALSE]
  <2>a. c = [e EXCEPT !.suspect = FALSE, !.avoid = [k \in Batches |-> {}]]
    OBVIOUS
  <2> HIDE DEF c
  <2>3. d \in Chains /\ d.folded = fc.folded + Len(fc.pending)
    <3>1. fc.folded + Len(fc.pending) \in Nat
        BY <1>a DEF Counts
    <3> QED
        BY <1>c, <2>2, <3>1 DEF Chains
  <2> HIDE DEF d
  <2>b. e \in Chains /\ e.folded = d.folded /\ e.pending = <<>>
    <3>1. 0 \in 0..maxFoldFailures - 1 /\ <<>> \in Seq(Pendings)
        BY EmptySeq DEF maxFoldFailures
    <3> QED
        BY <2>3, <3>1 DEF Chains
  <2> HIDE DEF e
  <2>4. c \in Chains /\ c.folded = fc.folded + Len(fc.pending) /\ c.pending = <<>>
    BY <2>3, <2>a, <2>b DEF Chains
  <2>5. c.folded <= Len(batches) /\ c.folded + Len(c.pending) <= Len(batches)
    BY <1>a, <2>4 DEF ChainOK, Counts
  <2>6. checkpoint(c) \in Checkpoints /\ checkpoint(c).folded = c.folded
    BY <2>4 DEF checkpoint, Checkpoints, Chains
  <2>7. bproof' \in [Batches -> Places]
    BY <2>1 DEF StoredOK
  <2>8. /\ pass' \in Passes /\ pass'.copies = pass.copies /\ pass'.listed = pass.listed
        /\ pc' \in {"gather", "wait"}
    BY <1>c, <2>1, ReturnType
  <2> QED
    BY <2>1, <2>2, <2>4, <2>5, <2>6, <2>7, <2>8 DEF StoredOK, PoolOK, ChainOK
<1>34. CASE CommitFails
    BY <1>34 DEF StoredOK, PoolOK, ChainOK, CommitFails, Return, Passes
<1> QED
    BY <1>s, <1>1, <1>2, <1>3, <1>4, <1>5, <1>6, <1>7, <1>8, <1>9, <1>10, <1>11, <1>12, <1>13, <1>14, <1>15, <1>16, <1>17, <1>18, <1>19, <1>20, <1>21, <1>22, <1>23, <1>24, <1>25, <1>26, <1>27, <1>28, <1>29, <1>30, <1>31, <1>32, <1>33, <1>34 DEF Next, Env, Drive, Task

\* No task runs at the start.
LEMMA TaskInit == Init => TaskInv
BY DEF Init, TaskInv, NoTask

\* A step of the pool, the engine or the provers leaves the pass alone.
Outside ==
    \/ UNCHANGED vars \/ Seal \/ End \/ Stop \/ deleteProofs
    \/ \E w \in Workers : \E st \in {"away", "gone"} : WorkerLost(w, st)
    \/ \E w \in Workers : WorkerBack(w) \/ BanEnds(w) \/ WorkerWiped(w)

\* It does, and it never takes a stop of the election back.
LEMMA OutsideFrame ==
    ASSUME Outside
    PROVE  UNCHANGED <<head, fc, pc, pass, task>> /\ (stopped => stopped')
BY DEF Outside, vars, stored, workers, provers, Seal, End, Stop, deleteProofs, WorkerLost,
       WorkerBack, BanEnds, WorkerWiped, stopped

\* The steps that start a pass or put the chain on its worker, before any task.
Starting == foldWorker \/ SyncHead \/ SyncBatch \/ \E d \in BOOLEAN : Dispatch(d)

\* They leave the tasks alone.
LEMMA StartingFrame ==
    ASSUME Starting
    PROVE  pc \notin Driving /\ UNCHANGED <<election, task>>
BY DEF Starting, foldWorker, SyncHead, SyncBatch, Dispatch, Driving

\* The steps of a pass that neither gather, fail nor commit.
Folds == GatherStep \/ FoldSkip \/ Bootstrap \/ Learn \/ FoldRuns \/ FetchFails \/ CommitFails

\* They keep the chain's batches and the storage.
LEMMA FoldsFrame ==
    ASSUME TypeOK, Folds
    PROVE  /\ pc \in Driving /\ pc' \in Driving /\ UNCHANGED <<stored, election, task>>
           /\ fc'.folded = fc.folded /\ fc'.pending = fc.pending /\ fc'.last = fc.last
           /\ fc'.resync = fc.resync /\ pass'.copies = pass.copies /\ pass'.mine = pass.mine
<1>c. fc \in Chains /\ pass \in Passes
    BY DEF TypeOK, ChainOK
<1>1. /\ UNCHANGED <<stored, election, task>> /\ pc \in Driving /\ pc' \in Driving
    BY DEF Folds, GatherStep, Gather, GatherFolds, FoldSkip, Bootstrap, Learn, FoldRuns, FetchFails,
           CommitFails, Return, Folding, Driving
<1>2. fc' = fc \/ fc' = [fc EXCEPT !.aggVK = TRUE]
    BY DEF Folds, GatherStep, FoldSkip, Bootstrap, Learn, FoldRuns, FetchFails, CommitFails
<1>3. \/ pass' = pass \/ pass' = [pass EXCEPT !.at = @ + 1]
      \/ \E out : pass' = [pass EXCEPT !.out = out] \/ \E c : pass' = [pass EXCEPT !.made = c]
    BY DEF Folds, GatherStep, Gather, GatherFolds, FoldSkip, Bootstrap, Learn, FoldRuns, FetchFails,
           CommitFails, Return
<1>4. /\ fc'.folded = fc.folded /\ fc'.pending = fc.pending /\ fc'.last = fc.last
      /\ fc'.resync = fc.resync
    BY <1>c, <1>2 DEF Chains
<1>5. pass'.copies = pass.copies /\ pass'.mine = pass.mine
    BY <1>c, <1>3 DEF Passes
<1> QED
    BY <1>1, <1>4, <1>5

\* A task's step is on a task, leaves the chain alone and keeps the other tasks.
LEMMA TaskFrame ==
    ASSUME TypeOK, NEW k \in Batches, Task(k)
    PROVE  /\ task[k].st \notin {"none", "done", "failed"} /\ task'[k].st # "none"
           /\ UNCHANGED <<fproof, pinned, head, fc, pc>>
           /\ UNCHANGED election \/ (election = "clean" /\ election' = "left")
           /\ \A j \in Batches : j # k => task'[j] = task[j]
           /\ Len(pass'.copies) = Len(pass.copies) /\ pass'.mine = pass.mine
           /\ pass'.made = pass.made
<1>1. task \in [Batches -> Tasks] /\ pass \in Passes /\ pass.copies \in Seq(Inputs)
    BY Numbers DEF TypeOK, ChainOK, Counts
<1> USE DEF stored, workers, provers
<1>2. /\ task[k].st \notin {"none", "done", "failed"}
      /\ UNCHANGED <<fproof, pinned, head, fc, pc>>
      /\ UNCHANGED election \/ (election = "clean" /\ election' = "left")
    BY DEF Task, TaskReuse, TaskSubmit, TaskSubmitFails, TaskRefused, TaskProved, TaskCheck,
           TaskStore, TaskRecheck
<1>3. \E t : t.st # "none" /\ task' = [task EXCEPT ![k] = t]
  <2>1. CASE TaskReuse(k)
    BY <1>1, <2>1 DEF TaskReuse, Tasks
  <2>2. CASE TaskSubmit(k)
    BY <1>1, <2>2 DEF TaskSubmit, Tasks
  <2>3. CASE TaskSubmitFails(k)
    BY <1>1, <2>3 DEF TaskSubmitFails, NextTry
  <2>4. CASE TaskRefused(k)
    BY <1>1, <2>4 DEF TaskRefused, Tasks
  <2>5. CASE TaskProved(k)
    BY <1>1, <2>5 DEF TaskProved, NextTry, Tasks
  <2>6. CASE TaskCheck(k)
    BY <1>1, <2>6 DEF TaskCheck, Tasks
  <2>7. CASE TaskStore(k)
    BY <1>1, <2>7 DEF TaskStore, Tasks
  <2>8. CASE TaskRecheck(k)
    BY <1>1, <2>8 DEF TaskRecheck, Tasks
  <2> QED
    BY <2>1, <2>2, <2>3, <2>4, <2>5, <2>6, <2>7, <2>8 DEF Task
<1>4. UNCHANGED pass \/ \E w : pass' = [pass EXCEPT !.copies[k].worker = w]
    BY DEF Task, TaskReuse, TaskSubmit, TaskSubmitFails, TaskRefused, TaskProved, TaskCheck,
           TaskStore, TaskRecheck
<1>5. /\ Len(pass'.copies) = Len(pass.copies) /\ pass'.mine = pass.mine
      /\ pass'.made = pass.made
    BY <1>1, <1>4 DEF Passes
<1> QED
    BY <1>1, <1>2, <1>3, <1>5

\* What a step of the scheduler is.
LEMMA Steps ==
    ASSUME [Next]_vars
    PROVE  \/ Outside \/ Crash \/ Starting \/ Waited \/ Folds \/ Scatter \/ Gathered \/ FoldFails
           \/ CommitFold \/ \E k \in Batches : Task(k)
BY DEF Next, Env, Drive, Outside, Starting, Folds

\* A step of sync's loop leaves the chain's fold alone: a batch the worker holds,
\* or one whose stored proof is imported, becomes pending, or a batch is reset.
LEMMA SyncBatchFrame ==
    ASSUME TypeOK, SyncBatch
    PROVE  /\ pc = "sync" /\ fc'.folded = fc.folded /\ fc'.last = fc.last
           /\ \/ fc'.pending = fc.pending
              \/ /\ next \in Batches /\ UNCHANGED <<bproof, pass>>
                 /\ \E x : /\ x.batch = next /\ fc'.pending = Append(fc.pending, x)
                           /\ x.imported = bproof[next] \/ ~fc.resync
           /\ \/ pc' = "sync" /\ fc'.resync = fc.resync /\ UNCHANGED pass
              \/ pc' = "wait" /\ fc'.resync = fc.resync /\ pass'.mine = pass.mine
              \/ pc' = "gather" /\ pass'.mine = {}
           /\ UNCHANGED bproof \/ (next \in Batches /\ ResetBatch({next}) /\ fc'.pending = fc.pending)
<1>a. Counts
    BY Numbers
<1>c. /\ pass \in Passes /\ fc \in Chains /\ ChainOK /\ StoredOK
    BY DEF TypeOK, ChainOK
<1>n. next <= Len(batches) => next \in Batches /\ batches[next] \in Inputs
  <2>1. next <= Len(batches) => next \in 1..Len(batches) /\ next \in Batches
    BY <1>a, <1>c, BatchesAssumption DEF next, Counts, StoredOK, Batches
  <2> QED
    BY <1>c, <2>1, ElementOfSeq DEF StoredOK
<1>p. pc = "sync"
    BY DEF SyncBatch
<1>r. ASSUME Return("error") \/ Return("worker")
      PROVE  pc' = "wait" /\ pass'.mine = pass.mine
    BY <1>c, <1>r, ReturnType
<1>1. CASE /\ next <= Len(batches) /\ Holds(batches[next])
           /\ fc' = [fc EXCEPT !.pending = Append(@, Pending(next, batches[next]))]
           /\ UNCHANGED <<batches, bproof, jobs, strikes, pc, pass, faults>>
  <2> DEFINE x == Pending(next, batches[next])
  <2>1. x.batch = next /\ ~fc.resync
    BY <1>1 DEF Pending, Holds
  <2>2. /\ fc'.pending = Append(fc.pending, x)
        /\ fc'.folded = fc.folded /\ fc'.last = fc.last /\ fc'.resync = fc.resync
    BY <1>1, <1>c DEF Chains
  <2> HIDE DEF x
  <2> QED
    BY <1>1, <1>n, <1>p, <2>1, <2>2
<1>2. CASE /\ next <= Len(batches)
           /\ Import(next, batches[next], bproof[next], UNCHANGED <<pc, pass>>)
  <2> DEFINE bi == [batches[next] EXCEPT !.imported = bproof[next], !.on = fc.pin]
             x == Pending(next, bi)
  <2>1. CASE /\ fc' = [fc EXCEPT !.pending = Append(@, x)] /\ UNCHANGED <<pc, pass, bproof>>
    <3>1. x.batch = next /\ x.imported = bproof[next]
        BY <1>2, <1>n DEF Pending, Inputs
    <3>2. /\ fc'.pending = Append(fc.pending, x)
          /\ fc'.folded = fc.folded /\ fc'.last = fc.last /\ fc'.resync = fc.resync
        BY <1>c, <2>1 DEF Chains
    <3> HIDE DEF x
    <3> QED
        BY <1>2, <1>n, <1>p, <2>1, <3>1, <3>2
  <2>2. CASE Return("error") /\ UNCHANGED <<batches, bproof, fc>>
    BY <1>p, <1>r, <2>2
  <2>3. CASE /\ Return("error") /\ dropBatchProofs({next})
             /\ fc' = [fc EXCEPT !.avoid = Avoiding({Pending(next, batches[next])})]
    <3>1. /\ fc'.pending = fc.pending
          /\ fc'.folded = fc.folded /\ fc'.last = fc.last /\ fc'.resync = fc.resync
        BY <1>c, <2>3 DEF Chains
    <3> QED
        BY <1>2, <1>c, <1>n, <1>p, <1>r, <2>3, <3>1, DropOne
  <2>4. CASE Return("worker") /\ UNCHANGED <<batches, bproof, jobs, fc>>
    BY <1>p, <1>r, <2>4
  <2> QED
    BY <1>2, <2>1, <2>2, <2>3, <2>4 DEF Import
<1>3. CASE /\ fc' = [fc EXCEPT !.synced = TRUE, !.resync = FALSE] /\ pc' = "gather"
           /\ pass' = [pass EXCEPT !.mine = {}]
           /\ UNCHANGED <<batches, bproof, jobs, strikes, faults>>
  <2>1. fc'.pending = fc.pending /\ fc'.folded = fc.folded /\ fc'.last = fc.last
    BY <1>3, <1>c DEF Chains
  <2>2. pass'.mine = {}
    BY <1>3, <1>c DEF Passes
  <2> QED
    BY <1>3, <1>p, <2>1, <2>2
<1> QED
  <2>1. CASE next <= Len(batches)
    BY <1>1, <1>2, <1>3, <2>1, Zenon DEF SyncBatch
  <2>2. CASE ~(next <= Len(batches))
    BY <1>3, <2>2, Zenon DEF SyncBatch
  <2> QED
    BY <2>1, <2>2

\* scatter.start makes tasks for batches the pass lists from its position on, and
\* of a stored proof a task that is done.
LEMMA ScatterFrame ==
    ASSUME TypeOK, Scatter
    PROVE  /\ pc = "gather" /\ ~stopped /\ UNCHANGED <<stored, election, fc, pc>>
           /\ pass'.mine = pass.mine /\ pass'.made = pass.made
           /\ Len(pass'.copies) >= Len(pass.copies)
           /\ \A k \in Batches :
                \/ task'[k] = task[k]
                \/ /\ task[k].st = "none" /\ k >= next /\ k <= Len(pass'.copies)
                   /\ task'[k].st # "stored"
                   /\ task'[k].st = "done" => task'[k].w = bproof[k]
<1>a. Counts
    BY Numbers
<1>c. pass \in Passes /\ ChainOK /\ StoredOK
    BY DEF TypeOK, ChainOK
<1> DEFINE copies == topUp(pass.copies)
           new == {k \in Window(copies) : task[k].st = "none"}
           rest == SubSeq(batches, Len(pass.copies) + 1, Len(batches))
<1>1. /\ Wanting /\ ~stopped /\ pass' = [pass EXCEPT !.copies = copies]
      /\ task' = [k \in Batches |-> IF k \in new THEN newTask(k, copies[k]) ELSE task[k]]
      /\ UNCHANGED <<stored, election, provers, fc, pc>>
    BY DEF Scatter
<1>2. rest \in Seq(Inputs)
  <2>1. \A i \in Len(pass.copies) + 1 .. Len(batches) : batches[i] \in Inputs
    BY <1>a, <1>c, ElementOfSeq DEF StoredOK, Counts
  <2>2. Len(pass.copies) + 1 \in Int /\ Len(batches) \in Int
    BY <1>a DEF Counts
  <2> QED
    BY <2>1, <2>2, SubSeqProperties
<1>3. copies = pass.copies \o rest
    BY DEF topUp
<1> HIDE DEF rest, copies
<1>4. copies \in Seq(Inputs) /\ Len(copies) = Len(pass.copies) + Len(rest) /\ Len(rest) \in Nat
    BY <1>a, <1>2, <1>3, ConcatProperties, LenProperties DEF Counts
<1>5. Len(copies) >= Len(pass.copies) /\ Len(copies) \in Nat
    BY <1>a, <1>4 DEF Counts
<1>6. pass.at = next /\ pass.at \in 1..Len(copies)
  <2>1. pass.at = next /\ pass.at <= Len(pass.copies)
    BY <1>1 DEF Wanting, size
  <2>2. next >= 1
    BY <1>a DEF next, Counts
  <2> QED
    BY <1>a, <1>5, <2>1, <2>2 DEF Counts
<1>7. \A k \in new : k \in next..Len(copies) /\ task[k].st = "none"
    BY <1>4, <1>6, <1>c, WindowIn
<1>8. /\ pass'.copies = copies /\ pass'.mine = pass.mine /\ pass'.made = pass.made
    BY <1>1, <1>c DEF Passes
<1> HIDE DEF new
<1>9. ASSUME NEW k \in Batches
      PROVE  \/ task'[k] = task[k]
             \/ /\ task[k].st = "none" /\ k >= next /\ k <= Len(copies)
                /\ task'[k].st # "stored" /\ (task'[k].st = "done" => task'[k].w = bproof[k])
  <2>1. CASE k \in new
    <3>1. task'[k] = newTask(k, copies[k])
        BY <1>1, <2>1
    <3>2. k >= next /\ k <= Len(copies) /\ task[k].st = "none"
        BY <1>5, <1>6, <1>7, <2>1
    <3>3. task'[k].st # "stored" /\ (task'[k].st = "done" => task'[k].w = bproof[k])
        BY <3>1 DEF newTask
    <3> QED
        BY <3>2, <3>3
  <2>2. CASE k \notin new
    BY <1>1, <2>2
  <2> QED
    BY <2>1, <2>2
<1>10. pc = "gather"
    BY <1>1 DEF Wanting
<1> QED
    BY <1>1, <1>5, <1>8, <1>9, <1>10

\* importBatch of the batch at the pass's position.
GatherOn ==
    /\ task[pass.at].st = "done" /\ ~stopped /\ UNCHANGED <<pc, bproof>>
    /\ fc'.pending = Append(fc.pending, Pending(pass.at, [pass.copies[pass.at]
                                           EXCEPT !.imported = task[pass.at].w, !.on = fc.pin]))
    /\ pass'.mine = pass.mine \cup {pass.at} /\ Len(pass'.copies) = Len(pass.copies)

\* It adds the batch to the pending ones, or the pass returns.
LEMMA GatheredFrame ==
    ASSUME TypeOK, Gathered
    PROVE  /\ pc = "gather" /\ pass.at = next /\ pass.at \in Batches
           /\ task[pass.at].st \in {"done", "failed"}
           /\ task' = [task EXCEPT ![pass.at] = NoTask]
           /\ UNCHANGED <<fproof, pinned, head, election>>
           /\ fc'.folded = fc.folded /\ fc'.last = fc.last /\ fc'.resync = fc.resync
           /\ UNCHANGED bproof \/ ResetBatch({pass.at})
           /\ \/ GatherOn
              \/ /\ fc'.pending = fc.pending /\ pc' = "wait" /\ pass'.mine = pass.mine
                 /\ pass'.copies = pass.copies
<1>a. Counts
    BY Numbers
<1>c. /\ pass \in Passes /\ fc \in Chains /\ ChainOK /\ StoredOK
    BY DEF TypeOK, ChainOK
<1>1. /\ Wanting /\ UNCHANGED <<fproof, pinned, head, election>>
      /\ task' = [task EXCEPT ![pass.at] = NoTask]
    BY DEF Gathered
<1>2. /\ pc = "gather" /\ pass.at = next /\ pass.at \in 1..Len(pass.copies) /\ pass.at \in Batches
  <2>1. pc = "gather" /\ pass.at = next /\ pass.at <= Len(pass.copies)
    BY <1>1 DEF Wanting, size
  <2>2. Len(pass.copies) <= Len(batches) /\ next >= 1 /\ Len(batches) <= MaxBatches
    BY <1>a, <1>c DEF ChainOK, StoredOK, next, Counts
  <2> QED
    BY <1>a, <2>1, <2>2, BatchesAssumption DEF Counts, Batches
<1>3. task[pass.at].st \in {"done", "failed"}
    BY Zenon DEF Gathered
<1> DEFINE bi == [pass.copies[pass.at] EXCEPT !.imported = task[pass.at].w, !.on = fc.pin]
           goOn == /\ pass' = [pass EXCEPT !.at = @ + 1, !.mine = @ \cup {pass.at},
                                           !.copies[pass.at].imported = task[pass.at].w,
                                           !.copies[pass.at].on = fc.pin]
                   /\ UNCHANGED pc
<1>4. ASSUME Return("error") \/ Return("worker") \/ Return("ok")
      PROVE  pc' = "wait" /\ pass'.mine = pass.mine /\ pass'.copies = pass.copies
    BY <1>4, <1>c, ReturnType
<1>5. CASE /\ task[pass.at].st = "done" /\ ~stopped
           /\ Import(pass.at, pass.copies[pass.at], task[pass.at].w, goOn)
  <2>1. CASE /\ SetBatchInput(pass.at, bi) /\ goOn /\ UNCHANGED bproof
             /\ fc' = [fc EXCEPT !.pending = Append(@, Pending(pass.at, bi))]
    <3>1. /\ fc'.pending = Append(fc.pending, Pending(pass.at, bi))
          /\ fc'.folded = fc.folded /\ fc'.last = fc.last /\ fc'.resync = fc.resync
        BY <1>c, <2>1 DEF Chains
    <3>2. pass'.mine = pass.mine \cup {pass.at} /\ Len(pass'.copies) = Len(pass.copies)
        BY <1>a, <1>c, <2>1 DEF Passes, Counts
    <3>3. GatherOn
        BY <1>5, <2>1, <3>1, <3>2 DEF GatherOn
    <3> QED
        BY <1>1, <1>2, <1>3, <2>1, <3>1, <3>3
  <2>2. CASE Return("error") /\ UNCHANGED <<batches, bproof, fc>>
    BY <1>1, <1>2, <1>3, <1>4, <2>2
  <2>3. CASE /\ Return("error") /\ dropBatchProofs({pass.at})
             /\ fc' = [fc EXCEPT !.avoid = Avoiding({Pending(pass.at, pass.copies[pass.at])})]
    <3>1. /\ fc'.pending = fc.pending
          /\ fc'.folded = fc.folded /\ fc'.last = fc.last /\ fc'.resync = fc.resync
        BY <1>c, <2>3 DEF Chains
    <3> QED
        BY <1>1, <1>2, <1>3, <1>4, <1>c, <2>3, <3>1, DropOne
  <2>4. CASE Return("worker") /\ UNCHANGED <<batches, bproof, jobs, fc>>
    BY <1>1, <1>2, <1>3, <1>4, <2>4
  <2> HIDE DEF goOn, bi
  <2> QED
    BY <1>5, <2>1, <2>2, <2>3, <2>4 DEF Import, bi
<1>6. CASE /\ Return(IF stopped THEN "ok" ELSE "error")
           /\ UNCHANGED <<batches, bproof, jobs, strikes, fc, faults>>
    BY <1>1, <1>2, <1>3, <1>4, <1>6
<1> QED
    BY <1>5, <1>6, Zenon DEF Gathered

\* A failed fold drops no proof, or drops those of the pending batches and the
\* pending batches with them.
LEMMA FailsFrame ==
    ASSUME TypeOK, FoldFails
    PROVE  /\ pc \in Driving /\ UNCHANGED <<fproof, pinned, head, election, task>>
           /\ FailedType(TRUE) /\ fc'.resync = fc.resync
           /\ \A k \in Batches :
                \/ bproof'[k] = bproof[k]
                \/ /\ bproof'[k] = None /\ fc'.pending = <<>>
                   /\ \E i \in 1..Len(fc.pending) : k = fc.pending[i].batch
<1>1. /\ pc \in Driving /\ (foldFailed(TRUE) \/ foldFailed(FALSE))
      /\ UNCHANGED <<fproof, pinned, head, election, task>>
    BY DEF FoldFails, Folding, Driving
<1>2. PICK r \in BOOLEAN : foldFailed(r)
    BY <1>1
<1>3. FailedType(TRUE)
    BY <1>2, FoldFailedType DEF FailedType
<1>4. fc \in Chains
    BY DEF TypeOK, ChainOK
<1> DEFINE ps == {fc.pending[i] : i \in 1..Len(fc.pending)}
           ks == {p.batch : p \in ps}
<1>5. ks = {fc.pending[i].batch : i \in 1..Len(fc.pending)}
    OBVIOUS
<1> HIDE DEF ks
<1>6. \/ UNCHANGED bproof /\ \E n : fc' = [fc EXCEPT !.failures = n]
      \/ UNCHANGED bproof /\ fc' = [fc EXCEPT !.failures = 0, !.suspect = TRUE]
      \/ /\ fc' = [fc EXCEPT !.failures = 0, !.reproved = TRUE, !.avoid = Avoiding(ps), !.pending = <<>>]
         /\ \E done \in SUBSET ks : ResetBatch(done)
    BY <1>2 DEF foldFailed, dropBatchProofs, ks
<1> HIDE DEF ps
<1>7. fc'.resync = fc.resync /\ (UNCHANGED bproof \/ (fc'.pending = <<>> /\ \E done \in SUBSET ks : ResetBatch(done)))
    BY <1>4, <1>6 DEF Chains
<1>8. ASSUME NEW k \in Batches
      PROVE  \/ bproof'[k] = bproof[k]
             \/ /\ bproof'[k] = None /\ fc'.pending = <<>>
                /\ \E i \in 1..Len(fc.pending) : k = fc.pending[i].batch
  <2>1. \/ UNCHANGED bproof
        \/ fc'.pending = <<>> /\ (bproof'[k] = bproof[k] \/ (k \in ks /\ bproof'[k] = None))
    BY <1>7 DEF ResetBatch
  <2>2. k \in ks => \E i \in 1..Len(fc.pending) : k = fc.pending[i].batch
    BY <1>5
  <2> QED
    BY <2>1, <2>2
<1> QED
    BY <1>1, <1>3, <1>7, <1>8

\* CommitFold moves the pending batches into the checkpoint, which counts them.
LEMMA CommitFrame ==
    ASSUME TypeOK, CommitFold
    PROVE  /\ pc = "commit" /\ pc' \in {"gather", "wait"} /\ UNCHANGED <<election, task>>
           /\ fc'.folded = fc.folded + Len(fc.pending) /\ fc'.pending = <<>>
           /\ fc'.last = pass.made /\ fc'.resync = fc.resync
           /\ head'.last = pass.made /\ head'.folded = fc.folded + Len(fc.pending)
           /\ fproof' = pass.made /\ pass'.copies = pass.copies /\ pass'.mine = pass.mine
           /\ bproof' = [k \in Batches |-> IF k \in fc.folded + 1 .. fc.folded + Len(fc.pending)
                                           THEN None ELSE bproof[k]]
<1> DEFINE c == [fc EXCEPT !.last = pass.made, !.lastOn = fc.pin,
                           !.folded = @ + Len(fc.pending), !.pending = <<>>,
                           !.failures = 0, !.reproved = FALSE, !.suspect = FALSE,
                           !.avoid = [k \in Batches |-> {}]]
<1>1. fc \in Chains /\ pass \in Passes /\ ChainOK
    BY DEF TypeOK, ChainOK
<1>2. /\ pc = "commit" /\ head' = checkpoint(c) /\ fproof' = pass.made /\ fc' = c
      /\ bproof' = [k \in Batches |-> IF k \in fc.folded + 1 .. c.folded THEN None ELSE bproof[k]]
      /\ UNCHANGED <<batches, pinned, election, provers, task, faults>>
      /\ Return("ok") \/ (pc' = "gather" /\ UNCHANGED pass)
    BY DEF CommitFold
<1>3. /\ c.folded = fc.folded + Len(fc.pending) /\ c.pending = <<>> /\ c.last = pass.made
      /\ c.resync = fc.resync
    BY <1>1 DEF Chains
<1>4. pc' \in {"gather", "wait"} /\ pass'.copies = pass.copies /\ pass'.mine = pass.mine
    BY <1>1, <1>2, ReturnType
<1> HIDE DEF c
<1>5. head'.last = c.last /\ head'.folded = c.folded
    BY <1>2 DEF checkpoint
<1> QED
    BY <1>2, <1>3, <1>4, <1>5

\* The pass waits for its proves, and keeps the chain for the next attempt.
LEMMA WaitedFrame ==
    ASSUME TypeOK, Waited
    PROVE  /\ pc = "wait" /\ pc' \in {"worker", "idle"} /\ Quiet
           /\ task' = [k \in Batches |-> NoTask] /\ UNCHANGED <<stored, election>>
           /\ fc'.folded = fc.folded /\ fc'.pending = fc.pending /\ fc'.last = fc.last
           /\ \/ pass' = NoPass
              \/ pass'.mine = pass.mine /\ fc'.resync = TRUE
<1>1. fc \in Chains /\ pass \in Passes
    BY DEF TypeOK, ChainOK
<1>2. /\ pc = "wait" /\ pc' \in {"worker", "idle"} /\ Quiet /\ fc' = Resync(fc, pass.out)
      /\ task' = [k \in Batches |-> NoTask] /\ UNCHANGED <<stored, election>>
    BY DEF Waited
<1>3. \/ pass' = NoPass
      \/ /\ pass.out = "worker"
         /\ pass' = [pass EXCEPT !.attempt = 2, !.at = 1, !.out = "ok",
                                 !.copies = SubSeq(@, 1, pass.listed)]
    BY DEF Waited
<1>4. /\ fc'.folded = fc.folded /\ fc'.pending = fc.pending /\ fc'.last = fc.last
      /\ pass.out = "worker" => fc'.resync = TRUE
    BY <1>1, <1>2 DEF Resync, Chains
<1>5. pass' = NoPass \/ (pass.out = "worker" /\ pass'.mine = pass.mine)
    BY <1>1, <1>3 DEF Passes
<1> QED
    BY <1>2, <1>4, <1>5

\* Tasks stay with their pass.
LEMMA TaskNext == TypeOK /\ TaskInv /\ [Next]_vars => TaskInv'
<1> SUFFICES ASSUME TypeOK, TaskInv, [Next]_vars, NEW k \in Batches, task'[k].st # "none"
             PROVE  pc' \in Driving /\ k <= Len(pass'.copies) /\ k >= next'
    BY DEF TaskInv
<1>a. Counts
    BY Numbers
<1>b. next \in Nat /\ k \in Nat /\ Len(pass.copies) \in Nat
    BY <1>a, BatchesAssumption DEF next, Counts, Batches
<1>i. task[k].st # "none" => pc \in Driving /\ k <= Len(pass.copies) /\ k >= next
    BY DEF TaskInv
<1>n. task'[k] # NoTask
    BY DEF NoTask
<1>1. CASE Outside
    BY <1>1, <1>i, OutsideFrame DEF next
<1>2. CASE Crash
    BY <1>2, <1>n DEF Crash
<1>3. CASE Starting
    BY <1>3, <1>i, StartingFrame
<1>4. CASE Waited
    BY <1>4, <1>n, WaitedFrame
<1>5. CASE Folds
  <2>1. next' = next
    BY <1>5, FoldsFrame DEF next
  <2> QED
    BY <1>5, <1>i, <2>1, FoldsFrame
<1>6. CASE Scatter
  <2>1. /\ Len(pass'.copies) >= Len(pass.copies) /\ pc' = "gather" /\ next' = next
        /\ task'[k] = task[k] \/ (k >= next /\ k <= Len(pass'.copies))
    BY <1>6, ScatterFrame DEF next
  <2>2. TypeOK'
    BY TypeNext
  <2>3. Len(pass'.copies) \in Nat
    BY <2>2, LenProperties DEF TypeOK, ChainOK, Passes
  <2> QED
    BY <1>b, <1>i, <2>1, <2>3 DEF Driving
<1>7. CASE Gathered
  <2>1. /\ pc = "gather" /\ pass.at = next /\ task' = [task EXCEPT ![pass.at] = NoTask]
        /\ fc'.folded = fc.folded
        /\ \/ GatherOn
           \/ fc'.pending = fc.pending /\ pc' = "wait" /\ pass'.copies = pass.copies
    BY <1>7, GatheredFrame
  <2>2. task \in [Batches -> Tasks]
    BY DEF TypeOK, ChainOK
  <2>3. k # pass.at /\ task'[k] = task[k]
    BY <1>n, <2>1, <2>2
  <2>4. k <= Len(pass.copies) /\ k > next
    BY <1>b, <1>i, <2>1, <2>3
  <2>5. CASE GatherOn
    <3>1. Len(fc'.pending) = Len(fc.pending) + 1
      <4> DEFINE x == Pending(pass.at, [pass.copies[pass.at] EXCEPT !.imported = task[pass.at].w, !.on = fc.pin])
      <4>1. fc'.pending = Append(fc.pending, x)
        BY <2>5 DEF GatherOn
      <4> HIDE DEF x
      <4>2. fc.pending \in Seq(Pendings \cup {x}) /\ x \in Pendings \cup {x}
        BY <1>a DEF Counts
      <4>3. Len(Append(fc.pending, x)) = Len(fc.pending) + 1
        BY <4>2, AppendProperties
      <4> QED
        BY <4>1, <4>3
    <3>2. next' = next + 1
      <4>1. fc'.folded = fc.folded /\ fc.folded \in Nat /\ Len(fc.pending) \in Nat
        BY <1>a, <2>1 DEF Counts
      <4> QED
        BY <3>1, <4>1 DEF next
    <3> QED
        BY <1>b, <2>1, <2>4, <2>5, <3>2 DEF GatherOn, Driving
  <2>6. CASE fc'.pending = fc.pending /\ pc' = "wait" /\ pass'.copies = pass.copies
    BY <1>b, <2>1, <2>4, <2>6 DEF next, Driving
  <2> QED
    BY <2>1, <2>5, <2>6
<1>8. CASE FoldFails
  <2>1. /\ UNCHANGED task /\ pc \in Driving /\ pc' = "wait" /\ fc'.folded = fc.folded
        /\ fc'.pending \in {<<>>, fc.pending} /\ Len(pass'.copies) = Len(pass.copies)
    BY <1>8, FailsFrame DEF FailedType
  <2>2. next' <= next /\ next' \in Nat
    <3>1. Len(<<>>) = 0
        BY EmptySeq
    <3> QED
        BY <1>a, <2>1, <3>1 DEF next, Counts
  <2> QED
    BY <1>b, <1>i, <2>1, <2>2 DEF Driving
<1>9. CASE CommitFold
  <2>1. /\ pc' \in Driving /\ UNCHANGED task /\ fc'.folded = fc.folded + Len(fc.pending)
        /\ fc'.pending = <<>> /\ pass'.copies = pass.copies
    BY <1>9, CommitFrame DEF Driving
  <2>2. next' = next
    BY <1>a, <2>1, EmptySeq DEF next, Counts
  <2> QED
    BY <1>i, <2>1, <2>2
<1>10. CASE \E j \in Batches : Task(j)
  <2>1. PICK j \in Batches : Task(j)
    BY <1>10
  <2>2. /\ task[j].st # "none" /\ UNCHANGED <<fc, pc>> /\ (k # j => task'[k] = task[k])
        /\ Len(pass'.copies) = Len(pass.copies)
    BY <2>1, TaskFrame
  <2> QED
    BY <1>i, <2>2 DEF next
<1> QED
    BY <1>1, <1>2, <1>3, <1>4, <1>5, <1>6, <1>7, <1>8, <1>9, <1>10, Steps

\* Every variable has its type, and the tasks stay with their pass, whatever
\* fails and however often the chain moves.
THEOREM TypeCorrect == Spec => [](TypeOK /\ TaskInv)
<1>1. Init => TypeOK /\ TaskInv
    BY TypeInit, TaskInit
<1>2. TypeOK /\ TaskInv /\ [Next]_vars => (TypeOK /\ TaskInv)'
    BY TypeNext, TaskNext
<1> QED
    BY <1>1, <1>2, PTL DEF Spec

-----------------------------------------------------------------------------
(* The chain is a prefix of the batches. *)

\* The chain starts from the checkpoint or from genesis, its pending batches
\* follow it in order, and the fold that is about to be committed holds them all.
PrefixInv ==
    /\ FoldIsPrefix
    /\ fc.folded \in {0, head.folded}
    /\ \A i \in 1..Len(fc.pending) : fc.pending[i].batch = fc.folded + i
    /\ pc = "commit" => pass.made = Prefix(fc.folded + Len(fc.pending))

\* Only the empty prefix is empty.
LEMMA PrefixEmpty ==
    ASSUME NEW n \in Nat
    PROVE  Prefix(n) = <<>> <=> n = 0
<1>1. Prefix(n) \in Seq(Nat) /\ Len(Prefix(n)) = n
    BY DEF Prefix
<1>2. Prefix(n) = <<>> => n = 0
    BY <1>1, EmptySeq
<1>3. n = 0 => Prefix(n) = <<>>
    BY <1>1, EmptySeq
<1> QED
    BY <1>2, <1>3

\* A prefix and the batches that follow it are a prefix.
LEMMA PrefixGrows ==
    ASSUME NEW n \in Nat, NEW m \in Nat, NEW s \in Seq(Nat), Len(s) = m,
           \A i \in 1..m : s[i] = n + i
    PROVE  Prefix(n) \o s = Prefix(n + m)
<1>1. Prefix(n) \in Seq(Nat) /\ Len(Prefix(n)) = n /\ \A i \in 1..n : Prefix(n)[i] = i
    BY DEF Prefix
<1>2. Prefix(n + m) \in Seq(Nat) /\ Len(Prefix(n + m)) = n + m /\ \A i \in 1..n + m : Prefix(n + m)[i] = i
    BY DEF Prefix
<1>3. /\ Prefix(n) \o s \in Seq(Nat) /\ Len(Prefix(n) \o s) = n + m
      /\ \A i \in 1..n + m : (Prefix(n) \o s)[i] = IF i <= n THEN Prefix(n)[i] ELSE s[i - n]
  <2> DEFINE q == Prefix(n)
  <2>1. q \in Seq(Nat) /\ Len(q) = n
    BY <1>1
  <2> HIDE DEF q
  <2>2. /\ q \o s \in Seq(Nat) /\ Len(q \o s) = Len(q) + Len(s)
        /\ \A i \in 1..Len(q) + Len(s) : (q \o s)[i] = IF i <= Len(q) THEN q[i] ELSE s[i - Len(q)]
    BY <2>1, ConcatProperties
  <2>3. /\ q \o s \in Seq(Nat) /\ Len(q \o s) = n + m
        /\ \A i \in 1..n + m : (q \o s)[i] = IF i <= n THEN q[i] ELSE s[i - n]
    BY <2>1, <2>2
  <2> QED
    BY <2>3 DEF q
<1>4. \A i \in 1..n + m : (Prefix(n) \o s)[i] = i
    BY <1>1, <1>3
<1> QED
    BY <1>2, <1>3, <1>4, SeqEqual

\* A batch that follows the pending ones keeps them in order.
LEMMA InOrder ==
    ASSUME Counts, \A i \in 1..Len(fc.pending) : fc.pending[i].batch = fc.folded + i,
           NEW x, x.batch = next
    PROVE  \A i \in 1..Len(Append(fc.pending, x)) : Append(fc.pending, x)[i].batch = fc.folded + i
<1>1. fc.pending \in Seq(Pendings \cup {x}) /\ x \in Pendings \cup {x}
    BY DEF Counts
<1>2. /\ Len(Append(fc.pending, x)) = Len(fc.pending) + 1
      /\ \A i \in 1..Len(fc.pending) : Append(fc.pending, x)[i] = fc.pending[i]
      /\ Append(fc.pending, x)[Len(fc.pending) + 1] = x
    BY <1>1, AppendProperties
<1> DEFINE longer == Append(fc.pending, x)
<1> HIDE DEF longer
<1> SUFFICES ASSUME NEW i \in 1..Len(longer) PROVE longer[i].batch = fc.folded + i
    BY DEF longer
<1>3. fc.folded \in Nat /\ Len(fc.pending) \in Nat
    BY DEF Counts
<1>4. CASE i \in 1..Len(fc.pending)
    BY <1>2, <1>4 DEF longer
<1>5. CASE i = Len(fc.pending) + 1
  <2>1. longer[i] = x
    BY <1>2, <1>5 DEF longer
  <2>2. next = fc.folded + i
    BY <1>3, <1>5 DEF next
  <2> QED
    BY <2>1, <2>2
<1> QED
  <2>1. i \in 1..Len(fc.pending) + 1
    BY <1>2 DEF longer
  <2> QED
    BY <1>3, <1>4, <1>5, <2>1

\* The checkpoint a version without stored proofs left is a prefix.
LEMMA PrefixInit == Init => PrefixInv
<1> SUFFICES ASSUME Init PROVE PrefixInv
    OBVIOUS
<1>1. fc = Loaded /\ pc = "idle" /\ fproof = <<>> /\ head.folded = Legacy /\ head.last = Prefix(Legacy)
    BY DEF Init
<1>2. fc.folded = head.folded /\ fc.last = head.last /\ fc.pending = <<>>
    BY <1>1 DEF Loaded
<1> QED
    BY <1>1, <1>2, EmptySeq DEF PrefixInv, FoldIsPrefix

\* Every step keeps the chain a prefix.
LEMMA PrefixNext == TypeOK /\ PrefixInv /\ [Next]_vars => PrefixInv'
<1>s. SUFFICES ASSUME TypeOK, PrefixInv, [Next]_vars PROVE PrefixInv'
    OBVIOUS
<1>a. Counts
    BY <1>s, Numbers
<1>c. fc \in Chains /\ pass \in Passes /\ TypeOK
    BY <1>s DEF TypeOK, ChainOK
<1>i. /\ head.last = Prefix(head.folded) /\ fc.last = Prefix(fc.folded)
      /\ fproof # <<>> => fproof = head.last
      /\ fc.folded \in {0, head.folded}
      /\ \A i \in 1..Len(fc.pending) : fc.pending[i].batch = fc.folded + i
      /\ pc = "commit" => pass.made = Prefix(fc.folded + Len(fc.pending))
    BY <1>s DEF PrefixInv, FoldIsPrefix
<1>e. Len(<<>>) = 0
    BY EmptySeq
<1> USE DEF PrefixInv, FoldIsPrefix
<1>1. CASE Outside
  <2>1. fproof' \in {fproof, <<>>}
    BY <1>1 DEF Outside, vars, stored, Seal, End, Stop, deleteProofs, DeleteProofs, WorkerLost,
                WorkerBack, BanEnds, WorkerWiped
  <2> QED
    BY <1>1, <1>i, <2>1, OutsideFrame
<1>2. CASE Crash
  <2>1. fproof' \in {fproof, <<>>} /\ fc' = Loaded /\ UNCHANGED head /\ pc' = "idle"
    BY <1>2 DEF Crash, DeleteProofs
  <2>2. fc'.folded = head.folded /\ fc'.last = head.last /\ fc'.pending = <<>>
    BY <2>1 DEF Loaded
  <2> QED
    BY <1>e, <1>i, <2>1, <2>2
<1>3. CASE \E d \in BOOLEAN : Dispatch(d)
    BY <1>3, <1>i DEF Dispatch, stored
<1>4. CASE foldWorker
  <2>1. UNCHANGED <<head, fproof, pass>> /\ pc' # "commit"
    BY <1>4 DEF foldWorker
  <2>2. \/ fc' = fc \/ fc' = [fc EXCEPT !.synced = FALSE]
        \/ \E w : fc' = [fc EXCEPT !.synced = FALSE, !.pin = w]
    BY <1>4 DEF foldWorker
  <2>3. fc'.folded = fc.folded /\ fc'.last = fc.last /\ fc'.pending = fc.pending
    BY <1>c, <2>2 DEF Chains
  <2> QED
    BY <1>i, <2>1, <2>3
<1>5. CASE SyncHead
  <2> DEFINE c == [fc EXCEPT !.last = fproof, !.lastOn = fc.pin]
  <2>1. UNCHANGED fproof /\ pc' # "commit"
    BY <1>5 DEF SyncHead, Return
  <2>2. CASE fc' \in {fc, [fc EXCEPT !.pending = <<>>]} /\ UNCHANGED head
    <3>1. fc'.folded = fc.folded /\ fc'.last = fc.last /\ fc'.pending \in {<<>>, fc.pending}
        BY <1>c, <2>2 DEF Chains
    <3> QED
        BY <1>e, <1>i, <2>1, <2>2, <3>1
  <2>3. CASE /\ fc' = [fc EXCEPT !.last = <<>>, !.lastOn = None, !.folded = 0, !.pending = <<>>]
             /\ UNCHANGED head
    <3>1. fc'.folded = 0 /\ fc'.last = <<>> /\ fc'.pending = <<>>
        BY <1>c, <2>3 DEF Chains
    <3>2. Prefix(0) = <<>>
        BY PrefixEmpty
    <3> QED
        BY <1>e, <1>i, <2>1, <2>3, <3>1, <3>2
  <2>4. CASE /\ HeadMissing /\ fproof # <<>> /\ fc' \in {c, [c EXCEPT !.pending = <<>>]}
             /\ UNCHANGED head \/ head' = checkpoint(c)
    <3>1. fc.folded = head.folded
      <4>1. fc.last # <<>>
        BY <2>4 DEF HeadMissing
      <4>2. fc.folded # 0
        BY <1>i, <4>1, PrefixEmpty
      <4> QED
        BY <1>i, <4>2
    <3>2. fproof = Prefix(head.folded)
        BY <1>i, <2>4
    <3>3. fc'.folded = fc.folded /\ fc'.last = fproof /\ fc'.pending \in {<<>>, fc.pending}
        BY <1>c, <2>4 DEF Chains
    <3>4. c.folded = fc.folded /\ c.last = fproof
        BY <1>c DEF Chains
    <3> HIDE DEF c
    <3>5. head'.folded = head.folded /\ head'.last = fproof
      <4>1. checkpoint(c).folded = c.folded /\ checkpoint(c).last = c.last
        BY DEF checkpoint
      <4> QED
        BY <1>i, <2>4, <3>1, <3>2, <3>4, <4>1
    <3> QED
        BY <1>e, <1>i, <2>1, <3>1, <3>2, <3>3, <3>5
  <2> QED
    BY <1>5, <2>2, <2>3, <2>4 DEF SyncHead, Genesis, SetFoldCheckpoint
<1>6. CASE SyncBatch
  <2>1. UNCHANGED <<head, fproof>> /\ pc' # "commit"
    BY <1>6 DEF SyncBatch, Import, Return
  <2>2. /\ fc'.folded = fc.folded /\ fc'.last = fc.last
        /\ \/ fc'.pending = fc.pending
           \/ \E x : x.batch = next /\ fc'.pending = Append(fc.pending, x)
    BY <1>6, <1>c, SyncBatchFrame
  <2>3. \A i \in 1..Len(fc'.pending) : fc'.pending[i].batch = fc'.folded + i
    BY <1>a, <1>i, <2>2, InOrder
  <2> QED
    BY <1>i, <2>1, <2>2, <2>3
<1>7. CASE Waited
  <2>1. /\ pc' # "commit" /\ UNCHANGED <<head, fproof>>
        /\ fc'.folded = fc.folded /\ fc'.pending = fc.pending /\ fc'.last = fc.last
    BY <1>7, <1>c, WaitedFrame DEF stored
  <2> QED
    BY <1>i, <2>1
<1>8. CASE Folds
  <2>1. /\ UNCHANGED <<head, fproof>>
        /\ fc'.folded = fc.folded /\ fc'.pending = fc.pending /\ fc'.last = fc.last
    BY <1>8, <1>c, FoldsFrame DEF stored
  <2>2. CASE FoldRuns
    <3> DEFINE added == [i \in 1..Len(fc.pending) |-> fc.pending[i].batch]
    <3>1. pass' = [pass EXCEPT !.made = fc.last \o added]
        BY <2>2 DEF FoldRuns
    <3>2. /\ added \in Seq(Nat) /\ Len(added) = Len(fc.pending)
          /\ \A i \in 1..Len(fc.pending) : added[i] = fc.folded + i
      <4>1. Len(fc.pending) \in Nat /\ fc.folded \in Nat
        BY <1>a DEF Counts
      <4>2. \A i \in 1..Len(fc.pending) : fc.pending[i].batch = fc.folded + i
        BY <1>i
      <4> QED
        BY <4>1, <4>2
    <3> HIDE DEF added
    <3>3. fc.last \o added = Prefix(fc.folded + Len(fc.pending))
      <4>1. Len(fc.pending) \in Nat /\ fc.folded \in Nat /\ fc.last = Prefix(fc.folded)
        BY <1>a, <1>i DEF Counts
      <4> QED
        BY <3>2, <4>1, PrefixGrows
    <3>4. pass'.made = Prefix(fc.folded + Len(fc.pending))
        BY <1>c, <3>1, <3>3 DEF Passes
    <3> QED
        BY <1>i, <2>1, <3>4
  <2>3. CASE ~FoldRuns
    <3>1. pc' # "commit"
        BY <1>8, <2>3 DEF Folds, GatherStep, Gather, GatherFolds, FoldSkip, Bootstrap, Learn,
                          FetchFails, CommitFails, Return
    <3> QED
        BY <1>i, <2>1, <3>1
  <2> QED
    BY <2>2, <2>3
<1>9. CASE Scatter
    BY <1>9, <1>c, <1>i, ScatterFrame DEF stored
<1>10. CASE Gathered
  <2>1. /\ pc' # "commit" /\ UNCHANGED <<head, fproof>>
        /\ fc'.folded = fc.folded /\ fc'.last = fc.last
    BY <1>10, <1>c, GatheredFrame DEF GatherOn
  <2>2. \/ fc'.pending = fc.pending
        \/ \E x : x.batch = next /\ fc'.pending = Append(fc.pending, x)
    BY <1>10, <1>c, GatheredFrame DEF GatherOn, Pending
  <2>3. \A i \in 1..Len(fc'.pending) : fc'.pending[i].batch = fc'.folded + i
    BY <1>a, <1>i, <2>1, <2>2, InOrder
  <2> QED
    BY <1>i, <2>1, <2>3
<1>11. CASE FoldFails
  <2>1. /\ pc' = "wait" /\ UNCHANGED <<head, fproof>>
        /\ fc'.folded = fc.folded /\ fc'.last = fc.last /\ fc'.pending \in {<<>>, fc.pending}
    BY <1>11, <1>c, FailsFrame DEF FailedType
  <2> QED
    BY <1>e, <1>i, <2>1
<1>12. CASE CommitFold
  <2>1. /\ pc = "commit" /\ pc' # "commit" /\ fproof' = pass.made /\ fc'.last = pass.made
        /\ fc'.folded = fc.folded + Len(fc.pending) /\ fc'.pending = <<>>
        /\ head'.last = pass.made /\ head'.folded = fc.folded + Len(fc.pending)
    BY <1>12, <1>c, CommitFrame
  <2> QED
    BY <1>e, <1>i, <2>1
<1>13. CASE \E k \in Batches : Task(k)
  <2>1. UNCHANGED <<fproof, head, fc, pc>> /\ pass'.made = pass.made
    BY <1>13, <1>c, TaskFrame
  <2> QED
    BY <1>i, <2>1
<1> QED
    BY <1>s, <1>1, <1>2, <1>3, <1>4, <1>5, <1>6, <1>7, <1>8, <1>9, <1>10, <1>11, <1>12, <1>13, Steps
       DEF Starting

\* The checkpoint and the chain in the process count exactly the batches their
\* folds hold, in order and each once (fold, sync, chain).
THEOREM FoldIsPrefixHolds == Spec => []FoldIsPrefix
<1>1. Init => PrefixInv
    BY PrefixInit
<1>2. TypeOK /\ PrefixInv /\ [Next]_vars => PrefixInv'
    BY PrefixNext
<1>3. PrefixInv => FoldIsPrefix
    BY DEF PrefixInv
<1> QED
    BY <1>1, <1>2, <1>3, TypeCorrect, PTL DEF Spec

-----------------------------------------------------------------------------
(* The proofs of the gathered batches are kept. *)

\* A pass that goes on after its fold worker failed imports the chain again before
\* it takes a batch as held by the worker.
Resyncs == pass.mine # {} /\ pc \in {"worker", "head", "sync"} => fc.resync
\* The proof a task offers is the one in storage.
Offered ==
    ~stopped => \A k \in Batches : task[k].st \in {"stored", "done"} => bproof[k] = task[k].w
KeptInv == Resyncs /\ Offered /\ GatheredKept

\* The pending batches come before the ones with a task.
LEMMA PendingBefore ==
    ASSUME TypeOK, PrefixInv
    PROVE  \A i \in 1..Len(fc.pending) : /\ fc.pending[i].batch \in Batches
                                          /\ fc.pending[i].batch < next
                                          /\ fc.pending[i].batch \in fc.folded + 1 .. fc.folded + Len(fc.pending)
<1>1. Counts
    BY Numbers
<1> SUFFICES ASSUME NEW i \in 1..Len(fc.pending)
             PROVE  /\ fc.pending[i].batch \in Batches /\ fc.pending[i].batch < next
                    /\ fc.pending[i].batch \in fc.folded + 1 .. fc.folded + Len(fc.pending)
    OBVIOUS
<1>2. fc.pending[i] \in Pendings
    BY <1>1, ElementOfSeq DEF Counts
<1>3. fc.folded \in Nat /\ Len(fc.pending) \in Nat /\ fc.pending[i].batch = fc.folded + i
    BY <1>1 DEF Counts, PrefixInv
<1>4. fc.pending[i].batch \in Batches
    BY <1>2 DEF Pendings
<1> QED
    BY <1>3, <1>4 DEF next

\* At the start nothing is pending.
LEMMA KeptInit == Init => KeptInv
<1> SUFFICES ASSUME Init PROVE KeptInv
    OBVIOUS
<1>1. fc.pending = <<>> /\ pass.mine = {} /\ \A k \in Batches : task[k].st = "none"
    BY DEF Init, Loaded, NoPass, NoTask
<1> QED
    BY <1>1, EmptySeq DEF KeptInv, Resyncs, Offered, GatheredKept

\* A stopped election stays stopped.
LEMMA StopStays ==
    ASSUME TypeOK, [Next]_vars
    PROVE  stopped => stopped'
<1>1. CASE Outside
    BY <1>1 DEF Outside, vars, Seal, End, Stop, deleteProofs, WorkerLost, WorkerBack, BanEnds,
                WorkerWiped, stopped
<1>2. CASE Crash
    BY <1>2 DEF Crash, stopped
<1>3. CASE UNCHANGED election
    BY <1>3 DEF stopped
<1>4. CASE \/ Starting \/ Waited \/ Folds \/ Scatter \/ Gathered \/ FoldFails \/ CommitFold
           \/ \E k \in Batches : Task(k)
  <2>1. CASE election' = "left"
    BY <2>1 DEF stopped
  <2> QED
    BY <1>3, <1>4, <2>1, StartingFrame, WaitedFrame, FoldsFrame, ScatterFrame, GatheredFrame,
       FailsFrame, CommitFrame, TaskFrame
<1> QED
    BY <1>1, <1>2, <1>4, Steps

\* A pass's failed worker is synced again.
LEMMA ResyncNext == TypeOK /\ Resyncs /\ [Next]_vars => Resyncs'
<1>s. SUFFICES ASSUME TypeOK, Resyncs, [Next]_vars PROVE Resyncs'
    OBVIOUS
<1>c. fc \in Chains /\ pass \in Passes /\ ChainOK /\ TypeOK
    BY <1>s DEF TypeOK, ChainOK
<1>i. pass.mine # {} /\ pc \in {"worker", "head", "sync"} => fc.resync
    BY <1>s DEF Resyncs
<1> USE DEF Resyncs
<1>1. CASE Outside
    BY <1>1, <1>i, OutsideFrame
<1>2. CASE Crash
    BY <1>2 DEF Crash
<1>3. CASE \E d \in BOOLEAN : Dispatch(d)
    BY <1>3 DEF Dispatch, NoPass
<1>4. CASE foldWorker
  <2>1. \/ fc' = fc \/ fc' = [fc EXCEPT !.synced = FALSE]
        \/ \E w : fc' = [fc EXCEPT !.synced = FALSE, !.pin = w]
    BY <1>4 DEF foldWorker
  <2>2. fc'.resync = fc.resync
    BY <1>c, <2>1 DEF Chains
  <2>3. UNCHANGED pass /\ pc = "worker"
    BY <1>4 DEF foldWorker
  <2> QED
    BY <1>i, <2>2, <2>3
<1>5. CASE SyncHead
  <2>1. pc = "head" /\ (UNCHANGED pass \/ Return("error") \/ Return("worker"))
    BY <1>5 DEF SyncHead
  <2>2. pass'.mine = pass.mine
    BY <1>c, <2>1, ReturnType
  <2>3. \/ fc' \in {fc, [fc EXCEPT !.pending = <<>>]}
        \/ fc' = [fc EXCEPT !.last = <<>>, !.lastOn = None, !.folded = 0, !.pending = <<>>]
        \/ fc' = [fc EXCEPT !.last = fproof, !.lastOn = fc.pin]
        \/ fc' = [fc EXCEPT !.last = fproof, !.lastOn = fc.pin, !.pending = <<>>]
    BY <1>5 DEF SyncHead, Genesis
  <2>4. fc'.resync = fc.resync
    BY <1>c, <2>3 DEF Chains
  <2> QED
    BY <1>i, <2>1, <2>2, <2>4
<1>6. CASE SyncBatch
    BY <1>6, <1>c, <1>i, SyncBatchFrame
<1>7. CASE Waited
  <2>1. NoPass.mine = {}
    BY DEF NoPass
  <2> QED
    BY <1>7, <1>c, <2>1, WaitedFrame
<1>8. CASE Folds
    BY <1>8, <1>c, FoldsFrame DEF Driving
<1>9. CASE Scatter
    BY <1>9, <1>c, ScatterFrame
<1>10. CASE Gathered
    BY <1>10, <1>c, GatheredFrame DEF GatherOn
<1>11. CASE FoldFails
    BY <1>11, <1>c, FailsFrame DEF FailedType
<1>12. CASE CommitFold
    BY <1>12, <1>c, CommitFrame
<1>13. CASE \E k \in Batches : Task(k)
    BY <1>13, <1>c, <1>i, TaskFrame
<1> QED
    BY <1>s, <1>1, <1>2, <1>3, <1>4, <1>5, <1>6, <1>7, <1>8, <1>9, <1>10, <1>11, <1>12, <1>13, Steps
       DEF Starting

\* What a step of a task does to the stored proof of its batch: it stores the
\* task's proof, or drops the proof of a stopped election, or leaves it.
LEMMA TaskProofs ==
    ASSUME TypeOK, NEW k \in Batches, Task(k)
    PROVE  /\ \A j \in Batches : j # k => bproof'[j] = bproof[j]
           /\ \/ /\ task'[k].st = "stored" /\ bproof'[k] = task'[k].w
              \/ /\ bproof'[k] = None /\ stopped /\ task'[k].st # "stored"
              \/ /\ UNCHANGED bproof /\ task'[k].st # "stored" 
                 /\ task[k].st = "stored" => ~stopped \/ election' # "clean"
                 /\ \/ stopped \/ task'[k].st # "done"
                    \/ task[k].st = "stored" /\ task'[k].w = task[k].w
<1>1. task \in [Batches -> Tasks] /\ bproof \in [Batches -> Places]
    BY DEF TypeOK, ChainOK, StoredOK
<1>2. CASE TaskReuse(k)
    BY <1>1, <1>2 DEF TaskReuse, Tasks, stored
<1>3. CASE TaskSubmit(k)
    BY <1>1, <1>3 DEF TaskSubmit, Tasks, stored
<1>4. CASE TaskSubmitFails(k)
    BY <1>1, <1>4 DEF TaskSubmitFails, NextTry, Tasks, stored
<1>5. CASE TaskRefused(k)
    BY <1>1, <1>5 DEF TaskRefused, Tasks, stored
<1>6. CASE TaskProved(k)
    BY <1>1, <1>6 DEF TaskProved, NextTry, Tasks, stored
<1>7. CASE TaskCheck(k)
    BY <1>1, <1>7 DEF TaskCheck, Tasks, stored
<1>8. CASE TaskStore(k)
    BY <1>1, <1>8 DEF TaskStore, SetBatchProof, Tasks
<1>9. CASE TaskRecheck(k)
    BY <1>1, <1>9 DEF TaskRecheck, DeleteBatchProof, Tasks
<1> QED
    BY <1>2, <1>3, <1>4, <1>5, <1>6, <1>7, <1>8, <1>9 DEF Task

\* A batch that is reset loses its proof, no other does.
LEMMA ResetProofs ==
    ASSUME NEW j, ResetBatch({j})
    PROVE  /\ \A k \in Batches : k # j => bproof'[k] = bproof[k]
           /\ \A k \in Batches : bproof'[k] \in {None, bproof[k]}
BY DEF ResetBatch

\* The proof a task offers stays the stored one.
LEMMA OfferedNext == TypeOK /\ TaskInv /\ PrefixInv /\ Offered /\ [Next]_vars => Offered'
<1>s. SUFFICES ASSUME TypeOK, TaskInv, PrefixInv, Offered, [Next]_vars, ~stopped',
                      NEW k \in Batches, task'[k].st \in {"stored", "done"}
               PROVE  bproof'[k] = task'[k].w
    BY DEF Offered
<1>t. TypeOK /\ PrefixInv
    BY <1>s
<1>a. Counts
    BY <1>s, Numbers
<1>b. ~stopped /\ task'[k] # NoTask
    BY <1>s, StopStays DEF NoTask
<1>i. task[k].st \in {"stored", "done"} => bproof[k] = task[k].w
    BY <1>b, <1>s DEF Offered
<1>j. task[k].st # "none" => pc \in Driving /\ k >= next
    BY <1>s DEF TaskInv
<1>d. task'[k].st \in {"stored", "done"}
    BY <1>s
<1>1. CASE Outside
  <2>1. UNCHANGED bproof
    BY <1>1, <1>s DEF Outside, vars, stored, Seal, End, Stop, deleteProofs, WorkerLost, WorkerBack,
                      BanEnds, WorkerWiped, stopped
  <2> QED
    BY <1>1, <1>d, <1>i, <2>1, OutsideFrame
<1>2. CASE Crash
    BY <1>2, <1>b DEF Crash
<1>3. CASE Starting
    BY <1>3, <1>d, <1>j, StartingFrame
<1>4. CASE Waited
    BY <1>4, <1>b, <1>t, WaitedFrame
<1>5. CASE Folds
    BY <1>5, <1>d, <1>i, <1>t, FoldsFrame DEF stored
<1>6. CASE Scatter
    BY <1>6, <1>d, <1>i, <1>t, ScatterFrame DEF stored
<1>7. CASE Gathered
  <2>1. task' = [task EXCEPT ![pass.at] = NoTask] /\ (UNCHANGED bproof \/ ResetBatch({pass.at}))
    BY <1>7, <1>t, GatheredFrame
  <2>2. task \in [Batches -> Tasks]
    BY <1>t DEF TypeOK, ChainOK
  <2>3. k # pass.at /\ task'[k] = task[k]
    BY <1>b, <2>1, <2>2
  <2>4. bproof'[k] = bproof[k]
    BY <2>1, <2>3 DEF ResetBatch
  <2> QED
    BY <1>d, <1>i, <2>3, <2>4
<1>8. CASE FoldFails
  <2>1. /\ UNCHANGED task
        /\ bproof'[k] = bproof[k] \/ \E i \in 1..Len(fc.pending) : k = fc.pending[i].batch
    BY <1>8, <1>t, FailsFrame
  <2>2. k >= next
    BY <1>d, <1>j, <2>1
  <2>3. ~\E i \in 1..Len(fc.pending) : k = fc.pending[i].batch
    <3>1. next \in Nat /\ k \in Nat
        BY <1>a DEF next, Counts, Batches
    <3>2. \A i \in 1..Len(fc.pending) : fc.pending[i].batch < next
        BY <1>t, PendingBefore
    <3> QED
        BY <2>2, <3>1, <3>2
  <2> QED
    BY <1>d, <1>i, <2>1, <2>3
<1>9. CASE CommitFold
  <2>1. /\ UNCHANGED task
        /\ bproof'[k] = IF k \in fc.folded + 1 .. fc.folded + Len(fc.pending) THEN None ELSE bproof[k]
    BY <1>9, <1>t, CommitFrame
  <2>2. k >= next
    BY <1>d, <1>j, <2>1
  <2>3. k \notin fc.folded + 1 .. fc.folded + Len(fc.pending)
    <3>1. fc.folded \in Nat /\ Len(fc.pending) \in Nat /\ k \in Nat
        BY <1>a DEF Counts, Batches
    <3> QED
        BY <2>2, <3>1 DEF next
  <2> QED
    BY <1>d, <1>i, <2>1, <2>3
<1>10. CASE \E j \in Batches : Task(j)
  <2>1. PICK j \in Batches : Task(j)
    BY <1>10
  <2>2. CASE j = k
    BY <1>b, <1>d, <1>i, <1>t, <2>1, <2>2, TaskProofs
  <2>3. CASE j # k
    BY <1>d, <1>i, <1>t, <2>1, <2>3, TaskFrame, TaskProofs
  <2> QED
    BY <2>2, <2>3
<1> QED
    BY <1>s, <1>1, <1>2, <1>3, <1>4, <1>5, <1>6, <1>7, <1>8, <1>9, <1>10, Steps

\* The proofs of the gathered batches stay in storage.
LEMMA GatheredNext ==
    TypeOK /\ TaskInv /\ PrefixInv /\ KeptInv /\ [Next]_vars => GatheredKept'
<1>s. SUFFICES ASSUME TypeOK, TaskInv, PrefixInv, KeptInv, [Next]_vars, ~stopped',
                      NEW i \in 1..Len(fc'.pending), fc'.pending[i].batch \in pass'.mine
               PROVE  bproof'[fc'.pending[i].batch] = fc'.pending[i].imported
    BY DEF GatheredKept
<1>t. TypeOK /\ PrefixInv
    BY <1>s
<1>a. Counts
    BY <1>s, Numbers
<1>b. ~stopped
    BY <1>s, StopStays
<1>e. fc'.pending # <<>>
    BY <1>s, EmptySeq
<1>m. pass'.mine # {} /\ fc'.pending[i].batch \in pass'.mine
    BY <1>s
<1>i. \A j \in 1..Len(fc.pending) : fc.pending[j].batch \in pass.mine
                                       => bproof[fc.pending[j].batch] = fc.pending[j].imported
    BY <1>b, <1>s DEF KeptInv, GatheredKept
<1>k. CASE /\ fc'.pending = fc.pending /\ pass'.mine = pass.mine
           /\ bproof'[fc.pending[i].batch] = bproof[fc.pending[i].batch]
  <2>1. i \in 1..Len(fc.pending) /\ fc.pending[i].batch \in pass.mine
    BY <1>k, <1>s
  <2> QED
    BY <1>i, <1>k, <2>1
<1>p. fc'.pending = fc.pending => fc.pending[i].batch \in Batches /\ fc.pending[i].batch < next
  <2>1. fc'.pending = fc.pending => i \in 1..Len(fc.pending)
    BY <1>s
  <2> QED
    BY <1>t, <2>1, PendingBefore
<1>n. next \in Nat
    BY <1>a DEF next, Counts
<1>z. ASSUME NEW x, fc'.pending = Append(fc.pending, x), x.batch = next, UNCHANGED bproof,
             pass'.mine \subseteq pass.mine \cup {next}, x.imported = bproof[next]
      PROVE  bproof'[fc'.pending[i].batch] = fc'.pending[i].imported
  <2>1. fc.pending \in Seq(Pendings \cup {x}) /\ x \in Pendings \cup {x}
    BY <1>a DEF Counts
  <2>2. /\ Len(fc'.pending) = Len(fc.pending) + 1
        /\ \A j \in 1..Len(fc.pending) : fc'.pending[j] = fc.pending[j]
        /\ fc'.pending[Len(fc.pending) + 1] = x
    BY <1>z, <2>1, AppendProperties
  <2>3. CASE i \in 1..Len(fc.pending)
    <3>1. fc'.pending[i] = fc.pending[i]
        BY <2>2, <2>3
    <3>2. fc.pending[i].batch \in Batches /\ fc.pending[i].batch < next
        BY <1>t, <2>3, PendingBefore
    <3>3. fc.pending[i].batch \in pass.mine
      <4>1. fc.pending[i].batch # next
        BY <1>n, <3>2 DEF Batches
      <4> QED
        BY <1>m, <1>z, <3>1, <4>1
    <3> QED
        BY <1>i, <1>z, <2>3, <3>1, <3>3
  <2>4. CASE i = Len(fc.pending) + 1
    BY <1>z, <2>2, <2>4
  <2> QED
    <3>1. Len(fc.pending) \in Nat /\ i \in 1..Len(fc.pending) + 1
        BY <1>a, <1>s, <2>2 DEF Counts
    <3> QED
        BY <2>3, <2>4, <3>1
<1>r. ASSUME NEW j \in Batches, j >= next, ResetBatch({j}), fc'.pending = fc.pending
      PROVE  bproof'[fc.pending[i].batch] = bproof[fc.pending[i].batch]
  <2>1. fc.pending[i].batch # j /\ fc.pending[i].batch \in Batches
    BY <1>n, <1>p, <1>r DEF Batches
  <2> QED
    BY <1>r, <2>1, ResetProofs
<1>1. CASE Outside
  <2>1. UNCHANGED bproof
    BY <1>1, <1>s DEF Outside, vars, stored, Seal, End, Stop, deleteProofs, WorkerLost, WorkerBack,
                      BanEnds, WorkerWiped, stopped
  <2> QED
    BY <1>1, <1>k, <2>1, OutsideFrame
<1>2. CASE Crash
    BY <1>2, <1>e DEF Crash, Loaded
<1>3. CASE \E d \in BOOLEAN : Dispatch(d)
    BY <1>3, <1>m DEF Dispatch, NoPass
<1>4. CASE foldWorker
  <2>1. UNCHANGED <<bproof, pass>>
    BY <1>4 DEF foldWorker
  <2>2. \/ fc' = fc \/ fc' = [fc EXCEPT !.synced = FALSE]
        \/ \E w : fc' = [fc EXCEPT !.synced = FALSE, !.pin = w]
    BY <1>4 DEF foldWorker
  <2>3. fc'.pending = fc.pending
    BY <1>t, <2>2 DEF TypeOK, ChainOK, Chains
  <2> QED
    BY <1>k, <2>1, <2>3
<1>5. CASE SyncHead
  <2>1. UNCHANGED bproof /\ (UNCHANGED pass \/ Return("error") \/ Return("worker"))
    BY <1>5 DEF SyncHead
  <2>2. pass'.mine = pass.mine
    BY <1>t, <2>1, ReturnType DEF TypeOK
  <2>3. \/ fc' \in {fc, [fc EXCEPT !.pending = <<>>]}
        \/ fc' = [fc EXCEPT !.last = <<>>, !.lastOn = None, !.folded = 0, !.pending = <<>>]
        \/ fc' = [fc EXCEPT !.last = fproof, !.lastOn = fc.pin]
        \/ fc' = [fc EXCEPT !.last = fproof, !.lastOn = fc.pin, !.pending = <<>>]
    BY <1>5 DEF SyncHead, Genesis
  <2>4. fc'.pending \in {<<>>, fc.pending}
    BY <1>t, <2>3 DEF TypeOK, ChainOK, Chains
  <2> QED
    BY <1>e, <1>k, <2>1, <2>2, <2>4
<1>6. CASE SyncBatch
  <2>1. pc = "sync" /\ (pass'.mine = pass.mine \/ pass'.mine = {})
    BY <1>6, <1>t, SyncBatchFrame
  <2>2. pass'.mine = pass.mine /\ fc.resync
    BY <1>m, <1>s, <2>1 DEF KeptInv, Resyncs
  <2>3. CASE fc'.pending = fc.pending
    <3>1. UNCHANGED bproof \/ (next \in Batches /\ ResetBatch({next}))
        BY <1>6, <1>t, SyncBatchFrame
    <3> QED
        BY <1>k, <1>n, <1>r, <2>2, <2>3, <3>1
  <2>4. CASE fc'.pending # fc.pending
    <3>1. PICK x : /\ x.batch = next /\ fc'.pending = Append(fc.pending, x) /\ UNCHANGED bproof
                   /\ x.imported = bproof[next] \/ ~fc.resync
        BY <1>6, <1>t, <2>4, SyncBatchFrame
    <3> QED
        BY <1>z, <2>2, <3>1
  <2> QED
    BY <2>3, <2>4
<1>7. CASE Waited
  <2>1. NoPass.mine = {}
    BY DEF NoPass
  <2> QED
    BY <1>7, <1>k, <1>m, <1>t, <2>1, WaitedFrame DEF stored
<1>8. CASE Folds
    BY <1>8, <1>k, <1>t, FoldsFrame DEF stored
<1>9. CASE Scatter
    BY <1>9, <1>k, <1>t, ScatterFrame DEF stored
<1>10. CASE Gathered
  <2>1. /\ pass.at = next /\ next \in Batches /\ (UNCHANGED bproof \/ ResetBatch({next}))
        /\ GatherOn \/ (fc'.pending = fc.pending /\ pass'.mine = pass.mine)
    BY <1>10, <1>t, GatheredFrame
  <2>2. CASE GatherOn
    <3> DEFINE bi == pass.copies[next]
               x == Pending(next, [bi EXCEPT !.imported = task[next].w, !.on = fc.pin])
    <3>1. /\ fc'.pending = Append(fc.pending, x) /\ UNCHANGED bproof
          /\ pass'.mine = pass.mine \cup {next} /\ task[next].st = "done"
        BY <2>1, <2>2 DEF GatherOn
    <3>2. bproof[next] = task[next].w
        BY <1>b, <1>s, <2>1, <3>1 DEF KeptInv, Offered
    <3>3. bi \in Inputs
      <4>1. next \in 1..Len(pass.copies)
        <5>1. next <= Len(pass.copies)
            BY <1>10, <2>1 DEF Gathered, Wanting, size
        <5> QED
            BY <1>a, <2>1, <5>1 DEF Batches, Counts
      <4> QED
        BY <1>a, <4>1, ElementOfSeq DEF Counts
    <3>4. x.batch = next /\ x.imported = task[next].w
        BY <3>3 DEF Pending, Inputs
    <3> HIDE DEF x
    <3> QED
        BY <1>z, <3>1, <3>2, <3>4
  <2>3. CASE fc'.pending = fc.pending /\ pass'.mine = pass.mine
    BY <1>k, <1>n, <1>r, <2>1, <2>3
  <2> QED
    BY <2>1, <2>2, <2>3
<1>11. CASE FoldFails
  <2>1. fc'.pending = fc.pending /\ pass'.mine = pass.mine
    BY <1>11, <1>e, <1>t, FailsFrame DEF FailedType
  <2>2. bproof'[fc.pending[i].batch] = bproof[fc.pending[i].batch]
    BY <1>11, <1>e, <1>p, <1>t, <2>1, FailsFrame
  <2> QED
    BY <1>k, <2>1, <2>2
<1>12. CASE CommitFold
    BY <1>12, <1>e, <1>t, CommitFrame
<1>13. CASE \E k \in Batches : Task(k)
  <2>1. PICK k \in Batches : Task(k)
    BY <1>13
  <2>2. /\ UNCHANGED fc /\ pass'.mine = pass.mine /\ task[k].st # "none"
    BY <1>t, <2>1, TaskFrame
  <2>3. k >= next
    BY <1>s, <2>2 DEF TaskInv
  <2>4. fc.pending[i].batch \in Batches /\ fc.pending[i].batch # k
    BY <1>n, <1>p, <2>2, <2>3 DEF Batches
  <2>5. bproof'[fc.pending[i].batch] = bproof[fc.pending[i].batch]
    BY <1>t, <2>1, <2>4, TaskProofs
  <2> QED
    BY <1>k, <2>2, <2>5
<1> QED
    BY <1>s, <1>1, <1>2, <1>3, <1>4, <1>5, <1>6, <1>7, <1>8, <1>9, <1>10, <1>11, <1>12, <1>13, Steps
       DEF Starting

\* The proof of a batch that the running pass gathered is in storage until the
\* batch is folded, whatever fails (batchProof, importBatch, foldFailed).
THEOREM GatheredKeptHolds == Spec => []GatheredKept
<1>1. Init => PrefixInv /\ KeptInv
    BY PrefixInit, KeptInit
<1>2. TypeOK /\ TaskInv /\ PrefixInv /\ KeptInv /\ [Next]_vars => (PrefixInv /\ KeptInv)'
    BY PrefixNext, ResyncNext, OfferedNext, GatheredNext DEF KeptInv
<1>3. KeptInv => GatheredKept
    BY DEF KeptInv
<1> QED
    BY <1>1, <1>2, <1>3, TypeCorrect, PTL DEF Spec

-----------------------------------------------------------------------------
(* The proofs of a stopped election are dropped. *)

\* Only a task that is about to look at the election again has a proof in the
\* storage of a cleaned election.
DroppedInv ==
    election = "clean" => \A k \in Batches : bproof[k] # None => task[k].st = "stored"

\* Every step keeps it so.
LEMMA DroppedNext == TypeOK /\ TaskInv /\ DroppedInv /\ [Next]_vars => DroppedInv'
<1>s. SUFFICES ASSUME TypeOK, TaskInv, DroppedInv, [Next]_vars, election' = "clean",
                      NEW k \in Batches, bproof'[k] # None
               PROVE  task'[k].st = "stored"
    BY DEF DroppedInv
<1>t. TypeOK /\ bproof'[k] # None
    BY <1>s
<1>i. election = "clean" /\ bproof[k] # None => task[k].st = "stored"
    BY <1>s DEF DroppedInv
<1>k. CASE election = "clean" /\ bproof'[k] \in {None, bproof[k]} /\ task'[k] = task[k]
    BY <1>i, <1>k, <1>t
<1>1. CASE Outside
  <2>1. \/ UNCHANGED <<bproof, election>> \/ bproof'[k] = None \/ election' # "clean"
    BY <1>1 DEF Outside, vars, stored, Seal, End, Stop, deleteProofs, DeleteProofs, WorkerLost,
                WorkerBack, BanEnds, WorkerWiped
  <2> QED
    BY <1>1, <1>k, <1>s, <2>1, OutsideFrame
<1>2. CASE Crash
    BY <1>2, <1>s DEF Crash, DeleteProofs, stopped
<1>3. CASE Starting
  <2>1. UNCHANGED <<election, task>>
    BY <1>3, StartingFrame
  <2>2. UNCHANGED bproof \/ SyncBatch
    BY <1>3 DEF Starting, foldWorker, SyncHead, Dispatch, stored
  <2>3. bproof'[k] \in {None, bproof[k]}
    BY <1>t, <2>2, SyncBatchFrame, ResetProofs
  <2> QED
    BY <1>k, <1>s, <2>1, <2>3
<1>4. CASE Waited
  <2>1. Quiet /\ UNCHANGED <<bproof, election>>
    BY <1>4, <1>t, WaitedFrame DEF stored
  <2> QED
    BY <1>i, <1>s, <2>1 DEF Quiet, Running
<1>5. CASE Folds
    BY <1>5, <1>k, <1>s, <1>t, FoldsFrame DEF stored
<1>6. CASE Scatter
    BY <1>6, <1>s, <1>t, ScatterFrame DEF stopped
<1>7. CASE Gathered
  <2>1. /\ task' = [task EXCEPT ![pass.at] = NoTask] /\ (UNCHANGED bproof \/ ResetBatch({pass.at}))
        /\ task[pass.at].st \in {"done", "failed"} /\ UNCHANGED election
    BY <1>7, <1>t, GatheredFrame
  <2>2. bproof'[k] \in {None, bproof[k]}
    BY <2>1, ResetProofs
  <2>3. task[k].st = "stored"
    BY <1>i, <1>s, <2>1, <2>2
  <2> QED
    BY <1>t, <2>1, <2>3 DEF TypeOK, ChainOK
<1>8. CASE FoldFails
    BY <1>8, <1>k, <1>s, <1>t, FailsFrame
<1>9. CASE CommitFold
    BY <1>9, <1>k, <1>s, <1>t, CommitFrame
<1>10. CASE \E j \in Batches : Task(j)
  <2>1. PICK j \in Batches : Task(j)
    BY <1>10
  <2>2. UNCHANGED election /\ stopped
    BY <1>s, <1>t, <2>1, TaskFrame DEF stopped
  <2>3. CASE j = k
    BY <1>i, <1>s, <1>t, <2>1, <2>2, <2>3, TaskProofs
  <2>4. CASE j # k
    BY <1>k, <1>s, <1>t, <2>1, <2>2, <2>4, TaskFrame, TaskProofs
  <2> QED
    BY <2>3, <2>4
<1> QED
    BY <1>s, <1>1, <1>2, <1>3, <1>4, <1>5, <1>6, <1>7, <1>8, <1>9, <1>10, Steps

\* Once the proofs of a stopped election are deleted and its proves have ended, no
\* batch proof is stored, unless the delete of a late one failed since the start
\* (batchProof's second look at the election, restore).
THEOREM BatchProofsDroppedHolds == Spec => []BatchProofsDropped
<1>1. Init => DroppedInv
    BY DEF Init, DroppedInv
<1>2. TypeOK /\ TaskInv /\ DroppedInv /\ [Next]_vars => DroppedInv'
    BY DroppedNext
<1>3. DroppedInv => BatchProofsDropped
    BY DEF DroppedInv, BatchProofsDropped, Quiet, Running
<1> QED
    BY <1>1, <1>2, <1>3, TypeCorrect, PTL DEF Spec
=============================================================================
