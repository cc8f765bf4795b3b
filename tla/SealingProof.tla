---------------------------- MODULE SealingProof ----------------------------
(***************************************************************************)
(* Theorems about Sealing, for every buffer, batch size and stored tree.   *)
(***************************************************************************)
EXTENDS Sealing, FiniteSetTheorems, SequenceTheorems, TLAPS

\* Every variable has its type.
TypeOK ==
    /\ n \in Nat /\ slot \in [1..n -> Slots] /\ key \in [1..n -> Keys]
    /\ size \in Nat \ {0} /\ base \subseteq Keys
    /\ pc \in {"split", "apply", "search", "done"} /\ next \in 1..(n + 1)
    /\ batch \in Seq(1..n) /\ rest \in Seq(1..n) /\ idx \in Seq(1..n)
    /\ refused \subseteq 1..n /\ lo \in Nat /\ hi \in Nat

\* The votes before position m that are the first of their slot.
Firsts(m) == {u \in FirstOfSlot : u < m}

\* nextBatch so far: the batch has the first votes of the slots seen, up to its
\* size, and the others wait.
SplitInv ==
    /\ Range(batch) = {v \in Firsts(next) : Cardinality(Firsts(v)) < size}
    /\ Range(rest) = (1..(next - 1)) \ Range(batch)
    /\ Increasing(batch) /\ Increasing(rest)
    /\ Len(batch) = IF Cardinality(Firsts(next)) < size THEN Cardinality(Firsts(next)) ELSE size
    /\ pc # "split" => next = n + 1

\* applyBatch so far: what is not refused is in idx, in order, and every
\* refused vote collides with the stored tree or with an earlier vote that is
\* still in the batch.
KeptInv ==
    /\ pc = "split" => refused = {}
    /\ pc # "split" =>
          /\ Range(idx) = Range(batch) \ refused /\ refused \subseteq Range(batch)
          /\ Increasing(idx)
          /\ \A v \in refused : key[v] \in base \/ \E u \in Range(idx) : u < v /\ key[u] = key[v]

\* The search brackets the shortest failing prefix: hi votes fail, fewer than lo
\* do not.  Probes leave nothing behind in the tree.
SearchInv ==
    /\ pc # "done" => tree = base
    /\ pc = "search" =>
          /\ lo \in 1..hi /\ hi \in 1..Len(idx)
          /\ Fails(hi) /\ \A m \in 0..(lo - 1) : ~Fails(m)

\* What is handed on has no collision left.
DoneInv ==
    pc = "done" =>
        /\ \A i \in 1..Len(idx) : /\ key[idx[i]] \notin base
                                  /\ \A j \in 1..(i - 1) : key[idx[j]] # key[idx[i]]
        /\ tree = base \union {key[v] : v \in Range(idx)}

SealInv == TypeOK /\ SplitInv /\ KeptInv /\ SearchInv /\ DoneInv

-----------------------------------------------------------------------------
(* Sequences of positions. *)

\* What Append adds to a sequence.
LEMMA AppendRange ==
    ASSUME NEW m \in Nat, NEW s \in Seq(1..m), NEW x \in 1..m
    PROVE  /\ Append(s, x) \in Seq(1..m) /\ Len(Append(s, x)) = Len(s) + 1
           /\ Range(Append(s, x)) = Range(s) \union {x}
<1>1. /\ Append(s, x) \in Seq(1..m) /\ Len(Append(s, x)) = Len(s) + 1
      /\ \A i \in 1..Len(s) : Append(s, x)[i] = s[i]
      /\ Append(s, x)[Len(s) + 1] = x
    BY AppendProperties
<1>2. DOMAIN s = 1..Len(s) /\ DOMAIN Append(s, x) = 1..(Len(s) + 1) /\ Len(s) \in Nat
    BY <1>1, LenProperties
<1>3. Range(Append(s, x)) = Range(s) \union {x}
    BY <1>1, <1>2 DEF Range
<1> QED
    BY <1>1, <1>3

\* A position above all of them keeps the order.
LEMMA AppendIncreasing ==
    ASSUME NEW m \in Nat, NEW s \in Seq(1..m), NEW x \in 1..m, Increasing(s),
           \A y \in Range(s) : y < x
    PROVE  Increasing(Append(s, x))
<1>1. /\ Len(Append(s, x)) = Len(s) + 1 /\ Len(s) \in Nat
      /\ \A i \in 1..Len(s) : Append(s, x)[i] = s[i]
      /\ Append(s, x)[Len(s) + 1] = x
    BY AppendProperties, LenProperties
<1>2. \A i \in 1..Len(s) : s[i] < x
    BY LenProperties DEF Range
<1> QED
    BY <1>1, <1>2 DEF Increasing

\* What RemoveAt leaves: the elements before the place stay, the others move up.
LEMMA RemoveAtProperties ==
    ASSUME NEW S, NEW s \in Seq(S), NEW h \in 1..Len(s)
    PROVE  /\ RemoveAt(s, h) \in Seq(S) /\ Len(RemoveAt(s, h)) = Len(s) - 1
           /\ \A i \in 1..(Len(s) - 1) : RemoveAt(s, h)[i] = IF i < h THEN s[i] ELSE s[i + 1]
<1>1. Len(s) \in Nat /\ h \in Nat /\ 1 <= h /\ h <= Len(s)
    BY LenProperties
<1>2. /\ SubSeq(s, 1, h - 1) \in Seq(S) /\ Len(SubSeq(s, 1, h - 1)) = h - 1
      /\ \A i \in 1..(h - 1) : SubSeq(s, 1, h - 1)[i] = s[i]
    BY <1>1
<1>3. /\ SubSeq(s, h + 1, Len(s)) \in Seq(S) /\ Len(SubSeq(s, h + 1, Len(s))) = Len(s) - h
      /\ \A i \in 1..(Len(s) - h) : SubSeq(s, h + 1, Len(s))[i] = s[h + i]
    BY <1>1
<1> DEFINE a == SubSeq(s, 1, h - 1)
           b == SubSeq(s, h + 1, Len(s))
<1>4. RemoveAt(s, h) = a \o b
    BY DEF RemoveAt
<1> HIDE DEF a, b
<1>5. /\ a \o b \in Seq(S) /\ Len(a \o b) = Len(s) - 1
      /\ \A i \in 1..(Len(s) - 1) : (a \o b)[i] = IF i <= h - 1 THEN a[i] ELSE b[i - (h - 1)]
  <2>1. /\ a \in Seq(S) /\ b \in Seq(S) /\ Len(a) = h - 1 /\ Len(b) = Len(s) - h
    BY <1>2, <1>3 DEF a, b
  <2>2. /\ a \o b \in Seq(S) /\ Len(a \o b) = Len(a) + Len(b)
        /\ \A i \in 1..(Len(a) + Len(b)) : (a \o b)[i] = IF i <= Len(a) THEN a[i] ELSE b[i - Len(a)]
    BY <2>1, ConcatProperties
  <2>3. Len(a) + Len(b) = Len(s) - 1
    BY <1>1, <2>1
  <2> QED
    BY <2>1, <2>2, <2>3
<1>6. ASSUME NEW i \in 1..(Len(s) - 1)
      PROVE  (a \o b)[i] = IF i < h THEN s[i] ELSE s[i + 1]
  <2>1. CASE i < h
    BY <1>1, <1>2, <1>5, <2>1 DEF a
  <2>2. CASE i >= h
    <3>1. i - (h - 1) \in 1..(Len(s) - h) /\ h + (i - (h - 1)) = i + 1
      BY <1>1, <2>2
    <3>2. b[i - (h - 1)] = s[i + 1]
      BY <1>3, <3>1 DEF b
    <3> QED
      BY <1>1, <1>5, <2>2, <3>2
  <2>3. i < h \/ i >= h
    BY <1>1
  <2> QED
    BY <2>1, <2>2, <2>3, Zenon
<1> QED
    BY <1>4, <1>5, <1>6

\* In an increasing sequence an element has one place, so taking it out leaves
\* the others, in order.
LEMMA RemoveAtIncreasing ==
    ASSUME NEW m \in Nat, NEW s \in Seq(1..m), Increasing(s), NEW h \in 1..Len(s)
    PROVE  /\ Increasing(RemoveAt(s, h))
           /\ Range(RemoveAt(s, h)) = Range(s) \ {s[h]}
<1> DEFINE r == RemoveAt(s, h)
<1>1. /\ Len(s) \in Nat /\ DOMAIN s = 1..Len(s) /\ \A i \in 1..Len(s) : s[i] \in Nat
      /\ h \in Nat /\ 1 <= h /\ h <= Len(s)
    BY LenProperties, ElementOfSeq
<1>2. /\ r \in Seq(1..m) /\ Len(r) = Len(s) - 1
      /\ \A i \in 1..(Len(s) - 1) : r[i] = IF i < h THEN s[i] ELSE s[i + 1]
    BY RemoveAtProperties
<1>3. DOMAIN r = 1..(Len(s) - 1)
    BY <1>2, LenProperties
<1> HIDE DEF r
<1>4. Increasing(r)
  <2> SUFFICES ASSUME NEW i \in 1..Len(r), NEW j \in 1..Len(r), i < j
               PROVE  r[i] < r[j]
    BY DEF Increasing
  <2> DEFINE At(k) == IF k < h THEN k ELSE k + 1
  <2>2. ASSUME NEW k \in 1..Len(r) PROVE At(k) \in 1..Len(s) /\ r[k] = s[At(k)]
    <3>1. k \in 1..(Len(s) - 1) /\ k \in 1..Len(s) /\ k + 1 \in 1..Len(s)
      BY <1>1, <1>2
    <3>2. r[k] = IF k < h THEN s[k] ELSE s[k + 1]
      BY <1>2, <3>1
    <3> QED
      BY <3>1, <3>2
  <2>3. At(i) < At(j)
    BY <1>1, <1>2
  <2> HIDE DEF At
  <2> QED
    BY <2>2, <2>3 DEF Increasing
<1>5. \A i \in 1..Len(s) : i # h => s[i] # s[h]
    BY <1>1 DEF Increasing
<1>6. ASSUME NEW x \in Range(r) PROVE x \in Range(s) \ {s[h]}
  <2>1. PICK i \in 1..(Len(s) - 1) : x = r[i]
    BY <1>3 DEF Range
  <2>2. PICK j \in 1..Len(s) : j # h /\ x = s[j]
    <3>1. i \in 1..Len(s) /\ i + 1 \in 1..Len(s)
      BY <1>1
    <3>2. CASE i < h
      BY <1>1, <1>2, <2>1, <3>1, <3>2
    <3>3. CASE ~(i < h)
      <4>1. i + 1 # h
        BY <1>1, <3>3
      <4> QED
        BY <1>2, <2>1, <3>1, <3>3, <4>1
    <3> QED
      BY <3>2, <3>3
  <2> QED
    BY <1>1, <1>5, <2>2 DEF Range
<1>7. ASSUME NEW x \in Range(s) \ {s[h]} PROVE x \in Range(r)
  <2>1. PICK j \in 1..Len(s) : x = s[j]
    BY <1>1 DEF Range
  <2>2. j # h
    BY <2>1
  <2>3. CASE j < h
    <3>1. j \in 1..(Len(s) - 1)
      BY <1>1, <2>3
    <3>2. r[j] = s[j]
      BY <1>2, <2>3, <3>1
    <3> QED
      BY <1>3, <2>1, <3>1, <3>2 DEF Range
  <2>4. CASE j > h
    <3>1. j - 1 \in 1..(Len(s) - 1) /\ r[j - 1] = s[j]
      BY <1>1, <1>2, <2>4
    <3> QED
      BY <1>3, <2>1, <3>1 DEF Range
  <2> QED
    BY <1>1, <2>2, <2>3, <2>4
<1>8. Range(r) = Range(s) \ {s[h]}
    BY <1>6, <1>7
<1> QED
    BY <1>4, <1>8 DEF r

\* The natural numbers are well ordered.
LEMMA Least ==
    ASSUME NEW S \in SUBSET Nat, S # {}
    PROVE  \E m \in S : \A k \in S : m <= k
<1> DEFINE R == OpToRel(<, Nat)
<1>1. IsWellFoundedOn(R, Nat)
    BY NatLessThanWellFounded
<1>2. \A a, b \in Nat : a < b => <<a, b>> \in R
    BY DEF OpToRel
<1> HIDE DEF R
<1>3. PICK x \in S : \A y \in S : ~(<<y, x>> \in R)
    BY <1>1, WFMin
<1>4. ASSUME NEW y \in S PROVE x <= y
  <2>1. x \in Nat /\ y \in Nat /\ ~(<<y, x>> \in R)
    BY <1>3
  <2>2. ~(y < x)
    BY <1>2, <2>1
  <2> QED
    BY <2>1, <2>2
<1> QED
    BY <1>4

-----------------------------------------------------------------------------
(* nextBatch *)

\* The first votes are finitely many, and more the further nextBatch is.
LEMMA FirstsCount ==
    ASSUME TypeOK, NEW a \in Nat, NEW b \in Nat, a <= b
    PROVE  /\ IsFiniteSet(Firsts(b)) /\ Cardinality(Firsts(a)) \in Nat
           /\ Cardinality(Firsts(b)) \in Nat /\ Cardinality(Firsts(a)) <= Cardinality(Firsts(b))
<1>1. IsFiniteSet(1..n)
    BY FS_Interval DEF TypeOK
<1>2. Firsts(b) \subseteq 1..n /\ Firsts(a) \subseteq Firsts(b)
    BY DEF Firsts, FirstOfSlot, TypeOK
<1>3. IsFiniteSet(Firsts(b)) /\ IsFiniteSet(Firsts(a))
    BY <1>1, <1>2, FS_Subset
<1> QED
    BY <1>2, <1>3, FS_Subset, FS_CardinalityType

\* A vote that is not the first of its slot has the first one before it.
LEMMA SlotTaken ==
    ASSUME TypeOK, NEW v \in 1..n, v \notin FirstOfSlot
    PROVE  \E u \in Firsts(v) : slot[u] = slot[v]
<1> DEFINE S == {u \in 1..(v - 1) : slot[u] = slot[v]}
<1>1. v \in Nat /\ n \in Nat /\ v <= n
    BY DEF TypeOK
<1>2. S \in SUBSET Nat /\ S # {}
    BY <1>1 DEF FirstOfSlot
<1>3. PICK u \in S : \A k \in S : u <= k
  <2> HIDE DEF S
  <2> QED
    BY <1>2, Least
<1>4. u \in 1..n /\ u < v /\ slot[u] = slot[v]
    BY <1>1
<1>5. ASSUME NEW k \in 1..(u - 1) PROVE slot[k] # slot[u]
  <2>1. k \in 1..(v - 1) /\ k < u /\ k \in Nat /\ u \in Nat
    BY <1>1, <1>4
  <2> QED
    BY <1>3, <1>4, <2>1
<1>6. u \in Firsts(v)
    BY <1>4, <1>5 DEF Firsts, FirstOfSlot
<1> QED
    BY <1>4, <1>6

\* nextBatch has looked at nothing.
LEMMA SplitStart == Init => TypeOK /\ SplitInv
<1> SUFFICES ASSUME Init PROVE TypeOK /\ SplitInv
    OBVIOUS
<1>1. n \in Nat /\ next = 1
    BY SealingAssumption DEF Init
<1>2. TypeOK
    BY <1>1, SealingAssumption DEF Init, TypeOK
<1>3. Firsts(next) = {} /\ Cardinality({}) = 0
    BY <1>1, FS_EmptySet DEF Firsts, FirstOfSlot
<1>4. /\ Range(batch) = {} /\ Range(rest) = {} /\ Len(batch) = 0
      /\ Increasing(batch) /\ Increasing(rest)
    BY DEF Init, Range, Increasing
<1>5. 1..(next - 1) = {}
    BY <1>1
<1>6. size \in Nat /\ size > 0 /\ pc = "split"
    BY <1>2 DEF TypeOK, Init
<1> QED
    BY <1>2, <1>3, <1>4, <1>5, <1>6 DEF SplitInv

\* One vote of nextBatch goes where SplitInv says.
LEMMA SplitStep ==
    ASSUME TypeOK, SplitInv, Split
    PROVE  SplitInv'
<1>1. /\ next \in 1..n /\ next \in Nat /\ n \in Nat /\ size \in Nat /\ size > 0
      /\ batch \in Seq(1..n) /\ rest \in Seq(1..n)
    BY DEF TypeOK, Split
<1>2. /\ n' = n /\ slot' = slot /\ size' = size /\ pc' = "split" /\ pc = "split" /\ next' = next + 1
    BY DEF Split, input
<1>3. /\ FirstOfSlot' = FirstOfSlot
      /\ \A m \in Nat : Firsts(m)' = Firsts(m)
    BY <1>2 DEF FirstOfSlot, Firsts
<1>4. Firsts(next)' = Firsts(next + 1)
    BY <1>2 DEF FirstOfSlot, Firsts
<1>5. \A v \in Firsts(next + 1) : v \in Nat
    BY <1>1 DEF Firsts, FirstOfSlot
<1> DEFINE c == Cardinality(Firsts(next))
           Full(m) == {v \in Firsts(m) : Cardinality(Firsts(v)) < size}
<1>6. /\ IsFiniteSet(Firsts(next)) /\ c \in Nat /\ Cardinality(Firsts(next + 1)) \in Nat
      /\ c <= Cardinality(Firsts(next + 1))
  <2>1. next + 1 \in Nat /\ next <= next + 1 /\ next <= next
    BY <1>1
  <2> QED
    BY <1>1, <2>1, FirstsCount
<1>7. /\ next \in FirstOfSlot => Firsts(next + 1) = Firsts(next) \union {next}
      /\ next \notin FirstOfSlot => Firsts(next + 1) = Firsts(next)
      /\ next \notin Firsts(next) /\ Firsts(next) \subseteq 1..(next - 1)
    BY <1>1 DEF Firsts, FirstOfSlot
<1>8. /\ Range(batch) = Full(next) /\ Range(rest) = (1..(next - 1)) \ Range(batch)
      /\ Increasing(batch) /\ Increasing(rest)
      /\ Len(batch) = IF c < size THEN c ELSE size
    BY DEF SplitInv
<1>9. Range(batch) \subseteq 1..(next - 1) /\ Range(rest) \subseteq 1..(next - 1)
    BY <1>7, <1>8
<1>10. (1..next) = (1..(next - 1)) \union {next} /\ next \notin 1..(next - 1)
    BY <1>1
<1>11. \A y \in 1..(next - 1) : y < next
    BY <1>1
<1> SUFFICES /\ Range(batch') = Full(next + 1)
             /\ Range(rest') = (1..next) \ Range(batch')
             /\ Increasing(batch') /\ Increasing(rest')
             /\ Len(batch') = IF Cardinality(Firsts(next + 1)) < size
                              THEN Cardinality(Firsts(next + 1)) ELSE size
  <2>1. (next + 1) - 1 = next
    BY <1>1
  <2> HIDE DEF Full
  <2>2. Range(batch') = {v \in Firsts(next)' : Cardinality(Firsts(v))' < size'} <=> Range(batch') = Full(next + 1)
    BY <1>1, <1>2, <1>3, <1>4, <1>5 DEF Full
  <2> QED
    BY <1>2, <1>4, <2>1, <2>2 DEF SplitInv, Increasing
<1>12. CASE Waits(next)
  <2>1. batch' = batch /\ rest' = Append(rest, next)
    BY <1>12 DEF Split
  <2>2. /\ Range(rest') = Range(rest) \union {next} /\ Increasing(rest')
    <3>1. \A y \in Range(rest) : y < next
      BY <1>9, <1>11
    <3>2. Increasing(Append(rest, next))
      BY <1>1, <1>8, <3>1, AppendIncreasing
    <3>3. /\ Range(Append(rest, next)) = Range(rest) \union {next}
          /\ Len(Append(rest, next)) = Len(rest) + 1
      BY <1>1, AppendRange
    <3> QED
      BY <2>1, <3>2, <3>3 DEF Increasing
  <2>3. Range(rest') = (1..next) \ Range(batch')
    BY <1>8, <1>9, <1>10, <2>1, <2>2
  <2>4. CASE c < size
    <3>1. Len(batch) # size
      BY <1>6, <1>8, <2>4, <1>1
    <3>2. PICK u \in Range(batch) : slot[u] = slot[next]
      BY <1>12, <3>1 DEF Waits
    <3>3. next \notin FirstOfSlot
      BY <1>9, <3>2 DEF FirstOfSlot
    <3>4. Firsts(next + 1) = Firsts(next)
      BY <1>7, <3>3
    <3> QED
      BY <1>8, <2>1, <2>2, <2>3, <3>4
  <2>5. CASE ~(c < size)
    <3>1. Full(next + 1) = Full(next)
      BY <1>7, <2>5
    <3>2. ~(Cardinality(Firsts(next + 1)) < size)
      BY <1>1, <1>6, <2>5
    <3> QED
      BY <1>8, <2>1, <2>2, <2>3, <2>5, <3>1, <3>2
  <2> QED
    BY <2>4, <2>5
<1>13. CASE ~Waits(next)
  <2>1. batch' = Append(batch, next) /\ rest' = rest
    BY <1>13 DEF Split
  <2>2. /\ Range(batch') = Range(batch) \union {next} /\ Increasing(batch')
        /\ Len(batch') = Len(batch) + 1
    <3>1. \A y \in Range(batch) : y < next
      BY <1>9, <1>11
    <3>2. Increasing(Append(batch, next))
      BY <1>1, <1>8, <3>1, AppendIncreasing
    <3>3. /\ Range(Append(batch, next)) = Range(batch) \union {next}
          /\ Len(Append(batch, next)) = Len(batch) + 1
      BY <1>1, AppendRange
    <3> QED
      BY <2>1, <3>2, <3>3 DEF Increasing
  <2>3. Range(rest') = (1..next) \ Range(batch')
    BY <1>8, <1>9, <1>10, <2>1, <2>2
  <2>4. c < size
    BY <1>1, <1>6, <1>8, <1>13 DEF Waits
  <2>5. Range(batch) = Firsts(next)
    <3>1. ASSUME NEW v \in Firsts(next) PROVE Cardinality(Firsts(v)) < size
      <4>1. v \in Nat /\ v <= next
        BY <1>1 DEF Firsts, FirstOfSlot
      <4>2. Cardinality(Firsts(v)) \in Nat /\ Cardinality(Firsts(v)) <= c
        BY <1>1, <4>1, FirstsCount
      <4> QED
        BY <1>1, <1>6, <2>4, <4>2
    <3> QED
      BY <1>8, <3>1
  <2>6. next \in FirstOfSlot
    BY <1>1, <1>13, <2>5, SlotTaken DEF Waits
  <2>7. Firsts(next + 1) = Firsts(next) \union {next} /\ Cardinality(Firsts(next + 1)) = c + 1
    BY <1>6, <1>7, <2>6, FS_AddElement
  <2>8. Full(next + 1) = Firsts(next + 1)
    BY <1>8, <2>4, <2>5, <2>7
  <2>9. Len(batch') = IF c + 1 < size THEN c + 1 ELSE size
    BY <1>1, <1>6, <1>8, <2>2, <2>4
  <2> QED
    BY <1>8, <2>1, <2>2, <2>3, <2>5, <2>7, <2>8, <2>9
<1> QED
    BY <1>12, <1>13

-----------------------------------------------------------------------------
(* applyBatch *)

\* Every step keeps the types; the search stays inside the batch.
LEMMA TypeNext == TypeOK /\ SearchInv /\ [Next]_vars => TypeOK'
<1> SUFFICES ASSUME TypeOK, SearchInv, [Next]_vars PROVE TypeOK'
    OBVIOUS
<1>1. CASE Split
  <2>1. next \in 1..n /\ n \in Nat /\ batch \in Seq(1..n) /\ rest \in Seq(1..n)
    BY <1>1 DEF Split, TypeOK
  <2>2. Append(batch, next) \in Seq(1..n) /\ Append(rest, next) \in Seq(1..n)
    BY <2>1, AppendRange
  <2>3. next + 1 \in 1..(n + 1)
    BY <2>1
  <2>4. batch' \in Seq(1..n) /\ rest' \in Seq(1..n) /\ next' \in 1..(n + 1)
    BY <1>1, <2>1, <2>2, <2>3 DEF Split
  <2> QED
    BY <1>1, <2>4 DEF Split, TypeOK, input
<1>2. CASE SplitDone
    BY <1>2 DEF SplitDone, TypeOK, input
<1>3. CASE Apply
  <2>1. Len(idx) \in Nat
    BY LenProperties DEF TypeOK
  <2>2. lo' \in Nat /\ hi' \in Nat /\ pc' \in {"search", "done"}
    BY <1>3, <2>1 DEF Apply, TypeOK
  <2> QED
    BY <1>3, <2>2 DEF Apply, TypeOK, input
<1>4. CASE Search
  <2>1. (lo + hi) \div 2 \in Nat
    BY DEF TypeOK
  <2>2. lo' \in Nat /\ hi' \in Nat
    BY <1>4, <2>1 DEF Search, Narrow, TypeOK
  <2> QED
    BY <1>4, <2>2 DEF Search, TypeOK, input
<1>5. CASE Refuse
  <2>1. idx \in Seq(1..n) /\ hi \in 1..Len(idx)
    BY <1>5 DEF Refuse, SearchInv, TypeOK
  <2>2. RemoveAt(idx, hi) \in Seq(1..n) /\ idx[hi] \in 1..n
    BY <2>1, RemoveAtProperties, ElementOfSeq
  <2>3. idx' \in Seq(1..n) /\ refused' \subseteq 1..n
    BY <1>5, <2>2 DEF Refuse, TypeOK
  <2> QED
    BY <1>5, <2>3 DEF Refuse, TypeOK, input
<1>6. CASE UNCHANGED vars
    BY <1>6 DEF vars, input, TypeOK
<1> QED
    BY <1>1, <1>2, <1>3, <1>4, <1>5, <1>6 DEF Next, Sealed

\* Once a prefix fails every longer one does.
LEMMA FailsLonger ==
    ASSUME NEW a \in Nat, NEW b \in Nat, a <= b, Fails(a)
    PROVE  Fails(b)
<1>1. 1..a \subseteq 1..b
    OBVIOUS
<1> QED
    BY <1>1 DEF Fails

\* The probes of the search bracket the shortest failing prefix.
LEMMA SearchNext == TypeOK /\ SearchInv /\ [Next]_vars => SearchInv'
<1> SUFFICES ASSUME TypeOK, SearchInv, [Next]_vars PROVE SearchInv'
    OBVIOUS
<1>1. CASE Split \/ SplitDone
    BY <1>1 DEF Split, SplitDone, SearchInv, input
<1>2. CASE Apply
  <2>1. CASE pc' = "done"
    BY <2>1 DEF SearchInv
  <2>2. CASE pc' # "done"
    <3>1. /\ idx # <<>> /\ Fails(Len(idx)) /\ pc' = "search" /\ pc = "apply"
          /\ lo' = 1 /\ hi' = Len(idx) /\ tree' = base /\ tree = base
      BY <1>2, <2>2 DEF Apply, Restored, SearchInv
    <3>2. idx' = idx /\ key' = key /\ base' = base
      BY <1>2 DEF Apply, input
    <3>3. Len(idx) \in Nat /\ Len(idx) # 0
      BY <3>1, LenProperties, EmptySeq DEF TypeOK
    <3>4. Fails(hi)'
      BY <3>1, <3>2 DEF Fails
    <3>5. ~Fails(0)'
      BY DEF Fails
    <3>6. 0..(lo' - 1) = {0} /\ lo' \in 1..hi' /\ hi' \in 1..Len(idx')
      BY <3>1, <3>2, <3>3
    <3> QED
      BY <3>1, <3>2, <3>4, <3>5, <3>6 DEF SearchInv
  <2> QED
    BY <2>1, <2>2
<1>3. CASE Search
  <2> DEFINE mid == (lo + hi) \div 2
  <2>1. /\ lo \in Nat /\ hi \in Nat /\ 1 <= lo /\ lo < hi /\ hi <= Len(idx) /\ Len(idx) \in Nat
        /\ Fails(hi) /\ (\A m \in 0..(lo - 1) : ~Fails(m)) /\ tree = base
    BY <1>3, LenProperties DEF Search, SearchInv, TypeOK
  <2>2. mid \in Nat /\ lo <= mid /\ mid < hi
    BY <2>1
  <2>3. /\ idx' = idx /\ key' = key /\ base' = base /\ tree' = base /\ pc' = "search"
        /\ IF Fails(mid) THEN hi' = mid /\ lo' = lo ELSE lo' = mid + 1 /\ hi' = hi
    BY <1>3 DEF Search, Narrow, Restored, input
  <2>4. \A m \in Nat : Fails(m)' <=> Fails(m)
    BY <2>1, <2>3 DEF Fails
  <2> HIDE DEF mid
  <2>5. CASE Fails(mid)
    <3>1. hi' = mid /\ lo' = lo
      BY <2>3, <2>5
    <3>2. Fails(hi)'
      BY <2>1, <2>3, <2>5, <3>1 DEF Fails
    <3>3. \A m \in 0..(lo' - 1) : ~Fails(m)'
      BY <2>1, <2>4, <3>1
    <3>4. lo' \in 1..hi' /\ hi' \in 1..Len(idx')
      BY <2>1, <2>2, <2>3, <3>1
    <3> QED
      BY <2>3, <3>2, <3>3, <3>4 DEF SearchInv
  <2>6. CASE ~Fails(mid)
    <3>1. hi' = hi /\ lo' = mid + 1
      BY <2>3, <2>6
    <3>2. Fails(hi)'
      BY <2>1, <2>3, <3>1 DEF Fails
    <3>3. ASSUME NEW m \in 0..(lo' - 1) PROVE ~Fails(m)'
      <4>1. m \in Nat /\ m <= mid
        BY <2>2, <3>1
      <4> QED
        BY <2>2, <2>4, <2>6, <4>1, FailsLonger
    <3>4. lo' \in 1..hi' /\ hi' \in 1..Len(idx')
      BY <2>1, <2>2, <2>3, <3>1
    <3> QED
      BY <2>3, <3>2, <3>3, <3>4 DEF SearchInv
  <2> QED
    BY <2>5, <2>6
<1>4. CASE Refuse
    BY <1>4 DEF Refuse, SearchInv, input
<1>5. CASE UNCHANGED vars
    BY <1>5 DEF vars, input, SearchInv, Fails
<1> QED
    BY <1>1, <1>2, <1>3, <1>4, <1>5 DEF Next, Sealed

\* When the search ends, the last vote of the prefix collides with the stored
\* tree or with an earlier vote of the batch.
LEMMA Collides ==
    ASSUME TypeOK, SearchInv, Refuse
    PROVE  /\ hi \in 1..Len(idx)
           /\ key[idx[hi]] \in base \/ \E j \in 1..(hi - 1) : key[idx[j]] = key[idx[hi]]
<1>1. /\ hi \in 1..Len(idx) /\ hi \in Nat /\ hi >= 1 /\ lo = hi /\ tree = base
      /\ Fails(hi) /\ (\A m \in 0..(lo - 1) : ~Fails(m))
    BY DEF Refuse, SearchInv, TypeOK
<1>2. ~Fails(hi - 1)
    BY <1>1
<1>3. PICK i \in 1..hi : key[idx[i]] \in tree \/ \E j \in 1..(i - 1) : key[idx[j]] = key[idx[i]]
    BY <1>1 DEF Fails
<1>4. i = hi
  <2>1. i \notin 1..(hi - 1)
    BY <1>2, <1>3 DEF Fails
  <2> QED
    BY <1>1, <2>1
<1> QED
    BY <1>1, <1>3, <1>4

\* A vote is refused for a collision whose other side stays, also when that
\* other side was to be found before a vote refused earlier.
LEMMA KeptNext == TypeOK /\ SplitInv /\ KeptInv /\ SearchInv /\ [Next]_vars => KeptInv'
<1> SUFFICES ASSUME TypeOK, SplitInv, KeptInv, SearchInv, [Next]_vars PROVE KeptInv'
    OBVIOUS
<1>1. CASE Split
    BY <1>1 DEF Split, KeptInv
<1>2. CASE SplitDone
  <2>1. pc' = "apply" /\ refused' = {} /\ idx' = batch /\ batch' = batch
    BY <1>2 DEF SplitDone, KeptInv
  <2>2. Increasing(idx')
    BY <2>1 DEF SplitInv
  <2> QED
    BY <1>2, <2>1, <2>2 DEF KeptInv, Increasing
<1>3. CASE Apply \/ Search
  <2>1. /\ pc # "split" /\ pc' # "split"
        /\ UNCHANGED <<idx, batch, refused, key, base>>
    BY <1>3 DEF Apply, Search, input
  <2> QED
    BY <2>1 DEF KeptInv, Increasing
<1>4. CASE Refuse
  <2> DEFINE w == idx[hi]
  <2>1. /\ hi \in 1..Len(idx)
        /\ key[w] \in base \/ \E j \in 1..(hi - 1) : key[idx[j]] = key[w]
    BY <1>4, Collides
  <2>2. /\ pc # "split" /\ pc' # "split" /\ refused' = refused \union {w} /\ idx' = RemoveAt(idx, hi)
        /\ UNCHANGED <<batch, key, base>>
    BY <1>4 DEF Refuse, input
  <2>3. /\ Range(idx) = Range(batch) \ refused /\ refused \subseteq Range(batch) /\ Increasing(idx)
        /\ \A v \in refused : key[v] \in base \/ \E u \in Range(idx) : u < v /\ key[u] = key[v]
    BY <2>2 DEF KeptInv
  <2>4. n \in Nat /\ idx \in Seq(1..n) /\ Len(idx) \in Nat /\ DOMAIN idx = 1..Len(idx)
    BY LenProperties DEF TypeOK
  <2>5. w \in Range(idx) /\ Range(idx) \subseteq 1..n
    BY <2>1, <2>4, ElementOfSeq DEF Range
  <2>6. Increasing(RemoveAt(idx, hi)) /\ Range(RemoveAt(idx, hi)) = Range(idx) \ {w}
    BY <2>1, <2>3, <2>4, RemoveAtIncreasing
  <2>7. key[w] \in base \/ \E u \in Range(idx) \ {w} : u < w /\ key[u] = key[w]
    <3>1. ASSUME NEW j \in 1..(hi - 1), key[idx[j]] = key[w]
          PROVE  \E u \in Range(idx) \ {w} : u < w /\ key[u] = key[w]
      <4>1. j \in 1..Len(idx) /\ j < hi
        BY <2>1, <2>4
      <4>2. idx[j] < w /\ idx[j] \in Range(idx)
        BY <2>1, <2>3, <2>4, <4>1 DEF Increasing, Range
      <4>3. idx[j] # w
        BY <2>5, <4>2
      <4> QED
        BY <3>1, <4>2, <4>3
    <3> QED
      BY <2>1, <3>1
  <2> HIDE DEF w
  <2>8. ASSUME NEW v \in refused \union {w}
        PROVE  key[v] \in base \/ \E u \in Range(idx) \ {w} : u < v /\ key[u] = key[v]
    <3>1. CASE v = w
      BY <2>7, <3>1
    <3>2. CASE v \in refused /\ key[v] \notin base
      <4>1. PICK u \in Range(idx) : u < v /\ key[u] = key[v]
        BY <2>3, <3>2
      <4>2. CASE u # w
        BY <4>1, <4>2
      <4>3. CASE u = w
        <5>1. PICK x \in Range(idx) \ {w} : x < w /\ key[x] = key[w]
          BY <2>7, <3>2, <4>1, <4>3
        <5>2. x \in Nat /\ w \in Nat /\ v \in Nat
          BY <2>5, <3>2 DEF TypeOK
        <5>3. x < v
          BY <4>1, <4>3, <5>1, <5>2
        <5> QED
          BY <4>1, <4>3, <5>1, <5>3
      <4> QED
        BY <4>2, <4>3
    <3> QED
      BY <3>1, <3>2
  <2>9. Range(idx) \ {w} = Range(batch) \ (refused \union {w}) /\ refused \union {w} \subseteq Range(batch)
    BY <2>3, <2>5
  <2> QED
    BY <2>2, <2>6, <2>8, <2>9 DEF KeptInv, Increasing
<1>5. CASE UNCHANGED vars
    BY <1>5 DEF vars, input, KeptInv, Increasing
<1> QED
    BY <1>1, <1>2, <1>3, <1>4, <1>5 DEF Next, Sealed

\* ApplyBatch that succeeds found no collision, and the tree has its keys.
LEMMA DoneNext == TypeOK /\ SearchInv /\ DoneInv /\ [Next]_vars => DoneInv'
<1> SUFFICES ASSUME TypeOK, SearchInv, DoneInv, [Next]_vars, pc' = "done" PROVE DoneInv'
    BY DEF DoneInv
<1>1. CASE Apply
  <2>1. UNCHANGED <<idx, key, base>> /\ tree = base
    BY <1>1 DEF Apply, SearchInv, input
  <2>2. DOMAIN idx = 1..Len(idx)
    BY LenProperties DEF TypeOK
  <2>3. CASE idx = <<>>
    <3>1. 1..Len(idx) = {} /\ tree' = base
      BY <1>1, <2>1, <2>3 DEF Apply
    <3> QED
      BY <2>1, <2>2, <3>1 DEF DoneInv, Range
  <2>4. CASE idx # <<>>
    <3>1. ~Fails(Len(idx)) /\ tree' = base \union PrefixKeys(Len(idx))
      BY <1>1, <2>1, <2>4 DEF Apply
    <3>2. PrefixKeys(Len(idx)) = {key[v] : v \in Range(idx)}
      BY <2>2 DEF PrefixKeys, Range
    <3> QED
      BY <2>1, <3>1, <3>2 DEF DoneInv, Fails
  <2> QED
    BY <2>3, <2>4
<1>2. CASE UNCHANGED vars
    BY <1>2 DEF vars, input, DoneInv
<1> QED
    BY <1>1, <1>2 DEF Next, Sealed, Split, SplitDone, Search, Refuse

\* The split is not touched once it is done.
LEMMA SplitNext == TypeOK /\ SplitInv /\ [Next]_vars => SplitInv'
<1> SUFFICES ASSUME TypeOK, SplitInv, [Next]_vars PROVE SplitInv'
    OBVIOUS
<1>1. CASE Split
    BY <1>1, SplitStep
<1>2. CASE UNCHANGED <<n, slot, size, next, batch, rest>> /\ (pc' # "split" => next' = n' + 1)
    BY <1>2 DEF SplitInv, Firsts, FirstOfSlot, Increasing
<1>3. CASE SplitDone
  <2>1. next = n + 1
    BY <1>3 DEF SplitDone, TypeOK
  <2> QED
    BY <1>2, <1>3, <2>1 DEF SplitDone, input
<1>4. CASE Apply \/ Search \/ Refuse
  <2>1. pc # "split" /\ next = n + 1
    BY <1>4 DEF Apply, Search, Refuse, SplitInv
  <2> QED
    BY <1>2, <1>4, <2>1 DEF Apply, Search, Refuse, input
<1>5. CASE UNCHANGED vars
    BY <1>2, <1>5 DEF vars, input, SplitInv
<1> QED
    BY <1>1, <1>3, <1>4, <1>5 DEF Next, Sealed

\* The loops' invariant holds at every step of a seal.
LEMMA SealInvariant == Spec => []SealInv
<1>1. Init => SealInv
  <2>1. Init => KeptInv /\ SearchInv /\ DoneInv
    BY DEF Init, KeptInv, SearchInv, DoneInv
  <2> QED
    BY <2>1, SplitStart DEF SealInv
<1>2. SealInv /\ [Next]_vars => SealInv'
    BY TypeNext, SplitNext, KeptNext, SearchNext, DoneNext DEF SealInv
<1> QED
    BY <1>1, <1>2, PTL DEF Spec

-----------------------------------------------------------------------------
(* What the loops compute *)

\* For every buffer and batch size, nextBatch takes the first votes of the
\* slots, up to the size and in order, and leaves the others in order
\* (nextBatch).
THEOREM SplitsFirstOfSlotHolds == Spec => []SplitsFirstOfSlot
<1>1. SealInv => SplitsFirstOfSlot
  <2> SUFFICES ASSUME SealInv, pc # "split" PROVE SplitsFirstOfSlot
    BY DEF SplitsFirstOfSlot
  <2>1. next = n + 1 /\ n \in Nat
    BY DEF SealInv, SplitInv, TypeOK
  <2>2. Firsts(next) = FirstOfSlot /\ 1..(next - 1) = 1..n
    BY <2>1 DEF Firsts, FirstOfSlot
  <2> QED
    BY <2>2 DEF SealInv, SplitInv, SplitsFirstOfSlot, Firsts
<1> QED
    BY <1>1, SealInvariant, PTL

\* For every batch and stored tree, applyBatch refuses exactly the votes whose
\* key is stored or belongs to an earlier vote of the batch, although it looks
\* for one at a time and tries again without it, and hands on a tree with the
\* keys of the others and nothing else (applyBatch, restoreState).
THEOREM RefusesCollisionsHolds == Spec => []RefusesCollisions
<1>1. SealInv => RefusesCollisions
  <2> SUFFICES ASSUME SealInv, pc = "done" PROVE RefusesCollisions
    BY DEF RefusesCollisions
  <2>1. /\ Range(idx) = Range(batch) \ refused /\ refused \subseteq Range(batch) /\ Increasing(idx)
        /\ \A v \in refused : key[v] \in base \/ \E u \in Range(idx) : u < v /\ key[u] = key[v]
    BY DEF SealInv, KeptInv
  <2>2. /\ \A i \in 1..Len(idx) : /\ key[idx[i]] \notin base
                                  /\ \A j \in 1..(i - 1) : key[idx[j]] # key[idx[i]]
        /\ tree = base \union {key[v] : v \in Range(idx)}
    BY DEF SealInv, DoneInv
  <2>3. /\ DOMAIN idx = 1..Len(idx) /\ Len(idx) \in Nat /\ Range(idx) \subseteq Nat
        /\ Range(batch) \subseteq Nat
    BY LenProperties, ElementOfSeq DEF SealInv, TypeOK, Range
  <2>4. ASSUME NEW u \in Range(idx), NEW v \in Range(idx), u < v PROVE key[u] # key[v]
    <3>1. PICK i \in 1..Len(idx), j \in 1..Len(idx) : v = idx[i] /\ u = idx[j]
      BY <2>3 DEF Range
    <3>2. j < i
      <4>1. ~(i < j) /\ i # j
        BY <2>1, <2>3, <2>4, <3>1 DEF Increasing
      <4> QED
        BY <4>1
    <3>3. j \in 1..(i - 1)
      BY <2>3, <3>2
    <3> QED
      BY <2>2, <3>1, <3>3
  <2>5. ASSUME NEW v \in Range(batch),
               key[v] \in base \/ \E u \in Range(batch) : u < v /\ key[u] = key[v]
        PROVE  v \in refused
    <3> SUFFICES ASSUME v \in Range(idx) PROVE FALSE
      BY <2>1
    <3>1. key[v] \notin base
      BY <2>2, <2>3 DEF Range
    <3>2. PICK u \in Range(batch) : u < v /\ key[u] = key[v]
      BY <2>5, <3>1
    <3>3. CASE u \in Range(idx)
      BY <2>4, <3>2, <3>3
    <3>4. CASE u \in refused
      <4>1. PICK x \in Range(idx) : x < u /\ key[x] = key[u]
        BY <2>1, <3>1, <3>2, <3>4
      <4>2. x < v
        BY <2>3, <3>2, <4>1
      <4> QED
        BY <2>4, <3>2, <4>1, <4>2
    <3> QED
      BY <2>1, <3>3, <3>4
  <2>6. ASSUME NEW v \in refused
        PROVE  v \in Range(batch) /\ (key[v] \in base \/ \E u \in Range(batch) : u < v /\ key[u] = key[v])
    BY <2>1
  <2> QED
    BY <2>1, <2>2, <2>5, <2>6 DEF RefusesCollisions
<1> QED
    BY <1>1, SealInvariant, PTL

-----------------------------------------------------------------------------
(* How long the loops run *)

\* More than the steps a seal of k votes has left when it applies them: every
\* round refuses one, after fewer probes than there are votes.
Rounds(k) == k * (k + 3)

\* More than the steps the seal has left.
StepsLeft ==
    CASE pc = "split"  -> Rounds(Len(batch) + (n + 1 - next)) + (n + 1 - next) + 2
      [] pc = "apply"  -> Rounds(Len(idx)) + 1
      [] pc = "search" -> Rounds(Len(idx) - 1) + (hi - lo) + 2
      [] pc = "done"   -> 0

\* A vote less takes fewer rounds.
LEMMA RoundsLess ==
    ASSUME NEW k \in Nat
    PROVE  Rounds(k) \in Nat /\ (k > 0 => Rounds(k - 1) \in Nat /\ Rounds(k) = Rounds(k - 1) + 2 * k + 2)
<1>1. k * (k + 3) \in Nat
    OBVIOUS
<1>2. ASSUME k > 0 PROVE Rounds(k - 1) \in Nat /\ Rounds(k) = Rounds(k - 1) + 2 * k + 2
  <2>1. k - 1 \in Nat /\ (k - 1) + 3 = k + 2 /\ k * k \in Nat
    BY <1>2
  <2>2. (k - 1) * (k + 2) = k * k + k - 2 /\ k * (k + 3) = k * k + 3 * k
    BY <2>1
  <2>3. (k - 1) * (k + 2) \in Nat
    BY <2>1
  <2> QED
    BY <2>1, <2>2, <2>3 DEF Rounds
<1> QED
    BY <1>1, <1>2 DEF Rounds

\* The steps left are a number.
LEMMA StepsLeftType == SealInv => StepsLeft \in Nat
<1> SUFFICES ASSUME SealInv PROVE StepsLeft \in Nat
    OBVIOUS
<1>1. /\ n \in Nat /\ next \in 1..(n + 1) /\ Len(batch) \in Nat /\ Len(idx) \in Nat
      /\ pc \in {"split", "apply", "search", "done"}
    BY LenProperties DEF SealInv, TypeOK
<1>2. CASE pc = "split"
  <2>1. n + 1 - next \in Nat /\ Len(batch) + (n + 1 - next) \in Nat
    BY <1>1
  <2>2. Rounds(Len(batch) + (n + 1 - next)) \in Nat
    BY <2>1, RoundsLess
  <2>3. StepsLeft = Rounds(Len(batch) + (n + 1 - next)) + (n + 1 - next) + 2
    BY <1>2 DEF StepsLeft
  <2> QED
    BY <2>1, <2>2, <2>3
<1>3. CASE pc = "apply"
  <2>1. Rounds(Len(idx)) \in Nat /\ StepsLeft = Rounds(Len(idx)) + 1
    BY <1>1, <1>3, RoundsLess DEF StepsLeft
  <2> QED
    BY <2>1
<1>4. CASE pc = "search"
  <2>1. Len(idx) > 0 /\ hi - lo \in Nat
    BY <1>1, <1>4 DEF SealInv, SearchInv
  <2>2. Rounds(Len(idx) - 1) \in Nat
    BY <1>1, <2>1, RoundsLess
  <2> QED
    BY <1>4, <2>1, <2>2 DEF StepsLeft
<1>5. CASE pc = "done"
    BY <1>5 DEF StepsLeft
<1> QED
    BY <1>1, <1>2, <1>3, <1>4, <1>5

\* Every step of the loops leaves fewer.
LEMMA StepsLeftDecrease == SealInv /\ SealInv' /\ [Next]_vars => UNCHANGED vars \/ StepsLeft' < StepsLeft
<1> SUFFICES ASSUME SealInv, SealInv', Next PROVE UNCHANGED vars \/ StepsLeft' < StepsLeft
    OBVIOUS
<1>1. /\ n \in Nat /\ next \in 1..(n + 1) /\ Len(batch) \in Nat /\ Len(idx) \in Nat
      /\ batch \in Seq(1..n) /\ idx \in Seq(1..n) /\ lo \in Nat /\ hi \in Nat
    BY LenProperties DEF SealInv, TypeOK
<1>2. CASE Split
  <2> DEFINE k == n + 1 - next
             m == Len(batch) + k
  <2>1. pc = "split" /\ pc' = "split" /\ n' = n /\ next' = next + 1 /\ next <= n
    BY <1>2 DEF Split, input
  <2>2. k \in Nat /\ k > 0 /\ m \in Nat /\ m > 0 /\ n' + 1 - next' = k - 1
    BY <1>1, <2>1
  <2>3. Len(batch') = Len(batch) \/ Len(batch') = Len(batch) + 1
    BY <1>1, <1>2, <2>1, AppendRange DEF Split
  <2>4. Len(batch') + (k - 1) = m - 1 \/ Len(batch') + (k - 1) = m
    <3>1. Len(batch) \in Nat /\ k \in Nat
      BY <1>1, <2>2
    <3> HIDE DEF k
    <3> QED
      BY <2>3, <3>1
  <2>5. StepsLeft = Rounds(m) + k + 2
    BY <2>1 DEF StepsLeft
  <2>6. StepsLeft' = Rounds(Len(batch') + (k - 1)) + (k - 1) + 2
    BY <2>1, <2>2 DEF StepsLeft, Rounds
  <2> HIDE DEF k, m
  <2>7. Rounds(m) \in Nat /\ Rounds(m - 1) \in Nat /\ Rounds(m) = Rounds(m - 1) + 2 * m + 2
    BY <2>2, RoundsLess
  <2>8. CASE Len(batch') + (k - 1) = m - 1
    <3>1. StepsLeft' = Rounds(m - 1) + (k - 1) + 2
      BY <2>6, <2>8
    <3> QED
      BY <2>2, <2>5, <2>7, <3>1
  <2>9. CASE Len(batch') + (k - 1) = m
    <3>1. StepsLeft' = Rounds(m) + (k - 1) + 2
      BY <2>6, <2>9
    <3> QED
      BY <2>2, <2>5, <2>7, <3>1
  <2> QED
    BY <2>4, <2>8, <2>9
<1>3. CASE SplitDone
  <2>1. pc = "split" /\ pc' = "apply" /\ idx' = batch /\ n + 1 - next = 0
    BY <1>1, <1>3 DEF SplitDone
  <2>2. StepsLeft' = Rounds(Len(batch)) + 1 /\ StepsLeft = Rounds(Len(batch)) + 2
    BY <1>1, <2>1 DEF StepsLeft, Rounds
  <2>3. Rounds(Len(batch)) \in Nat
    BY <1>1, RoundsLess
  <2> QED
    BY <2>2, <2>3
<1>4. CASE Apply
  <2>1. pc = "apply" /\ StepsLeft = Rounds(Len(idx)) + 1 /\ Rounds(Len(idx)) \in Nat
    BY <1>1, <1>4, RoundsLess DEF Apply, StepsLeft
  <2>2. CASE pc' = "done"
    <3>1. StepsLeft' = 0
      BY <2>2 DEF StepsLeft
    <3> QED
      BY <2>1, <3>1
  <2>3. CASE pc' = "search"
    <3>1. /\ idx # <<>> /\ idx' = idx /\ lo' = 1 /\ hi' = Len(idx)
      BY <1>4, <2>3 DEF Apply
    <3>2. Len(idx) > 0
      BY <1>1, <3>1, EmptySeq
    <3>3. StepsLeft' = Rounds(Len(idx) - 1) + (Len(idx) - 1) + 2
      BY <2>3, <3>1 DEF StepsLeft, Rounds
    <3>4. Rounds(Len(idx) - 1) \in Nat /\ Rounds(Len(idx)) = Rounds(Len(idx) - 1) + 2 * Len(idx) + 2
      BY <1>1, <3>2, RoundsLess
    <3> QED
      BY <1>1, <2>1, <3>2, <3>3, <3>4
  <2> QED
    BY <1>4, <2>2, <2>3 DEF Apply
<1>5. CASE Search
  <2> DEFINE mid == (lo + hi) \div 2
  <2>1. pc = "search" /\ pc' = "search" /\ idx' = idx /\ lo < hi
    BY <1>5 DEF Search
  <2>2. mid \in Nat /\ lo <= mid /\ mid < hi
    BY <1>1, <2>1
  <2>3. (hi' = mid /\ lo' = lo) \/ (lo' = mid + 1 /\ hi' = hi)
    BY <1>5 DEF Search, Narrow
  <2> HIDE DEF mid
  <2>4. hi' - lo' < hi - lo /\ hi' - lo' \in Int
    BY <1>1, <2>2, <2>3
  <2>5. /\ StepsLeft = Rounds(Len(idx) - 1) + (hi - lo) + 2
        /\ StepsLeft' = Rounds(Len(idx) - 1) + (hi' - lo') + 2
    BY <2>1 DEF StepsLeft, Rounds
  <2>6. Rounds(Len(idx) - 1) \in Nat
    <3>1. Len(idx) > 0
      BY <1>1, <2>1 DEF SealInv, SearchInv
    <3> QED
      BY <1>1, <3>1, RoundsLess
  <2> QED
    BY <1>1, <2>4, <2>5, <2>6
<1>6. CASE Refuse
  <2>1. pc = "search" /\ pc' = "apply" /\ idx' = RemoveAt(idx, hi)
    BY <1>6 DEF Refuse
  <2>2. hi \in 1..Len(idx) /\ hi - lo \in Nat
    BY <1>1, <2>1 DEF SealInv, SearchInv
  <2>3. Len(idx') = Len(idx) - 1
    BY <1>1, <2>1, <2>2, RemoveAtProperties
  <2>4. /\ StepsLeft = Rounds(Len(idx) - 1) + (hi - lo) + 2
        /\ StepsLeft' = Rounds(Len(idx) - 1) + 1
    BY <2>1, <2>3 DEF StepsLeft, Rounds
  <2>5. Rounds(Len(idx) - 1) \in Nat
    BY <1>1, <2>2, RoundsLess
  <2> QED
    BY <2>2, <2>4, <2>5
<1>7. CASE Sealed
    BY <1>7 DEF Sealed
<1> QED
    BY <1>2, <1>3, <1>4, <1>5, <1>6, <1>7 DEF Next

\* A seal of any buffer ends: every step of its loops takes it closer to its
\* last one, whatever votes are refused (nextBatch, applyBatch).
THEOREM SealShrinks == Spec => [](StepsLeft \in Nat) /\ [][StepsLeft' < StepsLeft]_vars
<1>1. SealInv => StepsLeft \in Nat
    BY StepsLeftType
<1>2. SealInv /\ SealInv' /\ [Next]_vars => [StepsLeft' < StepsLeft]_vars
    BY StepsLeftDecrease
<1> QED
    BY <1>1, <1>2, SealInvariant, PTL DEF Spec
=============================================================================
