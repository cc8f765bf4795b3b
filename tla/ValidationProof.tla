-------------------------- MODULE ValidationProof --------------------------
(***************************************************************************)
(* Theorems about Validation, for every census, ballot mode and width of   *)
(* the packed fields.                                                      *)
(***************************************************************************)
EXTENDS Validation, FiniteSetTheorems, SequenceTheorems, WellFoundedInduction, TLAPS

\* Where a vote is that has reached a check: at it, or at a later one.
FromAccepted     == {"accepted"}
FromProof        == {"proof"} \union FromAccepted
FromSignature    == {"signature"} \union FromProof
FromPublicInputs == {"publicInputs"} \union FromSignature
FromCensus       == {"census"} \union FromPublicInputs
FromBallot       == {"ballot"} \union FromCensus

\* A submission has its parts, whatever they hold.
Shape == DOMAIN vote = DOMAIN NoVote

\* What the first three checks establish of a vote.
Established ==
    /\ vote.address \in Addresses /\ BallotOK(vote.ballot)
    /\ vote.index \in Nat /\ Len(vote.siblings) \in Nat
    /\ PathOK(vote.index, Len(vote.siblings))
    /\ Walk(vote.leaf, vote.index, vote.siblings) = CensusRoot
    /\ LeafAddress(vote.leaf) = vote.address /\ vote.weight = LeafWeight(vote.leaf)

\* What has been established of a vote when a check is next: no check undoes
\* what an earlier one has read.
StageInv ==
    /\ pc \in FromBallot => vote.address \in Addresses
    /\ pc \in FromCensus => BallotOK(vote.ballot)
    /\ pc \in FromPublicInputs => Established
    /\ pc \in FromSignature =>
          vote.pubs = Statement(vote.address, vote.key,
                                InputsHash(vote.address, vote.key, vote.ballot, vote.weight))
    /\ pc \in FromAccepted => vote.proves = vote.pubs

ValidInv == Shape /\ StageInv

-----------------------------------------------------------------------------
(* Numbers. *)

\* A nonempty set of numbers has a least one.
LEMMA LeastNumber ==
    ASSUME NEW S \in SUBSET Nat, S # {}
    PROVE  \E n \in S : \A m \in S : n <= m
<1> DEFINE R == OpToRel(<, Nat)
<1>1. IsWellFoundedOn(R, Nat)
    BY NatLessThanWellFounded
<1>2. \A a, b \in Nat : a < b => <<a, b>> \in R
    BY DEF OpToRel
<1> HIDE DEF R
<1>3. PICK x \in S : \A y \in S : ~(<<y, x>> \in R)
    BY <1>1, WFMin
<1>4. ASSUME NEW y \in S PROVE x <= y
  <2>1. x \in Nat /\ y \in Nat /\ ~(y < x)
    BY <1>2, <1>3
  <2> QED
    BY <2>1
<1> QED
    BY <1>4

\* A set with 0 and every successor of its numbers has all of them.
LEMMA Induct ==
    ASSUME NEW S, 0 \in S, \A n \in Nat : n \in S => n + 1 \in S
    PROVE  Nat \subseteq S
<1> DEFINE C == {n \in Nat : n \notin S}
<1> SUFFICES ASSUME C # {} PROVE FALSE
    OBVIOUS
<1>1. PICK n \in C : \A m \in C : n <= m
  <2>1. C \in SUBSET Nat
    OBVIOUS
  <2> HIDE DEF C
  <2> QED
    BY <2>1, LeastNumber
<1>2. n \in Nat /\ n # 0
    BY <1>1
<1>3. n - 1 \in Nat /\ n - 1 \notin C
    BY <1>1, <1>2
<1> QED
    BY <1>1, <1>2, <1>3

\* A power of two is a positive number: it counts the subsets of a set.
LEMMA PowPositive == \A k \in Nat : 2^k \in Nat \ {0}
<1> SUFFICES ASSUME NEW k \in Nat PROVE 2^k \in Nat \ {0}
    OBVIOUS
<1>1. IsFiniteSet(1..k) /\ Cardinality(1..k) = k
    BY FS_Interval
<1>2. IsFiniteSet(SUBSET (1..k)) /\ Cardinality(SUBSET (1..k)) = 2^k
    BY <1>1, FS_SUBSET
<1>3. Cardinality(SUBSET (1..k)) \in Nat /\ Cardinality(SUBSET (1..k)) # 0
  <2>1. SUBSET (1..k) # {}
    OBVIOUS
  <2> QED
    BY <1>2, <2>1, FS_CardinalityType, FS_EmptySet
<1> QED
    BY <1>2, <1>3

\* The fields of a packed number are the ones it was packed from.
LEMMA Unpack ==
    ASSUME NEW a \in Addresses, NEW w \in Weights
    PROVE  /\ (Pack(a, w) \div 2^WeightBits) % 2^AddressBits = a
           /\ Pack(a, w) % 2^WeightBits = w
<1> DEFINE p == 2^WeightBits
           q == 2^AddressBits
<1>1. p \in Nat \ {0} /\ q \in Nat \ {0}
    BY PowPositive, CensusAssumption
<1>2. a \in 0..(q - 1) /\ w \in 0..(p - 1) /\ Pack(a, w) = a * p + w
    BY DEF Addresses, Weights, Pack
<1> HIDE DEF p, q
<1>3. (a * p + w) \div p = a /\ (a * p + w) % p = w
    BY <1>1, <1>2
<1>4. a % q = a
    BY <1>1, <1>2
<1> QED
    BY <1>2, <1>3, <1>4 DEF p, q

-----------------------------------------------------------------------------
(* The census tree. *)

\* The length of a function on 1..n.
LEMMA FunctionLen ==
    ASSUME NEW n \in Nat, NEW f, f = [i \in 1..n |-> f[i]]
    PROVE  Len(f) = n
<1> DEFINE S == {f[i] : i \in 1..n}
<1>1. f \in [1..n -> S]
    OBVIOUS
<1>2. f \in Seq(S)
    BY <1>1, SeqDef
<1>3. DOMAIN f = 1..Len(f) /\ DOMAIN f = 1..n /\ Len(f) \in Nat
    BY <1>1, <1>2, LenProperties
<1> QED
    BY <1>3

\* A level and the level above it: about half the nodes, never none.
LEMMA UpLen ==
    ASSUME NEW level, Len(level) \in Nat \ {0}
    PROVE  /\ Len(Up(level)) = (Len(level) + 1) \div 2
           /\ Up(level) = [i \in 1..Len(Up(level)) |-> Up(level)[i]]
           /\ Len(Up(level)) \in Nat \ {0}
           /\ Len(level) > 1 => Len(Up(level)) < Len(level)
<1> DEFINE n == (Len(level) + 1) \div 2
<1>1. n \in Nat \ {0} /\ (Len(level) > 1 => n < Len(level))
    OBVIOUS
<1>2. Up(level) = [i \in 1..n |-> Up(level)[i]]
    BY DEF Up
<1>3. Len(Up(level)) = n
  <2> HIDE DEF n
  <2> QED
    BY <1>1, <1>2, FunctionLen
<1> QED
    BY <1>1, <1>2, <1>3

\* The levels are what their recursion says.
LEMMA LevelDef ==
    \A k \in 0..Len(Census) :
        Level[k] = IF k = 0 THEN [i \in 1..Len(Census) |-> Leaf(Census[i])] ELSE Up(Level[k - 1])
<1> DEFINE zero == [i \in 1..Len(Census) |-> Leaf(Census[i])]
           Eq(g, n) == g = [k \in 0..n |-> IF k = 0 THEN zero ELSE Up(g[k - 1])]
           S == {n \in Nat : \E g : Eq(g, n)}
<1> HIDE DEF zero
<1>1. 0 \in S
  <2> DEFINE g == [k \in 0..0 |-> zero]
  <2>1. Eq(g, 0)
    OBVIOUS
  <2> QED
    BY <2>1
<1>2. ASSUME NEW n \in Nat, n \in S PROVE n + 1 \in S
  <2>1. PICK g : Eq(g, n)
    BY <1>2
  <2> DEFINE h == [k \in 0..(n + 1) |-> IF k <= n THEN g[k] ELSE Up(g[n])]
  <2>2. ASSUME NEW k \in 0..(n + 1) PROVE h[k] = IF k = 0 THEN zero ELSE Up(h[k - 1])
    <3>1. CASE k = 0
      BY <2>1, <3>1
    <3>2. CASE k \in 1..n
      <4>1. k # 0 /\ k <= n /\ k - 1 <= n /\ k \in 0..n /\ k - 1 \in 0..(n + 1)
        BY <3>2
      <4>2. h[k] = g[k] /\ h[k - 1] = g[k - 1]
        BY <4>1
      <4>3. g[k] = Up(g[k - 1])
        BY <2>1, <4>1
      <4> QED
        BY <4>1, <4>2, <4>3
    <3>3. CASE k = n + 1
      <4>1. k # 0 /\ ~(k <= n) /\ k - 1 = n /\ n \in 0..(n + 1)
        BY <3>3
      <4>2. h[k] = Up(g[n]) /\ h[k - 1] = g[n]
        BY <4>1
      <4> QED
        BY <4>1, <4>2
    <3> QED
      BY <3>1, <3>2, <3>3
  <2>3. h = [k \in 0..(n + 1) |-> h[k]]
    OBVIOUS
  <2> HIDE DEF h
  <2>4. Eq(h, n + 1)
    BY <2>2, <2>3
  <2>5. \E g1 : Eq(g1, n + 1)
    BY <2>4
  <2> QED
    BY <2>5
<1>3. Nat \subseteq S
  <2> HIDE DEF S
  <2> QED
    BY <1>1, <1>2, Induct
<1>4. Len(Census) \in Nat
    BY CensusAssumption, LenProperties
<1>5. \E g : Eq(g, Len(Census))
    BY <1>3, <1>4
<1>6. Level = CHOOSE g : Eq(g, Len(Census))
    BY DEF Level, zero
<1>7. Eq(Level, Len(Census))
  <2> HIDE DEF Eq
  <2> QED
    BY <1>5, <1>6
<1> QED
    BY <1>7 DEF zero

\* The nodes of the levels up to k.
Below(k) == UNION {{Level[j][i] : i \in 1..Len(Level[j])} : j \in 0..k}

\* A level has nodes, and fewer the higher it is, until it has one.
LEMMA LevelLen ==
    \A k \in 0..Len(Census) :
        /\ Len(Level[k]) \in Nat \ {0}
        /\ Len(Level[k]) = 1 \/ Len(Level[k]) + k <= Len(Census)
<1> DEFINE Shrinks(k) == /\ Len(Level[k]) \in Nat \ {0}
                         /\ Len(Level[k]) = 1 \/ Len(Level[k]) + k <= Len(Census)
           S == {k \in Nat : k <= Len(Census) => Shrinks(k)}
<1>1. Len(Census) \in Nat \ {0}
    BY CensusAssumption, LenProperties, EmptySeq
<1>2. 0 \in S
  <2>1. Level[0] = [i \in 1..Len(Census) |-> Leaf(Census[i])]
    BY <1>1, LevelDef
  <2>2. Level[0] = [i \in 1..Len(Census) |-> Level[0][i]]
    BY <2>1
  <2>3. Len(Level[0]) = Len(Census)
    BY <1>1, <2>2, FunctionLen
  <2> QED
    BY <1>1, <2>3
<1>3. ASSUME NEW k \in Nat, k \in S PROVE k + 1 \in S
  <2> SUFFICES ASSUME k + 1 <= Len(Census) PROVE Shrinks(k + 1)
    <3>1. k + 1 \in Nat
      OBVIOUS
    <3> HIDE DEF Shrinks
    <3> QED
      BY <3>1
  <2>1. k + 1 \in 0..Len(Census) /\ k + 1 # 0 /\ (k + 1) - 1 = k /\ k <= Len(Census)
    BY <1>1
  <2>2. Shrinks(k)
    BY <1>3, <2>1
  <2>3. Level[k + 1] = Up(Level[k])
    BY <2>1, LevelDef
  <2>4. /\ Len(Level[k + 1]) = (Len(Level[k]) + 1) \div 2
        /\ Len(Level[k + 1]) \in Nat \ {0}
        /\ Len(Level[k]) > 1 => Len(Level[k + 1]) < Len(Level[k])
    BY <2>2, <2>3, UpLen
  <2> DEFINE x == Len(Level[k])
             y == Len(Level[k + 1])
  <2>5. x = 1 => y = 1
    BY <2>4
  <2>6. x \in Nat \ {0} /\ y \in Nat \ {0} /\ (x > 1 => y < x) /\ (x = 1 \/ x + k <= Len(Census))
    BY <2>2, <2>4
  <2> HIDE DEF x, y
  <2>7. y \in Nat \ {0} /\ (y = 1 \/ y + (k + 1) <= Len(Census))
    BY <1>1, <2>5, <2>6
  <2> QED
    BY <2>7 DEF y
<1>4. Nat \subseteq S
  <2> HIDE DEF S
  <2> QED
    BY <1>2, <1>3, Induct
<1> QED
    BY <1>1, <1>4

\* Some level has one node, so there is a lowest such level.
LEMMA DepthDef == Depth \in 0..Len(Census) /\ Len(Level[Depth]) = 1
<1> DEFINE S == {k \in 0..Len(Census) : Len(Level[k]) = 1}
<1>1. Len(Census) \in Nat
    BY CensusAssumption, LenProperties
<1>2. Len(Census) \in S
    BY <1>1, LevelLen
<1>3. PICK k \in S : \A m \in S : k <= m
  <2>1. S \in SUBSET Nat /\ S # {}
    BY <1>2
  <2> HIDE DEF S
  <2> QED
    BY <2>1, LeastNumber
<1>4. k \in 0..Len(Census) /\ Len(Level[k]) = 1
    BY <1>3
<1>5. \A j \in 0..(k - 1) : Len(Level[j]) > 1
  <2> SUFFICES ASSUME NEW j \in 0..(k - 1) PROVE Len(Level[j]) > 1
    OBVIOUS
  <2>1. j \in 0..Len(Census) /\ ~(k <= j)
    BY <1>1, <1>4
  <2>2. j \notin S /\ Len(Level[j]) \in Nat \ {0}
    BY <1>3, <2>1, LevelLen
  <2>3. Len(Level[j]) # 1
    BY <2>1, <2>2
  <2> DEFINE x == Len(Level[j])
  <2> HIDE DEF x
  <2>4. x \in Nat \ {0} /\ x # 1
    BY <2>2, <2>3 DEF x
  <2>5. x > 1
    BY <2>4
  <2> QED
    BY <2>5 DEF x
<1> QED
    BY <1>4, <1>5 DEF Depth

\* A node of the tree is the leaf of a member, or the hash of two nodes of the
\* levels up to its own.
LEMMA NodeForms ==
    \A k \in 0..Len(Census) : \A i \in 1..Len(Level[k]) :
        \/ \E m \in 1..Len(Census) : Level[k][i] = Leaf(Census[m])
        \/ \E l, r \in Below(k) : Level[k][i] = Hash(l, r)
<1> DEFINE Form(k, x) == \/ \E m \in 1..Len(Census) : x = Leaf(Census[m])
                         \/ \E l, r \in Below(k) : x = Hash(l, r)
           S == {k \in Nat : k <= Len(Census) => \A i \in 1..Len(Level[k]) : Form(k, Level[k][i])}
<1>1. Len(Census) \in Nat
    BY CensusAssumption, LenProperties
<1>2. 0 \in S
  <2>1. Level[0] = [i \in 1..Len(Census) |-> Leaf(Census[i])]
    BY <1>1, LevelDef
  <2>2. Level[0] = [i \in 1..Len(Census) |-> Level[0][i]]
    BY <2>1
  <2>3. Len(Level[0]) = Len(Census)
    BY <1>1, <2>2, FunctionLen
  <2> QED
    BY <2>1, <2>3
<1>3. ASSUME NEW k \in Nat, k \in S PROVE k + 1 \in S
  <2> SUFFICES ASSUME k + 1 <= Len(Census), NEW i \in 1..Len(Level[k + 1])
               PROVE  Form(k + 1, Level[k + 1][i])
    OBVIOUS
  <2>1. /\ k + 1 \in 0..Len(Census) /\ k + 1 # 0 /\ (k + 1) - 1 = k
        /\ k <= Len(Census) /\ k \in 0..Len(Census)
    BY <1>1
  <2>2. Level[k + 1] = Up(Level[k])
    BY <2>1, LevelDef
  <2>3. Len(Level[k]) \in Nat \ {0}
    BY <2>1, LevelLen
  <2> DEFINE n == Len(Level[k])
  <2>4. Len(Level[k + 1]) = (n + 1) \div 2
    BY <2>2, <2>3, UpLen
  <2>5. /\ i \in 1..((n + 1) \div 2) /\ 2 * i - 1 \in 1..n
        /\ 2 * i <= n => 2 * i \in 1..n
    <3>1. n \in Nat \ {0} /\ i \in 1..((n + 1) \div 2)
      BY <2>3, <2>4
    <3> HIDE DEF n
    <3> QED
      BY <3>1
  <2>6. Level[k + 1][i] = IF 2 * i <= n THEN Hash(Level[k][2 * i - 1], Level[k][2 * i])
                                        ELSE Level[k][2 * i - 1]
    BY <2>2, <2>5 DEF Up
  <2>7. Below(k) \subseteq Below(k + 1) /\ \A j \in 1..n : Level[k][j] \in Below(k + 1)
    BY <2>1 DEF Below
  <2>8. CASE 2 * i <= n
    BY <2>5, <2>6, <2>7, <2>8
  <2>9. CASE ~(2 * i <= n)
    <3>1. Form(k, Level[k][2 * i - 1])
      BY <1>3, <2>1, <2>5
    <3> QED
      BY <2>6, <2>7, <2>9, <3>1
  <2> QED
    BY <2>8, <2>9
<1>4. Nat \subseteq S
  <2> HIDE DEF S
  <2> QED
    BY <1>2, <1>3, Induct
<1> QED
    BY <1>1, <1>4

\* So the children of a node of the tree are nodes of the tree, and a node that
\* is one field element is the leaf of a member.
LEMMA NodesClosed ==
    /\ CensusRoot \in Nodes
    /\ \A l, r : Hash(l, r) \in Nodes => l \in Nodes /\ r \in Nodes
    /\ \A x \in Nodes : Len(x) = 1 => \E m \in 1..Len(Census) : x = Leaf(Census[m])
<1>1. Depth \in 0..Len(Census) /\ Len(Level[Depth]) = 1 /\ Len(Census) \in Nat
    BY DepthDef, CensusAssumption, LenProperties
<1>2. \A x \in Nodes : \/ \E m \in 1..Len(Census) : x = Leaf(Census[m])
                       \/ \E l, r \in Nodes : x = Hash(l, r)
  <2> SUFFICES ASSUME NEW x \in Nodes
               PROVE  \/ \E m \in 1..Len(Census) : x = Leaf(Census[m])
                      \/ \E l, r \in Nodes : x = Hash(l, r)
    OBVIOUS
  <2>1. PICK k \in 0..Depth : x \in {Level[k][i] : i \in 1..Len(Level[k])}
    BY DEF Nodes
  <2>2. PICK i \in 1..Len(Level[k]) : x = Level[k][i]
    BY <2>1
  <2>3. k \in 0..Len(Census) /\ 0..k \subseteq 0..Depth
    BY <1>1
  <2> DEFINE Row(j) == {Level[j][h] : h \in 1..Len(Level[j])}
  <2>4. Below(k) = UNION {Row(j) : j \in 0..k} /\ Nodes = UNION {Row(j) : j \in 0..Depth}
    BY DEF Below, Nodes
  <2> HIDE DEF Row
  <2>5. Below(k) \subseteq Nodes
    BY <2>3, <2>4
  <2> QED
    BY <2>2, <2>3, <2>5, NodeForms
<1>3. CensusRoot \in Nodes
  <2>1. 1 \in 1..Len(Level[Depth]) /\ Depth \in 0..Depth
    BY <1>1
  <2> QED
    BY <2>1 DEF CensusRoot, Nodes
<1>4. \A l, r, c : Hash(l, r) # Leaf(c)
    BY DEF Hash, Leaf
<1>5. \A l, r, a, b : Hash(l, r) = Hash(a, b) => l = a /\ r = b
    BY DEF Hash
<1>6. \A l, r : Len(Hash(l, r)) # 1
    BY DEF Hash
<1>7. ASSUME NEW l, NEW r, Hash(l, r) \in Nodes PROVE l \in Nodes /\ r \in Nodes
  <2>1. PICK a, b \in Nodes : Hash(l, r) = Hash(a, b)
    BY <1>2, <1>4, <1>7
  <2> QED
    BY <1>5, <2>1
<1>8. ASSUME NEW x \in Nodes, Len(x) = 1 PROVE \E m \in 1..Len(Census) : x = Leaf(Census[m])
    BY <1>2, <1>6, <1>8
<1> QED
    BY <1>3, <1>7, <1>8

-----------------------------------------------------------------------------
(* The walk of a census proof. *)

\* The nodes of a walk are what their recursion says.
LEMMA WalkDef ==
    ASSUME NEW leaf, NEW index, NEW siblings, Len(siblings) \in Nat
    PROVE  \A i \in 0..Len(siblings) :
              WalkNodes(leaf, index, siblings)[i] =
                  IF i = 0 THEN leaf
                  ELSE IF (index \div 2^(i - 1)) % 2 = 1
                       THEN Hash(siblings[i], WalkNodes(leaf, index, siblings)[i - 1])
                       ELSE Hash(WalkNodes(leaf, index, siblings)[i - 1], siblings[i])
<1> DEFINE step(i, x) == IF (index \div 2^(i - 1)) % 2 = 1 THEN Hash(siblings[i], x) ELSE Hash(x, siblings[i])
           Eq(g, n) == g = [i \in 0..n |-> IF i = 0 THEN leaf ELSE step(i, g[i - 1])]
           S == {n \in Nat : \E g : Eq(g, n)}
<1>0. WalkNodes(leaf, index, siblings) = CHOOSE g : Eq(g, Len(siblings))
    BY DEF WalkNodes
<1> HIDE DEF step
<1>1. 0 \in S
  <2> DEFINE g == [i \in 0..0 |-> leaf]
  <2>1. Eq(g, 0)
    OBVIOUS
  <2> QED
    BY <2>1
<1>2. ASSUME NEW n \in Nat, n \in S PROVE n + 1 \in S
  <2>1. PICK g : Eq(g, n)
    BY <1>2
  <2> DEFINE h == [i \in 0..(n + 1) |-> IF i <= n THEN g[i] ELSE step(n + 1, g[n])]
  <2>2. ASSUME NEW i \in 0..(n + 1) PROVE h[i] = IF i = 0 THEN leaf ELSE step(i, h[i - 1])
    <3>1. CASE i = 0
      BY <2>1, <3>1
    <3>2. CASE i \in 1..n
      <4>1. i # 0 /\ i <= n /\ i - 1 <= n /\ i \in 0..n /\ i - 1 \in 0..(n + 1)
        BY <3>2
      <4>2. h[i] = g[i] /\ h[i - 1] = g[i - 1]
        BY <4>1
      <4>3. g[i] = step(i, g[i - 1])
        BY <2>1, <4>1
      <4> QED
        BY <4>1, <4>2, <4>3
    <3>3. CASE i = n + 1
      <4>1. i # 0 /\ ~(i <= n) /\ i - 1 = n /\ n \in 0..(n + 1)
        BY <3>3
      <4>2. h[i] = step(n + 1, g[n]) /\ h[i - 1] = g[n]
        BY <4>1
      <4> QED
        BY <3>3, <4>1, <4>2
    <3> QED
      BY <3>1, <3>2, <3>3
  <2>3. h = [i \in 0..(n + 1) |-> h[i]]
    OBVIOUS
  <2> HIDE DEF h
  <2>4. Eq(h, n + 1)
    BY <2>2, <2>3
  <2>5. \E g1 : Eq(g1, n + 1)
    BY <2>4
  <2> QED
    BY <2>5
<1>3. Nat \subseteq S
  <2> HIDE DEF S
  <2> QED
    BY <1>1, <1>2, Induct
<1>4. \E g : Eq(g, Len(siblings))
    BY <1>3
<1>5. Eq(WalkNodes(leaf, index, siblings), Len(siblings))
  <2> HIDE DEF Eq
  <2> QED
    BY <1>0, <1>4
<1> QED
    BY <1>5 DEF step

\* A walk that ends at the root of the census started at a node of its tree:
\* the node below a node of the tree is one of its two children.
LEMMA WalkFromNode ==
    ASSUME NEW leaf, NEW index, NEW siblings, Len(siblings) \in Nat,
           Walk(leaf, index, siblings) = CensusRoot
    PROVE  leaf \in Nodes
<1> DEFINE len == Len(siblings)
           node == WalkNodes(leaf, index, siblings)
           S == {n \in Nat : n <= len => node[len - n] \in Nodes}
<1>1. \A i \in 0..len : node[i] = IF i = 0 THEN leaf
                                  ELSE IF (index \div 2^(i - 1)) % 2 = 1
                                       THEN Hash(siblings[i], node[i - 1])
                                       ELSE Hash(node[i - 1], siblings[i])
    BY WalkDef
<1>2. len \in Nat /\ node[len] \in Nodes
    BY NodesClosed DEF Walk
<1> HIDE DEF len, node
<1>3. 0 \in S
    BY <1>2
<1>4. ASSUME NEW n \in Nat, n \in S PROVE n + 1 \in S
  <2> SUFFICES ASSUME n + 1 <= len PROVE node[len - (n + 1)] \in Nodes
    OBVIOUS
  <2> DEFINE i == len - n
  <2>1. i \in 0..len /\ i # 0 /\ i - 1 = len - (n + 1) /\ n <= len
    BY <1>2
  <2>2. node[i] \in Nodes
    BY <1>4, <2>1
  <2> HIDE DEF i
  <2>3. \E s : node[i] = Hash(s, node[i - 1]) \/ node[i] = Hash(node[i - 1], s)
    BY <1>1, <2>1
  <2>4. node[i - 1] \in Nodes
    BY <2>2, <2>3, NodesClosed
  <2> QED
    BY <2>1, <2>4
<1>5. Nat \subseteq S
  <2> HIDE DEF S
  <2> QED
    BY <1>3, <1>4, Induct
<1>6. node[0] \in Nodes
    BY <1>2, <1>5
<1> QED
    BY <1>1, <1>2, <1>6

\* And a leaf with a voter's address that is a node of the tree is that voter's.
LEMMA MemberLeaf ==
    ASSUME NEW leaf \in Nodes, LeafAddress(leaf) \in Addresses
    PROVE  \E m \in 1..Len(Census) : Census[m] = Pack(LeafAddress(leaf), LeafWeight(leaf))
<1>1. Len(leaf) = 1
    BY DEF LeafAddress, Addresses
<1>2. PICK m \in 1..Len(Census) : leaf = Leaf(Census[m])
    BY <1>1, NodesClosed
<1>3. Census[m] \in {Pack(a, w) : a \in Addresses, w \in Weights}
    BY CensusAssumption, ElementOfSeq
<1>4. PICK a \in Addresses, w \in Weights : Census[m] = Pack(a, w)
    BY <1>3
<1>5. leaf[1] = Pack(a, w)
    BY <1>2, <1>4 DEF Leaf
<1>6. LeafAddress(leaf) = a /\ LeafWeight(leaf) = w
    BY <1>1, <1>5, Unpack DEF LeafAddress, LeafWeight
<1> QED
    BY <1>4, <1>6

-----------------------------------------------------------------------------
(* The checks. *)

\* A refused vote is at no check.
LEMMA RefuseStep == ASSUME ValidInv, pc' = "refused", vote' = vote PROVE ValidInv'
    BY DEF ValidInv, Shape, StageInv, FromBallot, FromCensus, FromPublicInputs,
       FromSignature, FromProof, FromAccepted

\* The vote ID.
LEMMA CheckVoteIDStep == ValidInv /\ CheckVoteID => ValidInv'
<1> SUFFICES ASSUME ValidInv, CheckVoteID PROVE ValidInv'
    OBVIOUS
<1>1. ASSUME NEW address \in Addresses, NEW key \in VoteIDKeys,
             pc' = "ballot", vote' = [vote EXCEPT !.address = address, !.key = key]
      PROVE  ValidInv'
  <2>1. Shape' /\ vote'.address = address
    BY <1>1 DEF ValidInv, Shape, NoVote
  <2> QED
    BY <1>1, <2>1 DEF ValidInv, StageInv, FromBallot, FromCensus, FromPublicInputs,
       FromSignature, FromProof, FromAccepted
<1> QED
    BY <1>1, RefuseStep DEF CheckVoteID, Passes, Refuses

\* The ballot.
LEMMA CheckBallotStep == ValidInv /\ CheckBallot => ValidInv'
<1> SUFFICES ASSUME ValidInv, CheckBallot PROVE ValidInv'
    OBVIOUS
<1>1. ASSUME NEW ballot, BallotOK(ballot), pc = "ballot", pc' = "census",
             vote' = [vote EXCEPT !.ballot = ballot]
      PROVE  ValidInv'
  <2>1. Shape' /\ vote'.ballot = ballot /\ vote'.address = vote.address
    BY <1>1 DEF ValidInv, Shape, NoVote
  <2>2. vote.address \in Addresses
    BY <1>1 DEF ValidInv, StageInv, FromBallot
  <2> QED
    BY <1>1, <2>1, <2>2 DEF ValidInv, StageInv, FromBallot, FromCensus, FromPublicInputs,
       FromSignature, FromProof, FromAccepted, BallotOK
<1> QED
    BY <1>1, RefuseStep DEF CheckBallot, Passes, Refuses

\* A path is a sequence, and its indexes are numbers.
LEMMA PathTypes == ASSUME NEW siblings \in Paths PROVE Len(siblings) \in Nat
<1>1. PICK d \in 0..(Depth + 1) : siblings \in [1..d -> Siblings]
    BY DEF Paths
<1>2. d \in Nat /\ siblings = [i \in 1..d |-> siblings[i]]
    BY <1>1
<1> QED
    BY <1>2, FunctionLen

\* The census proof.
LEMMA VerifyCensusProofStep == ValidInv /\ VerifyCensusProof => ValidInv'
<1> SUFFICES ASSUME ValidInv, VerifyCensusProof PROVE ValidInv'
    OBVIOUS
<1>1. ASSUME NEW root, NEW leaf, NEW index \in Indexes, NEW siblings \in Paths,
             CensusOK(root, leaf, index, siblings), pc = "census", pc' = "publicInputs",
             vote' = [vote EXCEPT !.weight = LeafWeight(leaf), !.leaf = leaf, !.index = index,
                                  !.siblings = siblings]
      PROVE  ValidInv'
  <2>1. /\ Shape' /\ vote'.address = vote.address /\ vote'.ballot = vote.ballot
        /\ vote'.leaf = leaf /\ vote'.index = index /\ vote'.siblings = siblings
        /\ vote'.weight = LeafWeight(leaf)
    BY <1>1 DEF ValidInv, Shape, NoVote
  <2>2. vote.address \in Addresses /\ BallotOK(vote.ballot)
    BY <1>1 DEF ValidInv, StageInv, FromBallot, FromCensus
  <2>3. index \in Nat /\ Len(siblings) \in Nat
    BY <1>1, PathTypes DEF Indexes
  <2>4. /\ PathOK(index, Len(siblings)) /\ Walk(leaf, index, siblings) = CensusRoot
        /\ LeafAddress(leaf) = vote.address
    BY <1>1 DEF CensusOK
  <2>5. /\ BallotOK(vote'.ballot) /\ LeafAddress(vote'.leaf) = vote'.address
        /\ PathOK(vote'.index, Len(vote'.siblings))
        /\ Walk(vote'.leaf, vote'.index, vote'.siblings) = CensusRoot
        /\ vote'.weight = LeafWeight(vote'.leaf)
    BY <2>1, <2>2, <2>4
  <2> QED
    BY <1>1, <2>1, <2>2, <2>3, <2>5
       DEF ValidInv, StageInv, FromBallot, FromCensus, FromPublicInputs, FromSignature,
           FromProof, FromAccepted, Established, BallotOK, PathOK, Walk, LeafAddress, LeafWeight
<1> QED
    BY <1>1, RefuseStep DEF VerifyCensusProof, Passes, Refuses

\* What is established is kept by a step that reads none of those parts again.
LEMMA Keeps ==
    ASSUME Established, vote'.address = vote.address, vote'.ballot = vote.ballot,
           vote'.leaf = vote.leaf, vote'.index = vote.index, vote'.siblings = vote.siblings,
           vote'.weight = vote.weight
    PROVE  Established'
    BY DEF Established, BallotOK, PathOK, Walk, LeafAddress, LeafWeight

\* The public inputs.
LEMMA CheckPublicInputsStep == ValidInv /\ CheckPublicInputs => ValidInv'
<1> SUFFICES ASSUME ValidInv, CheckPublicInputs PROVE ValidInv'
    OBVIOUS
<1>1. ASSUME NEW pubs \in Statements, PublicInputsOK(pubs), pc = "publicInputs",
             pc' = "signature", vote' = [vote EXCEPT !.pubs = pubs]
      PROVE  ValidInv'
  <2>1. /\ Shape' /\ vote'.address = vote.address /\ vote'.ballot = vote.ballot
        /\ vote'.leaf = vote.leaf /\ vote'.index = vote.index /\ vote'.siblings = vote.siblings
        /\ vote'.weight = vote.weight /\ vote'.key = vote.key
        /\ vote'.pubs = pubs
    BY <1>1 DEF ValidInv, Shape, NoVote
  <2>2. Established'
    <3>1. Established
      BY <1>1 DEF ValidInv, StageInv, Established, FromBallot, FromCensus, FromPublicInputs
    <3> QED
      BY <2>1, <3>1, Keeps
  <2>3. PICK a, k, h : pubs = <<a, k, h>>
    BY DEF Statements, Statement
  <2>4. pubs = Statement(vote.address, vote.key,
                         InputsHash(vote.address, vote.key, vote.ballot, vote.weight))
    BY <1>1, <2>3 DEF PublicInputsOK, Statement
  <2>5. vote'.pubs = Statement(vote'.address, vote'.key,
                               InputsHash(vote'.address, vote'.key, vote'.ballot, vote'.weight))
    BY <2>1, <2>4
  <2> QED
    BY <1>1, <2>1, <2>2, <2>5
       DEF ValidInv, StageInv, Established, FromBallot, FromCensus, FromPublicInputs,
           FromSignature, FromProof, FromAccepted, Statement, InputsHash
<1> QED
    BY <1>1, RefuseStep DEF CheckPublicInputs, Passes, Refuses

\* The signature.
LEMMA CheckSignatureStep == ValidInv /\ CheckSignature => ValidInv'
<1> SUFFICES ASSUME ValidInv, CheckSignature PROVE ValidInv'
    OBVIOUS
<1>1. ASSUME NEW range, NEW v, NEW signer, NEW message, SignatureOK(range, v, signer, message),
             pc = "signature", pc' = "proof",
             vote' = vote
      PROVE  ValidInv'
  <2>1. /\ Shape' /\ vote'.address = vote.address /\ vote'.ballot = vote.ballot
        /\ vote'.leaf = vote.leaf /\ vote'.index = vote.index /\ vote'.siblings = vote.siblings
        /\ vote'.weight = vote.weight /\ vote'.key = vote.key
        /\ vote'.pubs = vote.pubs
    BY <1>1 DEF ValidInv, Shape, NoVote
  <2>2. Established'
    <3>1. Established
      BY <1>1 DEF ValidInv, StageInv, FromPublicInputs, FromSignature
    <3> QED
      BY <2>1, <3>1, Keeps
  <2>3. vote'.pubs = Statement(vote'.address, vote'.key,
                               InputsHash(vote'.address, vote'.key, vote'.ballot, vote'.weight))
    BY <1>1, <2>1 DEF ValidInv, StageInv, FromSignature
  <2> QED
    BY <1>1, <2>1, <2>2, <2>3
       DEF ValidInv, StageInv, Established, FromBallot, FromCensus, FromPublicInputs,
           FromSignature, FromProof, FromAccepted, Statement, InputsHash
<1> QED
    BY <1>1, RefuseStep DEF CheckSignature, Passes, Refuses

\* The ballot proof.
LEMMA VerifyProofStep == ValidInv /\ VerifyProof => ValidInv'
<1> SUFFICES ASSUME ValidInv, VerifyProof PROVE ValidInv'
    OBVIOUS
<1>1. ASSUME NEW proves, proves = vote.pubs,
             pc = "proof", pc' = "accepted",
             vote' = [vote EXCEPT !.proves = proves]
      PROVE  ValidInv'
  <2>1. /\ Shape' /\ vote'.address = vote.address /\ vote'.ballot = vote.ballot
        /\ vote'.leaf = vote.leaf /\ vote'.index = vote.index /\ vote'.siblings = vote.siblings
        /\ vote'.weight = vote.weight /\ vote'.key = vote.key
        /\ vote'.pubs = vote.pubs /\ vote'.proves = proves
    BY <1>1 DEF ValidInv, Shape, NoVote
  <2>2. Established'
    <3>1. Established
      BY <1>1 DEF ValidInv, StageInv, FromPublicInputs, FromSignature, FromProof
    <3> QED
      BY <2>1, <3>1, Keeps
  <2>3. vote'.pubs = Statement(vote'.address, vote'.key,
                               InputsHash(vote'.address, vote'.key, vote'.ballot, vote'.weight))
    BY <1>1, <2>1 DEF ValidInv, StageInv, FromSignature, FromProof
  <2>4. vote'.proves = vote'.pubs
    BY <1>1, <2>1
  <2> QED
    BY <1>1, <2>1, <2>2, <2>3, <2>4
       DEF ValidInv, StageInv, Established, FromBallot, FromCensus, FromPublicInputs,
           FromSignature, FromProof, FromAccepted, Statement, InputsHash
<1> QED
    BY <1>1, RefuseStep DEF VerifyProof, ProofOK, Passes, Refuses

-----------------------------------------------------------------------------
(* Theorems. *)

\* What the checks have established of a vote stays established (Validate).
LEMMA ValidInvariant == Spec => []ValidInv
<1>1. Init => ValidInv
    BY DEF Init, ValidInv, Shape, StageInv, FromBallot, FromCensus, FromPublicInputs,
       FromSignature, FromProof, FromAccepted
<1>2. ValidInv /\ [Next]_vars => ValidInv'
  <2> SUFFICES ASSUME ValidInv, [Next]_vars PROVE ValidInv'
    OBVIOUS
  <2>1. CASE UNCHANGED vars
    <3>1. pc' = pc /\ vote' = vote
      BY <2>1 DEF vars
    <3>2. Established => Established'
      BY <3>1, Keeps
    <3> QED
      BY <3>1, <3>2 DEF ValidInv, Shape, StageInv, BallotOK
  <2> QED
    BY <2>1, CheckVoteIDStep, CheckBallotStep, VerifyCensusProofStep, CheckPublicInputsStep,
       CheckSignatureStep, VerifyProofStep DEF Next
<1> QED
    BY <1>1, <1>2, PTL DEF Spec

\* For every census: an accepted vote is of a member of the census, with the
\* weight the census gives it, and its ballot proof is about this voter, vote
\* ID, ballot and weight (verifyCensusProof, Validate).
THEOREM AcceptedIsMemberHolds == Spec => []AcceptedIsMember
<1>1. ValidInv => AcceptedIsMember
  <2> SUFFICES ASSUME ValidInv, accepted PROVE AcceptedIsMember
    BY DEF AcceptedIsMember
  <2>1. /\ Established /\ vote.proves = vote.pubs
        /\ vote.pubs = Statement(vote.address, vote.key,
                                 InputsHash(vote.address, vote.key, vote.ballot, vote.weight))
    BY DEF accepted, ValidInv, StageInv, FromPublicInputs, FromSignature, FromProof, FromAccepted
  <2>2. vote.leaf \in Nodes
    BY <2>1, WalkFromNode DEF Established
  <2>3. \E i \in 1..Len(Census) : Census[i] = Pack(vote.address, vote.weight)
    BY <2>1, <2>2, MemberLeaf DEF Established
  <2> QED
    BY <2>1, <2>3 DEF AcceptedIsMember
<1> QED
    BY <1>1, ValidInvariant, PTL
=============================================================================
