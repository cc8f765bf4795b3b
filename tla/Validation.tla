----------------------------- MODULE Validation -----------------------------
(***************************************************************************)
(* The checks of one submitted vote (cryptoValidator.Validate), in their   *)
(* order: the vote ID, the ballot, the lean-IMT census proof, the public   *)
(* inputs of the ballot proof, the signature and the ballot proof.  A part *)
(* of the submission takes its value when it is looked at.                 *)
(*                                                                         *)
(* Hashes, proofs and signatures are ideal: a Poseidon node is the pair of *)
(* its children, an inputs hash the tuple it hashes, a ballot proof the    *)
(* public inputs it proves, a signature its signer and message.  A value   *)
(* of the submission is what its encoding stands for, or one that does not *)
(* parse.  Numbers keep their bit fields, with the widths as parameters.   *)
(***************************************************************************)
EXTENDS Integers, Sequences, FiniteSets

CONSTANTS
    AddressBits,     \* width of an address (160)
    WeightBits,      \* censusWeightBits (88)
    maxCensusDepth,  \* the longest path the guest accepts (61)
    Census,          \* the leaves of the census tree, in order
    NumFields,       \* fields of the election's ballot mode
    MaxFields        \* fields of every ballot

Addresses == 0..(2^AddressBits - 1)
Weights   == 0..(2^WeightBits - 1)

\* PackAddressWeight, and the leaves a field element has room for.
Pack(address, weight) == address * 2^WeightBits + weight
Leaves == 0..(2^(AddressBits + WeightBits + 1) - 1)

ASSUME CensusAssumption ==
    /\ AddressBits \in Nat \ {0} /\ WeightBits \in Nat \ {0} /\ maxCensusDepth \in Nat
    /\ Census \in Seq({Pack(a, w) : a \in Addresses, w \in Weights}) /\ Census # <<>>
ASSUME FieldsAssumption == MaxFields \in Nat /\ NumFields \in 1..MaxFields

\* Tree nodes: a field element that is a leaf, and the hash of two nodes.
Leaf(n) == <<n>>
Hash(l, r) == <<l, r>>

\* The lean-IMT of the census: a node without a right neighbour moves up as it
\* is.  Its root is the election's censusRoot.
Up(level) ==
    [i \in 1..((Len(level) + 1) \div 2) |->
        IF 2 * i <= Len(level) THEN Hash(level[2 * i - 1], level[2 * i]) ELSE level[2 * i - 1]]
Level[k \in 0..Len(Census)] ==
    IF k = 0 THEN [i \in 1..Len(Census) |-> Leaf(Census[i])] ELSE Up(Level[k - 1])
Depth == CHOOSE k \in 0..Len(Census) : Len(Level[k]) = 1 /\ \A j \in 0..(k - 1) : Len(Level[j]) > 1
Nodes == UNION {{Level[k][i] : i \in 1..Len(Level[k])} : k \in 0..Depth}
CensusRoot == Level[Depth][1]

\* What the census hands a member: its siblings from the leaf up, none where
\* its node moves up alone, and one path bit for each of them.
GenerateProof(i) ==
    LET place(k) == (i - 1) \div 2^k
        other(k) == IF place(k) % 2 = 0 THEN place(k) + 1 ELSE place(k) - 1
        path[k \in 0..Depth] ==
            IF k = 0 THEN [index |-> 0, siblings |-> <<>>]
            ELSE LET below == path[k - 1]
                 IN IF other(k - 1) >= Len(Level[k - 1]) THEN below
                    ELSE [index    |-> below.index + (place(k - 1) % 2) * 2^Len(below.siblings),
                          siblings |-> Append(below.siblings, Level[k - 1][other(k - 1) + 1])]
    IN path[Depth]

\* A vote ID is in the namespace when its top bit (bit 63) is set; two bits
\* stand for the 64.
VoteIDKeys == 0..3
ValidVoteID(key) == key >= 2

\* The points of a ballot field.
Points == {"identity", "curve", "off"}

\* parseFr: a value that is 32 bytes of hex and a field element parses.
NotElement == <<>>
parseFr(value) == value # NotElement

\* parseG1, parseG2: a point of a proof is on the curve, in the subgroup and
\* not the identity.  parseBallotProof takes pi_a, pi_b and pi_c.
ProofPoints == {"identity", "off", "outside", "group"}
parseG1(point) == point = "group"
parseG2(point) == point = "group"
parseBallotProof(points) == parseG1(points[1]) /\ parseG2(points[2]) /\ parseG1(points[3])

VARIABLES
    pc,    \* the check that is next, or the verdict
    vote   \* what the checks have read

vars == <<pc, vote>>

\* What one proof, one hash or one signature is about.
Statement(address, key, hash) == <<address, key, hash>>
InputsHash(address, key, ballot, weight) == <<address, key, ballot, weight>>

NoVote == [address |-> 0, key |-> 0, ballot |-> <<>>, weight |-> 0, leaf |-> Leaf(0), index |-> 0,
           siblings |-> <<>>, pubs |-> <<>>, proves |-> <<>>]

Init == pc = "voteID" /\ vote = NoVote

\* A check passes, with what it read, or the vote is refused.
Passes(at, to, read) == pc = at /\ pc' = to /\ vote' = read
Refuses(at) == pc = at /\ pc' = "refused" /\ vote' = vote

-----------------------------------------------------------------------------
\* checkVote: the vote ID is the key as 8 bytes, one encoding for each key.
VoteIDOK(len, id, key) == len = 8 /\ id = key /\ ValidVoteID(key)

CheckVoteID ==
    \E address \in Addresses, len \in {7, 8}, id \in VoteIDKeys, key \in VoteIDKeys :
        \/ VoteIDOK(len, id, key) /\ Passes("voteID", "ballot", [vote EXCEPT !.address = address, !.key = key])
        \/ ~VoteIDOK(len, id, key) /\ Refuses("voteID")

\* checkBallot: fields of the ballot mode are points of the curve, which the
\* identity is too, the others are the identity.
BallotOK(ballot) ==
    /\ \A i \in 1..NumFields : ballot[i] # "off"
    /\ \A i \in NumFields + 1 .. MaxFields : ballot[i] = "identity"

CheckBallot ==
    \E ballot \in [1..MaxFields -> Points] :
        \/ BallotOK(ballot) /\ Passes("ballot", "census", [vote EXCEPT !.ballot = ballot])
        \/ ~BallotOK(ballot) /\ Refuses("ballot")

-----------------------------------------------------------------------------
(* verifyCensusProof *)

\* Mutant: a path of any length, and path bits above it, are walked.
MutPathOK(index, depth) == TRUE
\* No path longer than the guest's, and no path bits above the siblings.
PathOK(index, depth) == depth <= maxCensusDepth /\ index \div 2^depth = 0

\* Mutant: the address is not compared with the leaf's.
MutLeafAddress(leaf) == IF Len(leaf) = 1 THEN vote.address ELSE -1
\* LeafAddress reads the bits above the weight; those of a hash are nobody's.
LeafAddress(leaf) ==
    IF Len(leaf) = 1 THEN (leaf[1] \div 2^WeightBits) % 2^AddressBits ELSE -1

\* The weight is what is below the address.
LeafWeight(leaf) == leaf[1] % 2^WeightBits

\* VerifyProofWith: the nodes from the leaf up, where the next path bit says on
\* which side the node is, and the last of them.
WalkNodes(leaf, index, siblings) ==
    LET node[i \in 0..Len(siblings)] ==
            IF i = 0 THEN leaf
            ELSE IF (index \div 2^(i - 1)) % 2 = 1
                 THEN Hash(siblings[i], node[i - 1])
                 ELSE Hash(node[i - 1], siblings[i])
    IN node
Walk(leaf, index, siblings) == WalkNodes(leaf, index, siblings)[Len(siblings)]

CensusOK(root, leaf, index, siblings) ==
    /\ PathOK(index, Len(siblings))
    /\ parseFr(root) /\ root = CensusRoot
    /\ parseFr(leaf) /\ LeafAddress(leaf) = vote.address
    /\ \A i \in 1..Len(siblings) : parseFr(siblings[i])
    /\ Walk(leaf, index, siblings) = CensusRoot

\* What a submission may hold: any leaf, or a node of the tree, as its leaf,
\* nodes of the tree, or one that is not, as siblings, and what does not parse.
ProofLeaves == Nodes \union {Leaf(n) : n \in Leaves} \union {NotElement}
Siblings == Nodes \union {Hash(CensusRoot, CensusRoot), NotElement}
Paths == UNION {[1..d -> Siblings] : d \in 0..(Depth + 1)}
Indexes == 0..(2^(Depth + 1) - 1)

VerifyCensusProof ==
    \/ \E root \in {CensusRoot, Leaf(0), NotElement}, leaf \in ProofLeaves, index \in Indexes,
          siblings \in Paths :
            /\ CensusOK(root, leaf, index, siblings)
            /\ Passes("census", "publicInputs",
                      [vote EXCEPT !.weight = LeafWeight(leaf), !.leaf = leaf, !.index = index,
                                   !.siblings = siblings])
    \/ Refuses("census")

-----------------------------------------------------------------------------
\* The public inputs name the vote's address and ID, and the hash computed
\* from what was checked so far.
PublicInputsOK(pubs) ==
    /\ pubs[1] = vote.address /\ pubs[2] = vote.key
    /\ pubs[3] = InputsHash(vote.address, vote.key, vote.ballot, vote.weight)

\* Statements a ballot proof may have been made for: other voters, IDs,
\* ballots and weights.
Hashes == {InputsHash(a, k, b, w) : a \in Addresses, k \in {2, 3},
              b \in {vote.ballot, [i \in 1..MaxFields |-> "identity"]}, w \in Weights}
Statements == {Statement(a, k, h) : a \in Addresses, k \in {2, 3}, h \in Hashes}

CheckPublicInputs ==
    \/ \E pubs \in Statements :
          PublicInputsOK(pubs) /\ Passes("publicInputs", "signature", [vote EXCEPT !.pubs = pubs])
    \/ Refuses("publicInputs")

\* parseVoteSig and Verify: r and s in their range, the recovery bit 0 or 1,
\* or 27 or 28, and the signer of this vote ID the voter.
SignatureOK(range, v, signer, message) ==
    range = "in" /\ v \in {0, 1, 27, 28} /\ signer = vote.address /\ message = vote.key

CheckSignature ==
    \E range \in {"in", "out"}, v \in {0, 1, 2, 27, 28}, signer \in Addresses, message \in VoteIDKeys :
        \/ SignatureOK(range, v, signer, message) /\ Passes("signature", "proof", vote)
        \/ ~SignatureOK(range, v, signer, message) /\ Refuses("signature")

\* The Groth16 proof is of three points and verifies against the public inputs.
ProofOK(points, proves) == parseBallotProof(points) /\ proves = vote.pubs

VerifyProof ==
    \E points \in [1..3 -> ProofPoints], proves \in Statements :
        \/ ProofOK(points, proves) /\ Passes("proof", "accepted", [vote EXCEPT !.proves = proves])
        \/ ~ProofOK(points, proves) /\ Refuses("proof")

Next ==
    \/ CheckVoteID \/ CheckBallot \/ VerifyCensusProof \/ CheckPublicInputs
    \/ CheckSignature \/ VerifyProof

Spec == Init /\ [][Next]_vars

-----------------------------------------------------------------------------
(* Properties *)

accepted == pc = "accepted"

\* An accepted vote is of a member of the census, with the weight the census
\* gives that member: no path through the tree, of whatever length and from
\* whatever node, leads from anything else to its root.  And its ballot proof
\* was made for this voter, vote ID, ballot and census weight, although it was
\* compared with the last two only through the inputs hash (verifyCensusProof,
\* Validate, BallotInputsHashGnark).
AcceptedIsMember ==
    accepted =>
        /\ \E i \in 1..Len(Census) : Census[i] = Pack(vote.address, vote.weight)
        /\ vote.proves = Statement(vote.address, vote.key,
                                   InputsHash(vote.address, vote.key, vote.ballot, vote.weight))

\* The census path of an accepted vote is the one the census hands that member:
\* its own siblings, one path bit for each of them and none above.  One member
\* has no second path that the checks accept (with the bits above the path,
\* with a node that moved up alone counted as a level, from or to another
\* level) and that the batch, which gets the path as it was accepted, would be
\* the first to walk (verifyCensusProof).
AcceptedPathIsMembers ==
    accepted =>
        \E i \in 1..Len(Census) :
            /\ vote.leaf = Leaf(Census[i])
            /\ GenerateProof(i) = [index |-> vote.index, siblings |-> vote.siblings]
=============================================================================
