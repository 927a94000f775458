----------------------------- MODULE MerkleCircuit -----------------------------
(***************************************************************************)
(* From the Merkle proof of a transaction to the SNARK statement: the loop *)
(* of GenerateProof that fills the witness (zk-bridge/pkg/prover), and the *)
(* loop of ZkBridgeCircuit.Define that climbs from the transaction's leaf  *)
(* to the block root under a mask (zk-bridge/pkg/circuits).                *)
(*                                                                         *)
(* The proof itself comes from the Cosmos node.  Its tree is CometBFT's:   *)
(* the first child of a node over n leaves has the largest power of two    *)
(* below n of them.  A node is named by the leaves under it: <<lo, n>> for *)
(* the n leaves from lo on.  Hashing is free of collisions: two nodes that *)
(* are the children of a node hash to it, anything else to Junk.           *)
(***************************************************************************)
EXTENDS Integers, Sequences

CONSTANTS
    MerkleDepth,    \* levels of the circuit (32 in the code)
    MaxTxs          \* bound on the transactions of a block

ASSUME MerkleAssumption == MerkleDepth \in Nat /\ MaxTxs \in Nat \ {0}

VARIABLES
    total,          \* transactions of the block
    place,          \* place of the transaction in the block
    index,          \* the prover's variable: place, shifted as the loop goes
    path, helper,   \* the witness: ProofPath and ProofHelper, without the padding
    level,          \* the circuit's loop variable
    currentHash,    \* what the circuit has climbed to
    pc              \* "witness", "circuit", "proved" or "unprovable"

vars == <<total, place, index, path, helper, level, currentHash, pc>>

-----------------------------------------------------------------------------
(* The tree of the node (external).                                        *)

Zero == <<0, 0>>        \* the padding of ProofPath
Junk == <<0, -1>>       \* a hash that no block has

Leaf(i) == <<i, 1>>
Root == <<0, total>>
Subtree == (0 .. MaxTxs) \X (1 .. MaxTxs)
Node == Subtree \cup {Zero, Junk}

Power[k \in 0 .. MaxTxs] == IF k = 0 THEN 1 ELSE 2 * Power[k - 1]

\* getSplitPoint: the largest power of two below n.
SplitPoint(n) == CHOOSE p \in {Power[k] : k \in 0 .. n} : p < n /\ n <= 2 * p

Hash(left, right) ==
    IF /\ left[2] > 0 /\ right[2] > 0
       /\ right[1] = left[1] + left[2]
       /\ left[2] = SplitPoint(left[2] + right[2])
    THEN <<left[1], left[2] + right[2]>>
    ELSE Junk

(* The way from leaf i up to a root over n leaves: the sibling at each     *)
(* level, and whether leaf i is on the right (1) or on the left (0) there. *)
Trail(i, n) ==
    LET Up[node \in Subtree] ==
            LET lo == node[1]
                m == node[2]
                k == SplitPoint(m)
            IN  IF m = 1 THEN <<>>
                ELSE IF i < lo + k
                THEN Append(Up[<<lo, k>>], [aunt |-> <<lo + k, m - k>>, side |-> 0])
                ELSE Append(Up[<<lo + k, m - k>>], [aunt |-> <<lo, k>>, side |-> 1])
    IN  Up[<<0, n>>]

aunts == [k \in DOMAIN Trail(place, total) |-> Trail(place, total)[k].aunt]
sides == [k \in DOMAIN Trail(place, total) |-> Trail(place, total)[k].side]

ActualDepth == Len(aunts)

-----------------------------------------------------------------------------
Init ==
    /\ total \in 1 .. MaxTxs
    /\ place \in 0 .. total - 1
    /\ index = place
    /\ path = <<>>
    /\ helper = <<>>
    /\ level = 0
    /\ currentHash = Leaf(place)
    /\ pc = "witness"

\* A loop that forgets that the witness has room for MerkleDepth levels only.
FillLevelUnbounded ==
    /\ pc = "witness"
    /\ Len(path) < ActualDepth
    /\ path' = Append(path, aunts[Len(path) + 1])
    /\ helper' = Append(helper, index % 2)
    /\ index' = index \div 2
    /\ UNCHANGED <<total, place, level, currentHash, pc>>

(* GenerateProof takes the side of a level from the next bit of the index. *)
FillLevel ==
    /\ pc = "witness"
    /\ Len(path) < ActualDepth
    /\ Len(path) < MerkleDepth
    /\ path' = Append(path, aunts[Len(path) + 1])
    /\ helper' = Append(helper, index % 2)
    /\ index' = index \div 2
    /\ UNCHANGED <<total, place, level, currentHash, pc>>

StartCircuit ==
    /\ pc = "witness"
    /\ Len(path) = ActualDepth \/ Len(path) >= MerkleDepth
    /\ pc' = "circuit"
    /\ UNCHANGED <<total, place, index, path, helper, level, currentHash>>

\* The witness at a level, padding included.
ProofPath(i) == IF i < Len(path) THEN path[i + 1] ELSE Zero
ProofHelper(i) == IF i < Len(helper) THEN helper[i + 1] ELSE 0

\* A mask that is open one level too long, and one with the sides swapped.
ClimbOneMore(i) ==
    IF i <= ActualDepth
    THEN IF ProofHelper(i) = 1 THEN Hash(ProofPath(i), currentHash)
                               ELSE Hash(currentHash, ProofPath(i))
    ELSE currentHash

ClimbSwapped(i) ==
    IF i < ActualDepth
    THEN IF ProofHelper(i) = 0 THEN Hash(ProofPath(i), currentHash)
                               ELSE Hash(currentHash, ProofPath(i))
    ELSE currentHash

(* Define, one level: hash with the sibling if the level is active, keep   *)
(* the hash if it is not.                                                  *)
Climb(i) ==
    IF i < ActualDepth
    THEN IF ProofHelper(i) = 1 THEN Hash(ProofPath(i), currentHash)
                               ELSE Hash(currentHash, ProofPath(i))
    ELSE currentHash

ClimbLevel ==
    /\ pc = "circuit"
    /\ level < MerkleDepth
    /\ currentHash' = Climb(level)
    /\ level' = level + 1
    /\ UNCHANGED <<total, place, index, path, helper, pc>>

(* The assertion at the end of Define: without it there is no proof.       *)
AssertRoot ==
    /\ pc = "circuit"
    /\ level = MerkleDepth
    /\ pc' = IF currentHash = Root THEN "proved" ELSE "unprovable"
    /\ UNCHANGED <<total, place, index, path, helper, level, currentHash>>

Next == FillLevel \/ StartCircuit \/ ClimbLevel \/ AssertRoot

Spec == Init /\ [][Next]_vars

-----------------------------------------------------------------------------
(* Properties                                                              *)

(* Every variable has its type; the witness never has more levels than the *)
(* circuit, whatever the depth of the tree.                                *)
TypeOK ==
    /\ total \in 1 .. MaxTxs
    /\ place \in 0 .. total - 1
    /\ index \in 0 .. place
    /\ path \in Seq(Node) /\ helper \in Seq({0, 1})
    /\ Len(path) = Len(helper) /\ Len(path) <= MerkleDepth
    /\ level \in 0 .. MerkleDepth
    /\ currentHash \in Node
    /\ pc \in {"witness", "circuit", "proved", "unprovable"}

(* What the circuit holds after each level is the node of the tree above   *)
(* the transaction at that height, for as long as the sides are right, and *)
(* a hash that leads nowhere from the first wrong side on.                 *)
ClimbsTree ==
    LET up == IF level < ActualDepth THEN level ELSE ActualDepth
        onTrail == \A k \in 1 .. up : ProofHelper(k - 1) = sides[k] /\ k <= Len(path)
    IN  IF onTrail
        THEN /\ currentHash[1] <= place
             /\ place < currentHash[1] + currentHash[2]
             /\ up = ActualDepth => currentHash = Root
        ELSE currentHash = Junk

\* The height of the tree.
Height(n) == CHOOSE d \in 0 .. n : Power[d] >= n /\ \A e \in 0 .. d - 1 : Power[e] < n

(* Exactly the transactions whose leaf is at the bottom of the tree can be *)
(* proved: taking the sides from the bits of the index is right for them,  *)
(* and wrong for every leaf that a block of another size than a power of   *)
(* two has higher up.                                                      *)
ProvesBottomLeaves ==
    pc \in {"proved", "unprovable"} =>
        (pc = "proved" <=> ActualDepth = Height(total) /\ ActualDepth <= MerkleDepth)

(* Every transaction of a block whose tree the circuit has room for can be *)
(* proved to be in it.                                                     *)
EveryTxProves ==
    pc = "unprovable" => ActualDepth > MerkleDepth
=============================================================================
