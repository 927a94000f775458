--------------------------- MODULE BridgeDestination ---------------------------
(***************************************************************************)
(* The wrapped-token contract on Ethereum                                  *)
(* (zk-bridge/contracts/BridgeDestination.sol) together with the part of   *)
(* OpenZeppelin's ERC20 it calls and the generated Groth16 verifier.       *)
(*                                                                         *)
(* A block root is the height of the block it commits to (0 is the root    *)
(* the contract is deployed with) and a lock transaction hash is the       *)
(* transaction itself.  A proof is the statement it proves: packing the    *)
(* root and the hash into the verifier's eight public inputs loses nothing *)
(* of either, so a proof verifies for exactly the pair it was made for.    *)
(***************************************************************************)
EXTENDS Integers, Sequences

CONSTANTS
    Tx,             \* lock transactions of the other chain
    Address,        \* Ethereum accounts
    ZeroAddress     \* address(0), which OpenZeppelin's _mint refuses

VARIABLES
    trustedBlockRoot,   \* the one root mint accepts
    processedTxs,       \* hashes already minted for
    balanceOf,          \* ERC20 balances
    totalSupply,        \* ERC20 supply
    minted              \* the BridgeMinted events, in the order they were emitted

dstVars == <<trustedBlockRoot, processedTxs, balanceOf, totalSupply, minted>>

Proof == [root : Nat, leaf : Tx]
MintEvent == [recipient : Address, amount : Nat, txHash : Tx]

Init ==
    /\ trustedBlockRoot = 0
    /\ processedTxs = {}
    /\ balanceOf = [a \in Address |-> 0]
    /\ totalSupply = 0
    /\ minted = <<>>

(* verifier.verifyProof on the packed public inputs: it reverts unless the *)
(* proof was made for this root and this hash.                             *)
VerifyProof(proof, root, lockTxHash) ==
    /\ proof.root = root
    /\ proof.leaf = lockTxHash

\* What mint would accept without its replay check, and without its root check.
MintAcceptedReplay(proof, root, lockTxHash, recipient) ==
    /\ root = trustedBlockRoot
    /\ VerifyProof(proof, root, lockTxHash)
    /\ recipient # ZeroAddress

MintAcceptedAnyRoot(proof, root, lockTxHash, recipient) ==
    /\ lockTxHash \notin processedTxs
    /\ VerifyProof(proof, root, lockTxHash)
    /\ recipient # ZeroAddress

(* The calls that do not revert: three requires of mint and the one of     *)
(* OpenZeppelin's _mint.                                                   *)
MintAccepted(proof, root, lockTxHash, recipient) ==
    /\ root = trustedBlockRoot
    /\ lockTxHash \notin processedTxs
    /\ VerifyProof(proof, root, lockTxHash)
    /\ recipient # ZeroAddress

(* mint(...): the whole call, which either happens or reverts.             *)
Mint(proof, root, lockTxHash, recipient, amount) ==
    /\ MintAccepted(proof, root, lockTxHash, recipient)
    /\ processedTxs' = processedTxs \cup {lockTxHash}
    /\ balanceOf' = [balanceOf EXCEPT ![recipient] = @ + amount]
    /\ totalSupply' = totalSupply + amount
    /\ minted' = Append(minted, [recipient |-> recipient,
                                 amount    |-> amount,
                                 txHash    |-> lockTxHash])
    /\ UNCHANGED trustedBlockRoot

\* A root that can be set only once.
SetTrustedRootOnce(newRoot) ==
    /\ trustedBlockRoot' = IF trustedBlockRoot = 0 THEN newRoot ELSE trustedBlockRoot
    /\ UNCHANGED <<processedTxs, balanceOf, totalSupply, minted>>

(* updateTrustedRoot(_newRoot): replaces the root, whatever it was.        *)
UpdateTrustedRoot(newRoot) ==
    /\ trustedBlockRoot' = newRoot
    /\ UNCHANGED <<processedTxs, balanceOf, totalSupply, minted>>

DestinationTypeOK ==
    /\ trustedBlockRoot \in Nat
    /\ processedTxs \subseteq Tx
    /\ balanceOf \in [Address -> Nat]
    /\ totalSupply \in Nat
    /\ minted \in Seq(MintEvent)

=============================================================================
