----------------------------- MODULE BridgeSource -----------------------------
(***************************************************************************)
(* The lock contract on the Cosmos EVM chain                               *)
(* (zk-bridge/contracts/BridgeSource.sol).                                 *)
(*                                                                         *)
(* The contract only ever takes coins in: it has a mapping from nonces to  *)
(* lock records, a counter and the coins it received.  There is no unlock. *)
(* The sender of a lock is not modelled: nothing after the Lock event      *)
(* reads it.                                                               *)
(***************************************************************************)
EXTENDS Integers

CONSTANTS
    Address     \* accounts that can be named as a destination

VARIABLES
    locks,      \* the mapping nonce -> LockDetails, as a function on 0..nextNonce-1
    nextNonce,  \* the nonce of the next lock
    balance     \* coins held by the contract (what msg.value brought in)

srcVars == <<locks, nextNonce, balance>>

LockDetails == [amount : Nat, ethDestination : Address, nonce : Nat]

Init ==
    /\ locks = [n \in {} |-> n]
    /\ nextNonce = 0
    /\ balance = 0

(* The record a call lock(ethDestination) with msg.value = value stores,   *)
(* and the arguments of the Lock event it emits.                           *)
LockRecord(ethDestination, value) ==
    [amount |-> value, ethDestination |-> ethDestination, nonce |-> nextNonce]

(* lock(ethDestination) payable.  A call that fails the require reverts    *)
(* and leaves no trace, which is a transaction without this call.          *)
Lock(ethDestination, value) ==
    /\ value > 0
    /\ locks' = [n \in 0 .. nextNonce |->
                    IF n = nextNonce THEN LockRecord(ethDestination, value)
                                     ELSE locks[n]]
    /\ nextNonce' = nextNonce + 1
    /\ balance' = balance + value

SourceTypeOK ==
    /\ nextNonce \in Nat
    /\ locks \in [0 .. nextNonce - 1 -> LockDetails]
    /\ balance \in Nat

=============================================================================
