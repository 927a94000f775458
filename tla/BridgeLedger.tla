----------------------------- MODULE BridgeLedger -----------------------------
(***************************************************************************)
(* What the bridge promises, with no chain, relayer or proof in it: a      *)
(* ledger of claims, one for each transaction of the source chain that     *)
(* locked something, each paid at most once, in full, and to the account   *)
(* the claim names.  A claim is never changed or withdrawn and a payment   *)
(* is never taken back.  That a claim is paid at all is not promised.      *)
(***************************************************************************)
EXTENDS Naturals

CONSTANTS
    Tx,         \* transactions of the source chain
    Address,    \* accounts that can be paid
    Amount      \* amounts that can be locked

VARIABLES
    claims,     \* what the source chain has committed to
    paid,       \* the claims that were paid
    issued      \* wrapped tokens in circulation

ledgerVars == <<claims, paid, issued>>

Claim == [recipient : Address, amount : Amount, txHash : Tx]

OneClaimPerTx(S) == \A c, d \in S : c.txHash = d.txHash => c = d

Init ==
    /\ claims = {}
    /\ paid = {}
    /\ issued = 0

\* A block brings new claims.
Commit ==
    /\ claims \subseteq claims'
    /\ claims' \subseteq Claim
    /\ OneClaimPerTx(claims')
    /\ UNCHANGED <<paid, issued>>

\* A claim that was not paid is paid, with tokens issued for it.
Pay ==
    /\ \E c \in claims \ paid :
          /\ paid' = paid \cup {c}
          /\ issued' = issued + c.amount
    /\ UNCHANGED claims

Next == Commit \/ Pay

Spec == Init /\ [][Next]_ledgerVars
=============================================================================
