------------------------------ MODULE MCZkBridge ------------------------------
(* The bridge on small instances: the constants are in the cfg files.       *)
EXTENDS ZkBridge, FiniteSetsExt

(* The environment in which the bridge is used one lock at a time: a        *)
(* transaction is sent when some relayer that is not going to stop listens, *)
(* and nothing is pending anywhere.  Other accounts call the contract on    *)
(* Ethereum, if at all, only between two locks.  The relayers do as they do.*)
Idle ==
    /\ openBlock = <<>>
    /\ \A r \in Relayer : inbox[r] = <<>> /\ Active(r) = {} /\ pool[r] = <<>>

Heeded == \E r \in Relayer \ Stoppable : proc[r] = "up"

Paced == Len(openBlock') > Len(openBlock) => Idle /\ Heeded

PacedNext ==
    \/ CosmosNext /\ Paced
    \/ OthersNext /\ Idle
    \/ \E r \in Relayer : RelayerNext(r) \/ EthereumNext(r)

PacedSpec == Init /\ [][PacedNext]_vars /\ Fairness

(* The environment in which locks may be made close to each other, but a    *)
(* relayer listens, and nobody else calls the contract.                     *)
Listening == Len(openBlock') > Len(openBlock) => Heeded

ListeningNext ==
    \/ CosmosNext /\ Listening
    \/ \E r \in Relayer : RelayerNext(r) \/ EthereumNext(r)

ListeningSpec == Init /\ [][ListeningNext]_vars /\ Fairness

(* Whenever the bridge has come to rest, every lock that can be paid and    *)
(* read has been minted for: main and processEvent of the relayer that      *)
(* listens lose no transaction on the way, whatever another process does    *)
(* meanwhile, except one whose receipt makes FetchLockDetails panic.        *)
AtRestAllMinted == Idle => \A t \in Tx : Readable(t) => t \in processedTxs

\* What the Lock events of transaction t lock for account a.
LockedBy(t, a) ==
    FoldLeft(LAMBDA sum, lock : IF lock.ethDestination = a THEN sum + lock.amount ELSE sum,
             0, receipts[t])

(* Whenever the bridge has come to rest, every account that can be paid has *)
(* been minted what all the Lock events of the transactions that were       *)
(* minted for locked for it.                                                *)
AllLocksPaid ==
    Idle => \A a \in Destination \ {ZeroAddress} :
                balanceOf[a] >= MapThenSumSet(LAMBDA t : LockedBy(t, a), processedTxs)
=============================================================================
