------------------------------- MODULE ZkBridge -------------------------------
(***************************************************************************)
(* The whole bridge: the Cosmos chain with the BridgeSource contract, any  *)
(* number of relayer processes (zk-bridge/cmd/relayer, pkg/prover,         *)
(* pkg/rpc), and Ethereum with the BridgeDestination contract.             *)
(*                                                                         *)
(* A relayer starts one goroutine per transaction event it reads.  The     *)
(* goroutines of one process share a websocket reader, one file on disk    *)
(* (proof_event.json) and one Ethereum account; the goroutines of all      *)
(* processes share the single trusted root of BridgeDestination.  Every    *)
(* read and every write of a shared thing is an action of its own.         *)
(*                                                                         *)
(* The two chains, the node's transaction index and Ethereum's transaction *)
(* pool are outside the repository: they are modelled by what the relayer  *)
(* can observe of them.                                                    *)
(*                                                                         *)
(* mint and updateTrustedRoot are open to every account, and mint does not *)
(* tie its recipient and amount to the proof.  What other accounts do with *)
(* them is an assumption on the environment, the constant Others.          *)
(***************************************************************************)
EXTENDS Integers, Sequences, SequencesExt

CONSTANTS
    Relayer,        \* relayer processes, each with its own key and working directory
    Stoppable,      \* those that may be interrupted or may die
    Tx,             \* Cosmos transactions
    EvmTx,          \* those that carry an EVM transaction
    Topicless,      \* those with a log without topics ahead of their first Lock event
    Address,        \* Ethereum accounts
    Destination,    \* those the locks name
    ZeroAddress,    \* address(0)
    Value,          \* values a lock call may carry
    MaxCalls,       \* bound on the lock calls of one transaction
    MaxTries,       \* attempts of processEvent at finding the transaction
    MaxStarts,      \* bound on the starts of one relayer process
    Faulty,         \* TRUE: RPC calls and proving may fail
    LateIndex,      \* TRUE: the node may index a transaction after the last attempt
    Repricing,      \* TRUE: a pending transaction may be replaced by a better paid one
    Others,         \* "none": no other account calls BridgeDestination; "truthful":
                    \* they mint only what was locked; "any": they call as they like
    NoTx,           \* no transaction
    NoProof,        \* proof_event.json is absent or empty
    Garbled         \* proof_event.json holds the remains of two proofs

ASSUME BridgeAssumption ==
    /\ Stoppable \subseteq Relayer
    /\ EvmTx \subseteq Tx
    /\ Topicless \subseteq EvmTx
    /\ Destination \subseteq Address
    /\ ZeroAddress \in Address
    /\ Value \subseteq Nat
    /\ MaxCalls \in Nat
    /\ MaxTries \in Nat \ {0}
    /\ MaxStarts \in Nat
    /\ Faulty \in BOOLEAN
    /\ LateIndex \in BOOLEAN
    /\ Repricing \in BOOLEAN
    /\ Others \in {"none", "truthful", "any"}
    /\ NoTx \notin Tx
    /\ NoProof # Garbled
    /\ {NoProof, Garbled} \cap [root : Nat, leaf : Tx] = {}

VARIABLES
    \* Cosmos
    height,         \* height of the last committed block
    openBlock,      \* transactions executed in the block being built
    blockOf,        \* height of the block a transaction was committed in, else 0
    receipts,       \* Lock events emitted by each transaction
    indexed,        \* transactions the node's RPC can find
    locks, nextNonce, balance,
    \* relayers
    proc,           \* "down", "up", or "stopping" after an interrupt
    starts,         \* times the process was started
    inbox,          \* transaction events on the websocket, not read yet
    jobs,           \* the processEvent goroutine of each transaction
    proofFile,      \* content of proof_event.json
    \* Ethereum
    pool,           \* pending transactions of each relayer's account, by nonce
    mined,          \* receipts of each relayer's account, by nonce
    trustedBlockRoot, processedTxs, balanceOf, totalSupply, minted

cosmosVars  == <<height, openBlock, blockOf, receipts, indexed, locks, nextNonce, balance>>
relayerVars == <<proc, starts, inbox, jobs, proofFile>>
chainVars   == <<trustedBlockRoot, processedTxs, balanceOf, totalSupply, minted>>
ethVars     == <<pool, mined, trustedBlockRoot, processedTxs, balanceOf, totalSupply, minted>>
vars        == <<cosmosVars, relayerVars, ethVars>>

Src == INSTANCE BridgeSource
Dst == INSTANCE BridgeDestination

-----------------------------------------------------------------------------
(* Relayer goroutines.  The local variables of processEvent and of the     *)
(* calls it makes; pc is the next step.                                    *)

Running == {"fetch", "lookup", "prove", "write", "rootNonce", "rootSend",
            "rootWait", "mintNonce", "mintRead", "mintSend"}
Outcome == {"skipped", "failed", "complete", "aborted"}

ProofOrNone == Dst!Proof \cup {NoProof, Garbled}

Job == [pc        : Running \cup Outcome \cup {"idle"},
        tries     : 0 .. MaxTries - 1,
        recipient : Address,
        amount    : Nat,
        root      : Nat,
        leaf      : Tx \cup {NoTx},
        nonce     : Nat,
        proof     : ProofOrNone]

\* A goroutine that has not started, or that has ended: it has no locals.
At(pc) == [pc |-> pc, tries |-> 0, recipient |-> ZeroAddress, amount |-> 0,
           root |-> 0, leaf |-> NoTx, nonce |-> 0, proof |-> NoProof]

Active(r) == {t \in Tx : jobs[r][t].pc \in Running}

SetJob(r, t, job) == jobs' = [jobs EXCEPT ![r][t] = job]
Goto(r, t, pc) == SetJob(r, t, [jobs[r][t] EXCEPT !.pc = pc])
End(r, t, outcome) == SetJob(r, t, At(outcome))

(* The process is gone: its goroutines and its connection go with it.      *)
Die(r) ==
    /\ proc' = [proc EXCEPT ![r] = "down"]
    /\ inbox' = [inbox EXCEPT ![r] = <<>>]
    /\ jobs' = [jobs EXCEPT ![r] =
                   [t \in Tx |-> IF t \in Active(r) THEN At("aborted") ELSE @[t]]]

-----------------------------------------------------------------------------
(* Ethereum transactions sent by goroutine t.                              *)

RootTx(t, newRoot) ==
    [kind |-> "root", job |-> t, root |-> newRoot, leaf |-> NoTx, proof |-> NoProof,
     recipient |-> ZeroAddress, amount |-> 0]

\* A mint that takes the hash from the proof file.
MintTxOfFile(t, job) ==
    [kind |-> "mint", job |-> t, root |-> job.root, leaf |-> job.proof.leaf, proof |-> job.proof,
     recipient |-> job.recipient, amount |-> job.amount]

MintTx(t, job) ==
    [kind |-> "mint", job |-> t, root |-> job.root, leaf |-> job.leaf, proof |-> job.proof,
     recipient |-> job.recipient, amount |-> job.amount]

EthTx == [kind : {"root", "mint"}, job : Tx, root : Nat, leaf : Tx \cup {NoTx},
          proof : ProofOrNone, recipient : Address, amount : Nat]
EthReceipt == [kind : {"root", "mint"}, job : Tx, ok : BOOLEAN]

PendingNonceAt(r) == Len(mined[r]) + Len(pool[r])

(* The pool takes a transaction with the next nonce.  One whose nonce is   *)
(* taken by a pending transaction is refused as underpriced unless the gas *)
(* price has moved far enough, and then it replaces the pending one.       *)
Accepted(r, nonce, tx) ==
    \/ /\ nonce = PendingNonceAt(r)
       /\ pool' = [pool EXCEPT ![r] = Append(@, tx)]
    \/ /\ Repricing
       /\ nonce \in Len(mined[r]) .. PendingNonceAt(r) - 1
       /\ pool' = [pool EXCEPT ![r][nonce - Len(mined[r]) + 1] = tx]

Refused(r, nonce) ==
    /\ nonce < PendingNonceAt(r)
    /\ UNCHANGED pool

-----------------------------------------------------------------------------
(* Cosmos                                                                  *)

DeliverTx(t) ==
    /\ blockOf[t] = 0
    /\ ~Contains(openBlock, t)
    /\ openBlock' = Append(openBlock, t)
    /\ UNCHANGED <<height, blockOf, receipts, indexed, locks, nextNonce, balance,
                   relayerVars, ethVars>>

(* The transaction being executed calls BridgeSource.lock.                 *)
CallLock(ethDestination, value) ==
    /\ openBlock # <<>>
    /\ LET t == openBlock[Len(openBlock)] IN
          /\ t \in EvmTx
          /\ Len(receipts[t]) < MaxCalls
          /\ Src!Lock(ethDestination, value)
          /\ receipts' = [receipts EXCEPT ![t] =
                             Append(@, Src!LockRecord(ethDestination, value))]
    /\ UNCHANGED <<height, openBlock, blockOf, indexed, relayerVars, ethVars>>

(* The block is committed; its data hash is a new root, and the events of  *)
(* its transactions go to the websockets that are subscribed.              *)
CommitBlock ==
    /\ openBlock # <<>>
    /\ height' = height + 1
    /\ blockOf' = [t \in Tx |-> IF Contains(openBlock, t) THEN height + 1 ELSE blockOf[t]]
    /\ inbox' = [r \in Relayer |-> IF proc[r] = "down" THEN inbox[r]
                                                      ELSE inbox[r] \o openBlock]
    /\ openBlock' = <<>>
    /\ UNCHANGED <<receipts, indexed, locks, nextNonce, balance,
                   proc, starts, jobs, proofFile, ethVars>>

IndexTx(t) ==
    /\ blockOf[t] > 0
    /\ t \notin indexed
    /\ indexed' = indexed \cup {t}
    /\ UNCHANGED <<height, openBlock, blockOf, receipts, locks, nextNonce, balance,
                   relayerVars, ethVars>>

-----------------------------------------------------------------------------
(* main                                                                    *)

(* Dial the websocket, start the reader, subscribe.  Nothing that happened *)
(* before is asked for.                                                    *)
Start(r) ==
    /\ proc[r] = "down"
    /\ starts[r] < MaxStarts
    /\ proc' = [proc EXCEPT ![r] = "up"]
    /\ starts' = [starts EXCEPT ![r] = @ + 1]
    /\ UNCHANGED <<inbox, jobs, proofFile, cosmosVars, ethVars>>

(* The reader takes a message and starts a goroutine for it.               *)
ReadMessage(r) ==
    /\ proc[r] # "down"
    /\ inbox[r] # <<>>
    /\ inbox' = [inbox EXCEPT ![r] = Tail(@)]
    /\ SetJob(r, Head(inbox[r]), At("fetch"))
    /\ UNCHANGED <<proc, starts, proofFile, cosmosVars, ethVars>>

(* An interrupt: main waits for the reader for a second at most, while the *)
(* reader and the goroutines go on.                                        *)
Interrupt(r) ==
    /\ r \in Stoppable
    /\ proc[r] = "up"
    /\ proc' = [proc EXCEPT ![r] = "stopping"]
    /\ UNCHANGED <<starts, inbox, jobs, proofFile, cosmosVars, ethVars>>

(* main returns: after a read error, after an interrupt, or killed.        *)
Exit(r) ==
    /\ r \in Stoppable
    /\ proc[r] # "down"
    /\ Die(r)
    /\ UNCHANGED <<starts, proofFile, cosmosVars, ethVars>>

-----------------------------------------------------------------------------
(* processEvent                                                            *)

(* GetTxDetails finds the transaction; GetEvmHash gives its EVM hash.      *)
FetchTx(r, t) ==
    /\ jobs[r][t].pc = "fetch"
    /\ t \in indexed
    /\ IF t \in EvmTx THEN Goto(r, t, "lookup") ELSE End(r, t, "skipped")
    /\ UNCHANGED <<proc, starts, inbox, proofFile, cosmosVars, ethVars>>

\* One attempt too many.
FetchMissOnceMore(r, t) ==
    /\ jobs[r][t].pc = "fetch"
    /\ t \notin indexed \/ Faulty
    /\ IF jobs[r][t].tries < MaxTries
       THEN SetJob(r, t, [jobs[r][t] EXCEPT !.tries = @ + 1])
       ELSE End(r, t, "skipped")
    /\ UNCHANGED <<proc, starts, inbox, proofFile, cosmosVars, ethVars>>

(* An attempt that finds nothing; a second later there is another one,     *)
(* until the attempts are used up.  With an index that is never late the   *)
(* last attempt does not miss.                                             *)
FetchMiss(r, t) ==
    /\ jobs[r][t].pc = "fetch"
    /\ t \notin indexed \/ Faulty
    /\ LateIndex \/ jobs[r][t].tries + 1 < MaxTries
    /\ IF jobs[r][t].tries + 1 < MaxTries
       THEN SetJob(r, t, [jobs[r][t] EXCEPT !.tries = @ + 1])
       ELSE End(r, t, "skipped")
    /\ UNCHANGED <<proc, starts, inbox, proofFile, cosmosVars, ethVars>>

(* FetchLockDetails: the first Lock event of the receipt.                  *)
LookupLock(r, t) ==
    /\ jobs[r][t].pc = "lookup"
    /\ t \notin Topicless
    /\ IF receipts[t] # <<>>
       THEN SetJob(r, t, [jobs[r][t] EXCEPT !.pc = "prove",
                                            !.recipient = receipts[t][1].ethDestination,
                                            !.amount = receipts[t][1].amount])
       ELSE End(r, t, "skipped")
    /\ UNCHANGED <<proc, starts, inbox, proofFile, cosmosVars, ethVars>>

LookupFail(r, t) ==
    /\ Faulty
    /\ jobs[r][t].pc = "lookup"
    /\ End(r, t, "skipped")
    /\ UNCHANGED <<proc, starts, inbox, proofFile, cosmosVars, ethVars>>

(* The search looks at the first topic of every log it passes.  A log that *)
(* has none makes it panic, and a panic in a goroutine ends the process.   *)
LookupPanic(r, t) ==
    /\ jobs[r][t].pc = "lookup"
    /\ t \in Topicless
    /\ Die(r)
    /\ UNCHANGED <<starts, proofFile, cosmosVars, ethVars>>

(* GenerateProof up to os.WriteFile, which begins by emptying the file.    *)
Prove(r, t) ==
    /\ jobs[r][t].pc = "prove"
    /\ SetJob(r, t, [jobs[r][t] EXCEPT !.pc = "write", !.root = blockOf[t], !.leaf = t])
    /\ proofFile' = [proofFile EXCEPT ![r] = NoProof]
    /\ UNCHANGED <<proc, starts, inbox, cosmosVars, ethVars>>

(* os.WriteFile puts the bytes.  On a file that is not empty any more they *)
(* cover what another goroutine wrote, all of it or only its beginning.    *)
WriteProof(r, t) ==
    /\ jobs[r][t].pc = "write"
    /\ Goto(r, t, "rootNonce")
    /\ \E content \in {[root |-> jobs[r][t].root, leaf |-> jobs[r][t].leaf], Garbled} :
          /\ content = Garbled => proofFile[r] # NoProof
          /\ proofFile' = [proofFile EXCEPT ![r] = content]
    /\ UNCHANGED <<proc, starts, inbox, cosmosVars, ethVars>>

(* A path through the tree of a block of more than two transactions may be *)
(* one the prover does not follow (module MerkleCircuit).                  *)
InLargeBlock(t) ==
    \E u, v \in Tx \ {t} : /\ u # v
                           /\ blockOf[u] = blockOf[t]
                           /\ blockOf[v] = blockOf[t]

ProveFail(r, t) ==
    /\ jobs[r][t].pc \in {"prove", "write"}
    /\ Faulty \/ (InLargeBlock(t) /\ jobs[r][t].pc = "prove")
    /\ End(r, t, "failed")
    /\ UNCHANGED <<proc, starts, inbox, proofFile, cosmosVars, ethVars>>

(* UpdateRoot: take a nonce, send, wait until the transaction is mined.    *)
(* The receipt's status is not looked at, and an error is only logged.     *)
(* The answer to a send may be lost although the pool took what was sent.  *)
RootNonce(r, t) ==
    /\ jobs[r][t].pc = "rootNonce"
    /\ SetJob(r, t, [jobs[r][t] EXCEPT !.pc = "rootSend", !.nonce = PendingNonceAt(r)])
    /\ UNCHANGED <<proc, starts, inbox, proofFile, cosmosVars, ethVars>>

\* Waiting for a transaction the node has refused.
RootSendUnchecked(r, t) ==
    /\ jobs[r][t].pc = "rootSend"
    /\ \/ Accepted(r, jobs[r][t].nonce, RootTx(t, jobs[r][t].root))
       \/ Refused(r, jobs[r][t].nonce)
    /\ Goto(r, t, "rootWait")
    /\ UNCHANGED <<proc, starts, inbox, proofFile, cosmosVars, mined, chainVars>>

RootSend(r, t) ==
    /\ jobs[r][t].pc = "rootSend"
    /\ \/ /\ Accepted(r, jobs[r][t].nonce, RootTx(t, jobs[r][t].root))
          /\ Goto(r, t, "rootWait")
       \/ /\ Refused(r, jobs[r][t].nonce)
          /\ Goto(r, t, "mintNonce")
       \/ /\ Faulty
          /\ Accepted(r, jobs[r][t].nonce, RootTx(t, jobs[r][t].root))
          /\ Goto(r, t, "mintNonce")
    /\ UNCHANGED <<proc, starts, inbox, proofFile, cosmosVars, mined, chainVars>>

RootMined(r, t) ==
    /\ jobs[r][t].pc = "rootWait"
    /\ \E i \in DOMAIN mined[r] : mined[r][i].kind = "root" /\ mined[r][i].job = t
    /\ Goto(r, t, "mintNonce")
    /\ UNCHANGED <<proc, starts, inbox, proofFile, cosmosVars, ethVars>>

RootFail(r, t) ==
    /\ Faulty
    /\ jobs[r][t].pc \in {"rootNonce", "rootSend"}
    /\ Goto(r, t, "mintNonce")
    /\ UNCHANGED <<proc, starts, inbox, proofFile, cosmosVars, ethVars>>

\* The nonce of an account that never sent anything.
MintNonceZero(r, t) ==
    /\ jobs[r][t].pc = "mintNonce"
    /\ SetJob(r, t, [jobs[r][t] EXCEPT !.pc = "mintRead", !.nonce = 0])
    /\ UNCHANGED <<proc, starts, inbox, proofFile, cosmosVars, ethVars>>

(* SubmitProof: take a nonce (0 if the node does not answer), read the     *)
(* file, send.  The result of the mint is not waited for.                  *)
MintNonce(r, t) ==
    /\ jobs[r][t].pc = "mintNonce"
    /\ \E nonce \in {PendingNonceAt(r)} \cup (IF Faulty THEN {0} ELSE {}) :
          SetJob(r, t, [jobs[r][t] EXCEPT !.pc = "mintRead", !.nonce = nonce])
    /\ UNCHANGED <<proc, starts, inbox, proofFile, cosmosVars, ethVars>>

MintRead(r, t) ==
    /\ jobs[r][t].pc = "mintRead"
    /\ proofFile[r] \in Dst!Proof
    /\ SetJob(r, t, [jobs[r][t] EXCEPT !.pc = "mintSend", !.proof = proofFile[r]])
    /\ UNCHANGED <<proc, starts, inbox, proofFile, cosmosVars, ethVars>>

(* Without a whole proof the numbers of the call are nil: encoding them    *)
(* panics, and a panic in a goroutine ends the process.                    *)
MintPanic(r, t) ==
    /\ jobs[r][t].pc = "mintRead"
    /\ proofFile[r] \notin Dst!Proof
    /\ Die(r)
    /\ UNCHANGED <<starts, proofFile, cosmosVars, ethVars>>

(* Without a chain id there is no transactor: UpdateRoot and SubmitProof   *)
(* ignore that error too and use the nil transactor.                       *)
NoChainID(r, t) ==
    /\ Faulty
    /\ jobs[r][t].pc \in {"rootNonce", "mintNonce"}
    /\ Die(r)
    /\ UNCHANGED <<starts, proofFile, cosmosVars, ethVars>>

\* A submission that counts as done although the node refused it.
MintSendUnchecked(r, t) ==
    /\ jobs[r][t].pc = "mintSend"
    /\ \/ Accepted(r, jobs[r][t].nonce, MintTx(t, jobs[r][t]))
       \/ Refused(r, jobs[r][t].nonce)
    /\ End(r, t, "complete")
    /\ UNCHANGED <<proc, starts, inbox, proofFile, cosmosVars, mined, chainVars>>

MintSend(r, t) ==
    /\ jobs[r][t].pc = "mintSend"
    /\ \/ /\ Accepted(r, jobs[r][t].nonce, MintTx(t, jobs[r][t]))
          /\ End(r, t, "complete")
       \/ /\ Refused(r, jobs[r][t].nonce)
          /\ End(r, t, "failed")
       \/ /\ Faulty
          /\ Accepted(r, jobs[r][t].nonce, MintTx(t, jobs[r][t]))
          /\ End(r, t, "failed")
    /\ UNCHANGED <<proc, starts, inbox, proofFile, cosmosVars, mined, chainVars>>

MintFail(r, t) ==
    /\ Faulty
    /\ jobs[r][t].pc \in {"mintNonce", "mintSend"}
    /\ End(r, t, "failed")
    /\ UNCHANGED <<proc, starts, inbox, proofFile, cosmosVars, ethVars>>

JobStep(r, t) ==
    \/ FetchTx(r, t)   \/ FetchMiss(r, t)
    \/ LookupLock(r, t) \/ LookupFail(r, t) \/ LookupPanic(r, t)
    \/ Prove(r, t)     \/ WriteProof(r, t) \/ ProveFail(r, t)
    \/ RootNonce(r, t) \/ RootSend(r, t)   \/ RootMined(r, t) \/ RootFail(r, t)
    \/ MintNonce(r, t) \/ MintRead(r, t)   \/ MintPanic(r, t) \/ NoChainID(r, t)
    \/ MintSend(r, t)  \/ MintFail(r, t)

-----------------------------------------------------------------------------
(* Ethereum                                                                *)

Receive(r, ok) ==
    /\ pool' = [pool EXCEPT ![r] = Tail(@)]
    /\ mined' = [mined EXCEPT ![r] =
                    Append(@, [kind |-> Head(pool[r]).kind, job |-> Head(pool[r]).job, ok |-> ok])]

(* The next transaction of a relayer's account is mined: accounts in any   *)
(* order, each account's transactions by nonce.                            *)
MineRoot(r) ==
    /\ pool[r] # <<>>
    /\ Head(pool[r]).kind = "root"
    /\ Dst!UpdateTrustedRoot(Head(pool[r]).root)
    /\ Receive(r, TRUE)
    /\ UNCHANGED <<cosmosVars, relayerVars>>

MineMint(r) ==
    /\ pool[r] # <<>>
    /\ LET tx == Head(pool[r]) IN
          /\ tx.kind = "mint"
          /\ Dst!Mint(tx.proof, tx.root, tx.leaf, tx.recipient, tx.amount)
    /\ Receive(r, TRUE)
    /\ UNCHANGED <<cosmosVars, relayerVars>>

MineRevert(r) ==
    /\ pool[r] # <<>>
    /\ LET tx == Head(pool[r]) IN
          /\ tx.kind = "mint"
          /\ ~Dst!MintAccepted(tx.proof, tx.root, tx.leaf, tx.recipient)
    /\ Receive(r, FALSE)
    /\ UNCHANGED <<chainVars, cosmosVars, relayerVars>>

\* t is in a block, and its first Lock event has these arguments.
FirstLock(t, recipient, amount) ==
    /\ blockOf[t] > 0
    /\ receipts[t] # <<>>
    /\ recipient = receipts[t][1].ethDestination
    /\ amount = receipts[t][1].amount

(* Another account sets the trusted root: of a block, or of none (0).      *)
OthersRoot ==
    /\ Others # "none"
    /\ \E root \in 0 .. height : Dst!UpdateTrustedRoot(root)
    /\ UNCHANGED <<cosmosVars, relayerVars, pool, mined>>

(* Another account calls mint with a proof the verifier accepts.  One that *)
(* is truthful names the block of the transaction, the recipient and the   *)
(* amount of its first lock, as a relayer does.                            *)
OthersMint ==
    /\ Others # "none"
    /\ \E t \in Tx, recipient \in Destination, amount \in Value :
       \E root \in {0, blockOf[t]} :
          /\ Others = "truthful" => root = blockOf[t] /\ FirstLock(t, recipient, amount)
          /\ Dst!Mint([root |-> root, leaf |-> t], root, t, recipient, amount)
    /\ UNCHANGED <<cosmosVars, relayerVars, pool, mined>>

-----------------------------------------------------------------------------
Init ==
    /\ height = 0
    /\ openBlock = <<>>
    /\ blockOf = [t \in Tx |-> 0]
    /\ receipts = [t \in Tx |-> <<>>]
    /\ indexed = {}
    /\ Src!Init
    /\ proc = [r \in Relayer |-> "down"]
    /\ starts = [r \in Relayer |-> 0]
    /\ inbox = [r \in Relayer |-> <<>>]
    /\ jobs = [r \in Relayer |-> [t \in Tx |-> At("idle")]]
    /\ proofFile = [r \in Relayer |-> NoProof]
    /\ pool = [r \in Relayer |-> <<>>]
    /\ mined = [r \in Relayer |-> <<>>]
    /\ Dst!Init

CosmosNext ==
    \/ \E t \in Tx : DeliverTx(t) \/ IndexTx(t)
    \/ \E a \in Destination, v \in Value : CallLock(a, v)
    \/ CommitBlock

RelayerNext(r) ==
    \/ Start(r) \/ ReadMessage(r) \/ Interrupt(r) \/ Exit(r)
    \/ \E t \in Tx : JobStep(r, t)

EthereumNext(r) == MineRoot(r) \/ MineMint(r) \/ MineRevert(r)

OthersNext == OthersRoot \/ OthersMint

Next == CosmosNext \/ OthersNext \/ \E r \in Relayer : RelayerNext(r) \/ EthereumNext(r)

Spec == Init /\ [][Next]_vars

(* The schedulers of Go and of the chains are fair: a goroutine that can   *)
(* go on does, a block that was begun is committed and indexed, a message  *)
(* is read, a pending transaction is mined.  Nothing has to be locked, and *)
(* nothing has to be interrupted, and no other account has to do anything. *)
Fairness ==
    /\ WF_vars(CommitBlock)
    /\ \A t \in Tx : WF_vars(IndexTx(t))
    /\ \A r \in Relayer : /\ WF_vars(Start(r))
                          /\ WF_vars(ReadMessage(r))
                          /\ WF_vars(EthereumNext(r))
    /\ \A r \in Relayer, t \in Tx : WF_vars(JobStep(r, t))

FairSpec == Spec /\ Fairness

-----------------------------------------------------------------------------
(* Properties                                                              *)

CosmosTypeOK ==
    /\ height \in Nat
    /\ openBlock \in Seq(Tx)
    /\ blockOf \in [Tx -> Nat]
    /\ receipts \in [Tx -> Seq(Src!LockDetails)]
    /\ indexed \subseteq Tx
    /\ Src!SourceTypeOK

RelayerTypeOK ==
    /\ proc \in [Relayer -> {"down", "up", "stopping"}]
    /\ starts \in [Relayer -> Nat]
    /\ inbox \in [Relayer -> Seq(Tx)]
    /\ jobs \in [Relayer -> [Tx -> Job]]
    /\ proofFile \in [Relayer -> ProofOrNone]

EthereumTypeOK ==
    /\ pool \in [Relayer -> Seq(EthTx)]
    /\ mined \in [Relayer -> Seq(EthReceipt)]
    /\ Dst!DestinationTypeOK

(* Every variable has its type: in particular a goroutine never starts an  *)
(* attempt beyond the last one, and only transaction hashes are processed. *)
TypeOK == CosmosTypeOK /\ RelayerTypeOK /\ EthereumTypeOK

(* A Cosmos transaction is minted for at most once, however many relayers, *)
(* restarts and repeated submissions there are, and whoever calls mint     *)
(* with whatever arguments (ARCHITECTURE.md: "each Cosmos transaction hash *)
(* can be bridged exactly once").                                          *)
MintedOnce ==
    \A i, j \in DOMAIN minted : minted[i].txHash = minted[j].txHash => i = j

(* What is minted for a transaction is what the first Lock event of that   *)
(* transaction says, and the transaction is in a committed block.  mint    *)
(* itself does not tie recipient and amount to the proof: this rests on    *)
(* the relayer never pairing a proof with another goroutine's lock, and on *)
(* the other callers of mint being truthful.                               *)
MintedAsLocked ==
    \A i \in DOMAIN minted :
        LET e == minted[i] IN
            /\ blockOf[e.txHash] > 0
            /\ receipts[e.txHash] # <<>>
            /\ e.recipient = receipts[e.txHash][1].ethDestination
            /\ e.amount = receipts[e.txHash][1].amount

(* Every wrapped token is backed by a coin held by BridgeSource, as long   *)
(* as accounts other than the relayers' mint only what was locked: the     *)
(* contract itself compares an amount with nothing.                        *)
SupplyBacked == totalSupply <= balance

(* Supply is created only for one new transaction at a time, by the amount *)
(* that transaction locked, while the trusted root is the root of the very *)
(* block the transaction is in.  Anybody may change the root, to that of   *)
(* no block too, and mint, as long as those who mint are truthful.         *)
SupplyGrowsByLock ==
    [][totalSupply' # totalSupply =>
         \E t \in Tx : /\ processedTxs' \ processedTxs = {t}
                       /\ blockOf[t] = trustedBlockRoot
                       /\ totalSupply' - totalSupply = receipts[t][1].amount]_vars

(* When a goroutine reports "Relay Complete!", its mint transaction is in  *)
(* the pool or was mined: a collision of nonces between goroutines never   *)
(* loses a transaction that the relayer counts as submitted.  (As long as  *)
(* the pool does not replace transactions.)                                *)
CompleteIsSubmitted ==
    \A r \in Relayer, t \in Tx :
        jobs[r][t].pc = "complete" =>
            \/ \E i \in DOMAIN pool[r] : pool[r][i].kind = "mint" /\ pool[r][i].job = t
            \/ \E i \in DOMAIN mined[r] : mined[r][i].kind = "mint" /\ mined[r][i].job = t

(* Every goroutine that was started ends: in particular the wait for the   *)
(* root update to be mined is never for a transaction that was not sent.   *)
JobsEnd ==
    \A r \in Relayer, t \in Tx : jobs[r][t].pc = "fetch" ~> jobs[r][t].pc \in Outcome

(* A transaction that is locked for an account that can be paid.           *)
Locked(t) ==
    /\ blockOf[t] > 0
    /\ receipts[t] # <<>>
    /\ receipts[t][1].ethDestination # ZeroAddress

(* A lock is minted for in the end.                                        *)
LocksMinted == \A t \in Tx : Locked(t) ~> t \in processedTxs

\* ... and whose Lock event FetchLockDetails gets to.
Readable(t) == Locked(t) /\ t \notin Topicless

(* A lock whose receipt can be read is minted for in the end, although the *)
(* receipts of other transactions end the processes that read them.        *)
ReadableLocksMinted == \A t \in Tx : Readable(t) ~> t \in processedTxs

(* A mint that is mined succeeds, if its recipient can be paid, unless     *)
(* another process has had the transaction minted for.                     *)
NoMintReverts ==
    \A r \in Relayer : \A i \in DOMAIN mined[r] :
        Locked(mined[r][i].job) => mined[r][i].ok \/ mined[r][i].job \in processedTxs

-----------------------------------------------------------------------------
(* The ledger this implements: a committed transaction with a Lock event   *)
(* is a claim for what its first Lock event says; the BridgeMinted events  *)
(* are the payments.                                                       *)
ClaimOf(t) == [recipient |-> receipts[t][1].ethDestination,
               amount    |-> receipts[t][1].amount,
               txHash    |-> t]

Ledger == INSTANCE BridgeLedger WITH
              Amount <- Nat,
              claims <- {ClaimOf(t) : t \in {u \in Tx : blockOf[u] > 0 /\ receipts[u] # <<>>}},
              paid   <- {minted[i] : i \in DOMAIN minted},
              issued <- totalSupply

(* The bridge keeps the promises of the ledger, whatever is reordered,     *)
(* repeated, lost or interrupted on the relayers' way, as long as the      *)
(* other accounts that call mint, which is open to all, are truthful.      *)
KeepsLedger == Ledger!Spec

-----------------------------------------------------------------------------
(* The inductive invariant behind MintedOnce, MintedAsLocked and the       *)
(* ledger.                                                                 *)

\* A transaction that is being executed is in no block yet.
OpenOK == \A i \in DOMAIN openBlock : blockOf[openBlock[i]] = 0

\* Events are about committed transactions.
InboxOK == \A r \in Relayer : \A i \in DOMAIN inbox[r] : blockOf[inbox[r][i]] > 0

\* What the locals of a goroutine hold, from the step that sets them on.
JobOK(t, job) ==
    /\ job.pc # "idle" => blockOf[t] > 0
    /\ job.pc \in Running \ {"fetch", "lookup"} => FirstLock(t, job.recipient, job.amount)
    /\ job.pc \in Running \ {"fetch", "lookup", "prove"} =>
          job.leaf = t /\ job.root = blockOf[t]
    /\ job.pc = "mintSend" => job.proof \in Dst!Proof

JobsOK == \A r \in Relayer, t \in Tx : JobOK(t, jobs[r][t])

\* A mint on its way carries the first lock of the transaction it names.
SentOK(tx) ==
    tx.kind = "mint" => /\ tx.leaf \in Tx
                        /\ tx.root = blockOf[tx.leaf]
                        /\ FirstLock(tx.leaf, tx.recipient, tx.amount)

PoolOK == \A r \in Relayer : \A i \in DOMAIN pool[r] : SentOK(pool[r][i])

\* The contract's mapping and its events tell the same story.
ProcessedOK == processedTxs = {minted[i].txHash : i \in DOMAIN minted}

(* All of it: an invariant that every step preserves by itself.            *)
IInv ==
    /\ TypeOK
    /\ OpenOK
    /\ InboxOK
    /\ JobsOK
    /\ PoolOK
    /\ ProcessedOK
    /\ MintedOnce
    /\ Others # "any" => MintedAsLocked
=============================================================================
