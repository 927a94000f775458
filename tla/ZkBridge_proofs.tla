---------------------------- MODULE ZkBridge_proofs ----------------------------
(***************************************************************************)
(* The bridge mints at most once for a transaction, and what it locked:    *)
(* for any number of relayers, transactions, accounts, retries and         *)
(* restarts, with every remote call allowed to fail.                       *)
(*                                                                         *)
(* The proof is one induction: IInv holds initially and every action       *)
(* preserves it.  The actions fall into three groups by what they leave    *)
(* alone.  Cosmos actions move no goroutine and no token; the facts the    *)
(* goroutines hold about committed transactions survive them (Stable).     *)
(* Goroutine steps only change one goroutine, the files and the pool       *)
(* (JobChange).  Mining changes only Ethereum.                             *)
(***************************************************************************)
EXTENDS MCZkBridge, SequenceTheorems, SumLemmas, TLAPS

USE BridgeAssumption

-----------------------------------------------------------------------------
(* Goroutine records.                                                      *)

LEMMA AtType ==
    ASSUME NEW pc \in Running \cup Outcome \cup {"idle"}
    PROVE  At(pc) \in Job
  BY DEF At, Job, ProofOrNone

(* A goroutine that has ended, or has just begun, holds nothing.           *)
LEMMA AtOK ==
    ASSUME NEW t \in Tx, blockOf[t] > 0, NEW pc \in Outcome \cup {"fetch"}
    PROVE  JobOK(t, At(pc))
  BY DEF At, JobOK, Outcome, Running

(* Changing one goroutine to a good one keeps all of them good.            *)
LEMMA JobChange ==
    ASSUME jobs \in [Relayer -> [Tx -> Job]], JobsOK,
           NEW r \in Relayer, NEW t \in Tx, NEW job \in Job,
           JobOK(t, job), SetJob(r, t, job),
           UNCHANGED <<blockOf, receipts>>
    PROVE  /\ jobs' \in [Relayer -> [Tx -> Job]]
           /\ JobsOK'
  <1>1. jobs' \in [Relayer -> [Tx -> Job]]
    BY DEF SetJob
  <1>2. ASSUME NEW s \in Relayer, NEW u \in Tx
        PROVE  JobOK(u, jobs[s][u])'
    <2>1. jobs'[s][u] = IF s = r /\ u = t THEN job ELSE jobs[s][u]
      BY DEF SetJob
    <2>2. JobOK(u, jobs'[s][u])
      BY <2>1 DEF JobsOK
    <2>3. QED  BY <2>2 DEF JobOK, FirstLock
  <1>3. QED  BY <1>1, <1>2 DEF JobsOK

(* The end of a process is harmless.                                       *)
LEMMA DieChange ==
    ASSUME jobs \in [Relayer -> [Tx -> Job]], JobsOK,
           inbox \in [Relayer -> Seq(Tx)], InboxOK,
           proc \in [Relayer -> {"down", "up", "stopping"}],
           NEW r \in Relayer, Die(r),
           UNCHANGED <<blockOf, receipts>>
    PROVE  /\ jobs' \in [Relayer -> [Tx -> Job]]
           /\ JobsOK'
           /\ inbox' \in [Relayer -> Seq(Tx)]
           /\ InboxOK'
           /\ proc' \in [Relayer -> {"down", "up", "stopping"}]
  <1>1. At("aborted") \in Job
    BY AtType DEF Outcome
  <1>2. \A s \in Relayer, u \in Tx :
            jobs'[s][u] = IF s = r /\ u \in Active(r) THEN At("aborted") ELSE jobs[s][u]
    BY DEF Die
  <1>3. jobs' \in [Relayer -> [Tx -> Job]]
    BY <1>1 DEF Die
  <1>4. ASSUME NEW s \in Relayer, NEW u \in Tx
        PROVE  JobOK(u, jobs[s][u])'
    <2>1. CASE s = r /\ u \in Active(r)
      <3>1. blockOf[u] > 0
        BY <2>1 DEF Active, JobsOK, JobOK, Running
      <3>2. JobOK(u, At("aborted"))
        BY <3>1, AtOK DEF Outcome
      <3>3. QED  BY <2>1, <1>2, <3>2 DEF JobOK, FirstLock
    <2>2. CASE ~(s = r /\ u \in Active(r))
      <3>1. JobOK(u, jobs'[s][u])
        BY <2>2, <1>2 DEF JobsOK
      <3>2. QED  BY <3>1 DEF JobOK, FirstLock
    <2>3. QED  BY <2>1, <2>2
  <1>5. inbox' \in [Relayer -> Seq(Tx)]
    BY DEF Die
  <1>6. InboxOK'
    BY DEF Die, InboxOK
  <1>7. proc' \in [Relayer -> {"down", "up", "stopping"}]
    BY DEF Die
  <1>8. QED  BY <1>3, <1>4, <1>5, <1>6, <1>7 DEF JobsOK

-----------------------------------------------------------------------------
(* Cosmos.                                                                 *)

(* What a step must leave alone of the facts others rely on.               *)
Keep == \A t \in Tx : blockOf[t] > 0 => /\ blockOf'[t] = blockOf[t]
                                        /\ receipts'[t] = receipts[t]

LEMMA Stable ==
    ASSUME TypeOK, OpenOK, CosmosNext
    PROVE  Keep
  <1>1. ASSUME NEW t \in Tx, DeliverTx(t)
        PROVE  Keep
    BY <1>1 DEF DeliverTx, Keep
  <1>2. ASSUME NEW t \in Tx, IndexTx(t)
        PROVE  Keep
    BY <1>2 DEF IndexTx, Keep
  <1>3. ASSUME NEW a \in Destination, NEW v \in Value, CallLock(a, v)
        PROVE  Keep
    <2>1. Len(openBlock) \in DOMAIN openBlock
      BY <1>3 DEF CallLock, TypeOK, CosmosTypeOK
    <2>2. blockOf[openBlock[Len(openBlock)]] = 0
      BY <2>1 DEF OpenOK
    <2>3. QED  BY <1>3, <2>2 DEF CallLock, TypeOK, CosmosTypeOK, Keep
  <1>4. ASSUME CommitBlock
        PROVE  Keep
    BY <1>4 DEF CommitBlock, TypeOK, CosmosTypeOK, OpenOK, Keep, Contains
  <1>5. QED  BY <1>1, <1>2, <1>3, <1>4 DEF CosmosNext

LEMMA FirstLockKept ==
    ASSUME Keep, NEW t \in Tx, NEW a, NEW v, FirstLock(t, a, v)
    PROVE  FirstLock(t, a, v)'
  BY DEF Keep, FirstLock

LEMMA JobsKept ==
    ASSUME TypeOK, Keep, JobsOK, UNCHANGED jobs
    PROVE  JobsOK'
  <1>1. ASSUME NEW r \in Relayer, NEW t \in Tx
        PROVE  JobOK(t, jobs[r][t])'
    <2>1. JobOK(t, jobs[r][t])
      BY DEF JobsOK
    <2>2. CASE jobs[r][t].pc = "idle"
      BY <2>2 DEF JobOK, Running
    <2>3. CASE jobs[r][t].pc # "idle"
      <3>1. blockOf[t] > 0 /\ blockOf'[t] = blockOf[t]
        BY <2>1, <2>3 DEF JobOK, Keep
      <3>2. QED  BY <2>1, <2>3, <3>1, FirstLockKept DEF JobOK
    <2>4. QED  BY <2>2, <2>3
  <1>2. QED  BY <1>1 DEF JobsOK

LEMMA PoolKept ==
    ASSUME TypeOK, Keep, PoolOK, UNCHANGED pool
    PROVE  PoolOK'
  <1>1. ASSUME NEW r \in Relayer, NEW i \in DOMAIN pool[r]
        PROVE  SentOK(pool[r][i])'
    <2>1. SentOK(pool[r][i])
      BY DEF PoolOK
    <2>2. QED  BY <2>1, FirstLockKept DEF SentOK, FirstLock, Keep
  <1>2. QED  BY <1>1 DEF PoolOK

LEMMA MintedKept ==
    ASSUME TypeOK, Keep, MintedAsLocked, UNCHANGED minted
    PROVE  MintedAsLocked'
  <1>1. ASSUME NEW i \in DOMAIN minted
        PROVE  minted[i].txHash \in Tx
    <2>1. minted[i] \in Dst!MintEvent
      BY DEF TypeOK, EthereumTypeOK, Dst!DestinationTypeOK
    <2>2. QED  BY <2>1 DEF Dst!MintEvent
  <1>2. QED  BY <1>1 DEF MintedAsLocked, Keep

-----------------------------------------------------------------------------
(* Types of the Cosmos variables.                                          *)

LEMMA CosmosType ==
    ASSUME TypeOK, CosmosNext
    PROVE  TypeOK'
  <1>1. EthereumTypeOK'
    <2>1. UNCHANGED ethVars
      BY DEF CosmosNext, DeliverTx, IndexTx, CallLock, CommitBlock
    <2>2. QED  BY <2>1 DEF TypeOK, EthereumTypeOK, ethVars, Dst!DestinationTypeOK
  <1>2. RelayerTypeOK'
    <2>1. CASE UNCHANGED relayerVars
      BY <2>1 DEF TypeOK, RelayerTypeOK, relayerVars
    <2>2. CASE CommitBlock
      <3>1. inbox' \in [Relayer -> Seq(Tx)]
        BY <2>2, ConcatProperties DEF CommitBlock, TypeOK, RelayerTypeOK, CosmosTypeOK
      <3>2. QED  BY <2>2, <3>1 DEF CommitBlock, TypeOK, RelayerTypeOK
    <2>3. QED  BY <2>1, <2>2 DEF CosmosNext, DeliverTx, IndexTx, CallLock
  <1>3. CosmosTypeOK'
    <2> USE DEF TypeOK, CosmosTypeOK
    <2>1. ASSUME NEW t \in Tx, DeliverTx(t)
          PROVE  CosmosTypeOK'
      BY <2>1, AppendProperties DEF DeliverTx, Src!SourceTypeOK
    <2>2. ASSUME NEW t \in Tx, IndexTx(t)
          PROVE  CosmosTypeOK'
      BY <2>2 DEF IndexTx, Src!SourceTypeOK
    <2>3. ASSUME NEW a \in Destination, NEW v \in Value, CallLock(a, v)
          PROVE  CosmosTypeOK'
      <3>1. Src!LockRecord(a, v) \in Src!LockDetails
        BY DEF Src!SourceTypeOK, Src!LockRecord, Src!LockDetails
      <3>2. receipts' \in [Tx -> Seq(Src!LockDetails)]
        BY <2>3, <3>1, AppendProperties DEF CallLock
      <3>3. nextNonce' \in Nat /\ balance' \in Nat /\ nextNonce' - 1 = nextNonce
        BY <2>3 DEF CallLock, Src!Lock, Src!SourceTypeOK
      <3>4. locks' \in [0 .. nextNonce -> Src!LockDetails]
        BY <2>3, <3>1 DEF CallLock, Src!Lock, Src!SourceTypeOK
      <3>5. Src!SourceTypeOK'
        BY <3>3, <3>4 DEF Src!SourceTypeOK
      <3>6. QED  BY <2>3, <3>2, <3>5 DEF CallLock
    <2>4. ASSUME CommitBlock
          PROVE  CosmosTypeOK'
      BY <2>4 DEF CommitBlock, Src!SourceTypeOK
    <2>5. QED  BY <2>1, <2>2, <2>3, <2>4 DEF CosmosNext
  <1>4. QED  BY <1>1, <1>2, <1>3 DEF TypeOK

(* Every Cosmos step preserves the invariant.                              *)
LEMMA CosmosStep ==
    ASSUME IInv, CosmosNext
    PROVE  IInv'
  <1>1. TypeOK'
    BY CosmosType DEF IInv
  <1>2. Keep
    BY Stable DEF IInv
  <1>3. UNCHANGED <<jobs, pool, processedTxs, minted>>
    BY DEF CosmosNext, DeliverTx, IndexTx, CallLock, CommitBlock, relayerVars, ethVars
  <1>4. /\ JobsOK' /\ PoolOK' /\ ProcessedOK' /\ MintedOnce'
        /\ Others # "any" => MintedAsLocked'
    BY <1>2, <1>3, JobsKept, PoolKept, MintedKept DEF IInv, ProcessedOK, MintedOnce
  <1>5. OpenOK'
    <2>1. ASSUME NEW t \in Tx, DeliverTx(t)
          PROVE  OpenOK'
      BY <2>1, AppendProperties DEF IInv, TypeOK, CosmosTypeOK, OpenOK, DeliverTx
    <2>2. ASSUME NEW t \in Tx, IndexTx(t)
          PROVE  OpenOK'
      BY <2>2 DEF IInv, OpenOK, IndexTx
    <2>3. ASSUME NEW a \in Destination, NEW v \in Value, CallLock(a, v)
          PROVE  OpenOK'
      BY <2>3 DEF IInv, OpenOK, CallLock
    <2>4. ASSUME CommitBlock
          PROVE  OpenOK'
      BY <2>4 DEF OpenOK, CommitBlock
    <2>5. QED  BY <2>1, <2>2, <2>3, <2>4 DEF CosmosNext
  <1>6. InboxOK'
    <2>1. CASE UNCHANGED inbox
      <3>1. \A r \in Relayer : \A i \in DOMAIN inbox[r] : inbox[r][i] \in Tx
        BY DEF IInv, TypeOK, CosmosTypeOK, RelayerTypeOK
      <3>2. QED  BY <2>1, <3>1, <1>2 DEF IInv, InboxOK, Keep
    <2>2. CASE CommitBlock
      <3>1. \A t \in Tx : blockOf[t] > 0 => blockOf'[t] > 0
        BY <1>2 DEF Keep
      <3>2. ASSUME NEW i \in DOMAIN openBlock
            PROVE  blockOf'[openBlock[i]] > 0
        BY <2>2, <1>1 DEF CommitBlock, Contains, IInv, TypeOK, CosmosTypeOK
      <3>3. ASSUME NEW r \in Relayer, NEW i \in DOMAIN inbox'[r]
            PROVE  blockOf'[inbox'[r][i]] > 0
        <4>1. CASE inbox'[r] = inbox[r]
          BY <4>1, <3>1 DEF IInv, TypeOK, RelayerTypeOK, InboxOK
        <4>2. CASE inbox'[r] = inbox[r] \o openBlock
          <5>1. inbox[r] \in Seq(Tx) /\ openBlock \in Seq(Tx)
            BY DEF IInv, TypeOK, CosmosTypeOK, RelayerTypeOK
          <5>2. i \in 1 .. Len(inbox[r]) + Len(openBlock)
            BY <4>2, <5>1, ConcatProperties
          <5>3. inbox'[r][i] = IF i <= Len(inbox[r]) THEN inbox[r][i]
                                                     ELSE openBlock[i - Len(inbox[r])]
            BY <4>2, <5>1, <5>2, ConcatProperties
          <5>4. CASE i <= Len(inbox[r])
            BY <5>1, <5>2, <5>3, <5>4, <3>1 DEF IInv, InboxOK
          <5>5. CASE i > Len(inbox[r])
            <6>1. i - Len(inbox[r]) \in DOMAIN openBlock
              BY <5>1, <5>2, <5>5
            <6>2. QED  BY <5>1, <5>2, <5>3, <5>5, <6>1, <3>2
          <5>6. QED  BY <5>1, <5>2, <5>4, <5>5
        <4>3. QED  BY <2>2, <4>1, <4>2 DEF CommitBlock, IInv, TypeOK, RelayerTypeOK
      <3>4. QED  BY <3>3 DEF InboxOK
    <2>3. QED  BY <2>1, <2>2 DEF CosmosNext, DeliverTx, IndexTx, CallLock, relayerVars
  <1>7. QED  BY <1>1, <1>4, <1>5, <1>6 DEF IInv

-----------------------------------------------------------------------------
(* The pool.                                                               *)

(* A good transaction that the node takes, as a new one or in the place of *)
(* a pending one, leaves a good pool.                                      *)
LEMMA PoolChange ==
    ASSUME TypeOK, PoolOK, NEW r \in Relayer, NEW nonce \in Nat, NEW tx \in EthTx,
           SentOK(tx), Accepted(r, nonce, tx), UNCHANGED <<blockOf, receipts>>
    PROVE  /\ pool' \in [Relayer -> Seq(EthTx)]
           /\ PoolOK'
  <1>0. /\ pool \in [Relayer -> Seq(EthTx)]
        /\ pool[r] \in Seq(EthTx)
        /\ Len(mined[r]) \in Nat
        /\ Len(pool[r]) \in Nat
    BY DEF TypeOK, EthereumTypeOK
  <1>1. /\ pool'[r] \in Seq(EthTx)
        /\ \A i \in DOMAIN pool'[r] : SentOK(pool'[r][i])
        /\ pool' = [pool EXCEPT ![r] = pool'[r]]
    <2>1. CASE pool' = [pool EXCEPT ![r] = Append(@, tx)]
      <3>1. pool'[r] = Append(pool[r], tx)
        BY <1>0, <2>1
      <3>2. \A i \in DOMAIN pool'[r] : pool'[r][i] = tx \/ (i \in DOMAIN pool[r] /\ pool'[r][i] = pool[r][i])
        BY <1>0, <3>1, AppendProperties
      <3>3. QED  BY <1>0, <2>1, <3>1, <3>2, AppendProperties DEF PoolOK
    <2>2. ASSUME NEW k \in 1 .. Len(pool[r]), pool' = [pool EXCEPT ![r][k] = tx]
          PROVE  /\ pool'[r] \in Seq(EthTx)
                 /\ \A i \in DOMAIN pool'[r] : SentOK(pool'[r][i])
                 /\ pool' = [pool EXCEPT ![r] = pool'[r]]
      <3>1. pool'[r] = [pool[r] EXCEPT ![k] = tx]
        BY <1>0, <2>2
      <3>2. /\ pool'[r] \in Seq(EthTx)
            /\ DOMAIN pool'[r] = DOMAIN pool[r]
            /\ \A i \in DOMAIN pool[r] : pool'[r][i] = IF i = k THEN tx ELSE pool[r][i]
        BY <1>0, <3>1, ExceptSeq
      <3>3. QED  BY <1>0, <2>2, <3>1, <3>2 DEF PoolOK
    <2>3. CASE /\ nonce \in Len(mined[r]) .. PendingNonceAt(r) - 1
               /\ pool' = [pool EXCEPT ![r][nonce - Len(mined[r]) + 1] = tx]
      <3>1. nonce - Len(mined[r]) + 1 \in 1 .. Len(pool[r])
        BY <1>0, <2>3 DEF PendingNonceAt
      <3>2. QED  BY <2>2, <2>3, <3>1
    <2>4. QED  BY <2>1, <2>3 DEF Accepted
  <1>2. pool' \in [Relayer -> Seq(EthTx)]
    BY <1>0, <1>1
  <1>3. ASSUME NEW s \in Relayer, NEW i \in DOMAIN pool'[s]
        PROVE  SentOK(pool[s][i])'
    <2>1. SentOK(pool'[s][i])
      BY <1>0, <1>1 DEF PoolOK
    <2>2. QED  BY <2>1 DEF SentOK, FirstLock
  <1>4. QED  BY <1>2, <1>3 DEF PoolOK

-----------------------------------------------------------------------------
(* Goroutine steps.                                                        *)

(* What any step of a process keeps when it leaves the chains alone and    *)
(* has been shown to keep its own variables and the pool in order.         *)
LEMMA RelayerFrame ==
    ASSUME IInv, UNCHANGED <<cosmosVars, mined, chainVars>>,
           RelayerTypeOK', InboxOK', JobsOK',
           pool' \in [Relayer -> Seq(EthTx)], PoolOK'
    PROVE  IInv'
  <1>1. CosmosTypeOK'
    BY DEF IInv, TypeOK, CosmosTypeOK, cosmosVars, Src!SourceTypeOK
  <1>2. EthereumTypeOK'
    BY DEF IInv, TypeOK, EthereumTypeOK, chainVars, Dst!DestinationTypeOK
  <1>3. OpenOK' /\ ProcessedOK' /\ MintedOnce' /\ (Others # "any" => MintedAsLocked')
    BY DEF IInv, OpenOK, ProcessedOK, MintedOnce, MintedAsLocked, cosmosVars, chainVars
  <1>4. QED  BY <1>1, <1>2, <1>3 DEF IInv, TypeOK

LEMMA PoolFrame ==
    ASSUME IInv, UNCHANGED <<pool, cosmosVars>>
    PROVE  pool' \in [Relayer -> Seq(EthTx)] /\ PoolOK'
  BY DEF IInv, TypeOK, EthereumTypeOK, PoolOK, SentOK, FirstLock, cosmosVars

LEMMA InboxFrame ==
    ASSUME IInv, UNCHANGED <<inbox, cosmosVars>>
    PROVE  InboxOK'
  BY DEF IInv, InboxOK, cosmosVars

(* A goroutine step that touches nothing but its own locals and the proof  *)
(* file.                                                                   *)
LEMMA LocalStep ==
    ASSUME IInv, NEW r \in Relayer, NEW t \in Tx, NEW job \in Job,
           JobOK(t, job), SetJob(r, t, job),
           proofFile' \in [Relayer -> ProofOrNone],
           UNCHANGED <<proc, starts, inbox, cosmosVars, ethVars>>
    PROVE  IInv'
  <1>1. jobs' \in [Relayer -> [Tx -> Job]] /\ JobsOK'
    BY JobChange DEF IInv, TypeOK, RelayerTypeOK, cosmosVars
  <1>2. RelayerTypeOK'
    BY <1>1 DEF IInv, TypeOK, RelayerTypeOK
  <1>3. QED  BY <1>1, <1>2, PoolFrame, InboxFrame, RelayerFrame DEF ethVars, chainVars

(* The end of a goroutine, whatever its outcome.                           *)
LEMMA EndStep ==
    ASSUME IInv, NEW r \in Relayer, NEW t \in Tx, NEW outcome \in Outcome,
           jobs[r][t].pc \in Running, End(r, t, outcome),
           UNCHANGED <<proc, starts, inbox, proofFile, cosmosVars, ethVars>>
    PROVE  IInv'
  <1>1. At(outcome) \in Job
    BY AtType
  <1>2. blockOf[t] > 0
    BY DEF IInv, JobsOK, JobOK, Running
  <1>3. JobOK(t, At(outcome))
    BY <1>2, AtOK
  <1>4. proofFile' \in [Relayer -> ProofOrNone]
    BY DEF IInv, TypeOK, RelayerTypeOK
  <1>5. QED  BY <1>1, <1>3, <1>4, LocalStep DEF End

(* processEvent up to the lock details.                                    *)
LEMMA FetchSteps ==
    ASSUME IInv, NEW r \in Relayer, NEW t \in Tx,
           \/ FetchTx(r, t)    \/ FetchMiss(r, t)
           \/ LookupLock(r, t) \/ LookupFail(r, t)
    PROVE  IInv'
  <1> DEFINE j == jobs[r][t]
  <1>1. j \in Job /\ JobOK(t, j) /\ proofFile \in [Relayer -> ProofOrNone]
    BY DEF IInv, TypeOK, RelayerTypeOK, JobsOK
  <1>2. CASE FetchTx(r, t)
    <2>1. CASE t \in EvmTx
      <3> DEFINE k == [j EXCEPT !.pc = "lookup"]
      <3>1. k \in Job
        BY <1>1 DEF Job, Running
      <3>2. JobOK(t, k)
        BY <1>1, <1>2 DEF FetchTx, JobOK, Job, Running
      <3>3. QED  BY <1>1, <1>2, <2>1, <3>1, <3>2, LocalStep DEF FetchTx, Goto
    <2>2. CASE t \notin EvmTx
      BY <1>2, <2>2, EndStep DEF FetchTx, Running, Outcome
    <2>3. QED  BY <2>1, <2>2
  <1>3. CASE FetchMiss(r, t)
    <2>1. CASE j.tries + 1 < MaxTries
      <3> DEFINE k == [j EXCEPT !.tries = @ + 1]
      <3>1. k \in Job
        BY <1>1, <2>1 DEF Job
      <3>2. JobOK(t, k)
        BY <1>1, <1>3 DEF FetchMiss, JobOK, Job, Running
      <3>3. QED  BY <1>1, <1>3, <2>1, <3>1, <3>2, LocalStep DEF FetchMiss
    <2>2. CASE ~(j.tries + 1 < MaxTries)
      BY <1>3, <2>2, EndStep DEF FetchMiss, Running, Outcome
    <2>3. QED  BY <2>1, <2>2
  <1>4. CASE LookupLock(r, t)
    <2>1. CASE receipts[t] # <<>>
      <3> DEFINE k == [j EXCEPT !.pc = "prove",
                                !.recipient = receipts[t][1].ethDestination,
                                !.amount = receipts[t][1].amount]
      <3>1. receipts[t][1] \in Src!LockDetails
        BY <2>1 DEF IInv, TypeOK, CosmosTypeOK
      <3>2. receipts[t][1].ethDestination \in Address /\ receipts[t][1].amount \in Nat
        BY <3>1 DEF Src!LockDetails
      <3>3. k \in Job
        BY <1>1, <3>2 DEF Job, Running
      <3>4. JobOK(t, k)
        BY <1>1, <1>4, <2>1 DEF LookupLock, JobOK, Job, Running, FirstLock
      <3>5. QED  BY <1>1, <1>4, <2>1, <3>3, <3>4, LocalStep DEF LookupLock
    <2>2. CASE receipts[t] = <<>>
      BY <1>4, <2>2, EndStep DEF LookupLock, Running, Outcome
    <2>3. QED  BY <2>1, <2>2
  <1>5. CASE LookupFail(r, t)
    BY <1>5, EndStep DEF LookupFail, Running, Outcome
  <1>6. QED  BY <1>2, <1>3, <1>4, <1>5

(* GenerateProof.                                                          *)
LEMMA ProveSteps ==
    ASSUME IInv, NEW r \in Relayer, NEW t \in Tx,
           Prove(r, t) \/ WriteProof(r, t) \/ ProveFail(r, t)
    PROVE  IInv'
  <1> DEFINE j == jobs[r][t]
  <1>1. j \in Job /\ JobOK(t, j) /\ proofFile \in [Relayer -> ProofOrNone]
    BY DEF IInv, TypeOK, RelayerTypeOK, JobsOK
  <1>2. CASE Prove(r, t)
    <2> DEFINE k == [j EXCEPT !.pc = "write", !.root = blockOf[t], !.leaf = t]
    <2>1. k \in Job
      BY <1>1 DEF Job, Running, IInv, TypeOK, CosmosTypeOK
    <2>2. JobOK(t, k)
      BY <1>1, <1>2 DEF Prove, JobOK, Job, Running
    <2>3. proofFile' \in [Relayer -> ProofOrNone]
      BY <1>1, <1>2 DEF Prove, ProofOrNone
    <2>4. QED  BY <1>2, <2>1, <2>2, <2>3, LocalStep DEF Prove
  <1>3. CASE WriteProof(r, t)
    <2> DEFINE k == [j EXCEPT !.pc = "rootNonce"]
    <2>1. k \in Job
      BY <1>1 DEF Job, Running
    <2>2. JobOK(t, k)
      BY <1>1, <1>3 DEF WriteProof, JobOK, Job, Running
    <2>3. [root |-> j.root, leaf |-> j.leaf] \in Dst!Proof
      <3>1. j.leaf = t /\ j.root = blockOf[t]
        BY <1>1, <1>3 DEF WriteProof, JobOK, Running
      <3>2. j.root \in Nat
        BY <1>1 DEF Job
      <3>3. QED  BY <3>1, <3>2 DEF Dst!Proof
    <2>4. proofFile' \in [Relayer -> ProofOrNone]
      BY <1>1, <1>3, <2>3 DEF WriteProof, ProofOrNone
    <2>5. QED  BY <1>3, <2>1, <2>2, <2>4, LocalStep DEF WriteProof, Goto
  <1>4. CASE ProveFail(r, t)
    BY <1>4, EndStep DEF ProveFail, Running, Outcome
  <1>5. QED  BY <1>2, <1>3, <1>4

(* UpdateRoot.                                                             *)
LEMMA RootSteps ==
    ASSUME IInv, NEW r \in Relayer, NEW t \in Tx,
           RootNonce(r, t) \/ RootSend(r, t) \/ RootMined(r, t) \/ RootFail(r, t)
    PROVE  IInv'
  <1> DEFINE j == jobs[r][t]
             k == [j EXCEPT !.pc = "mintNonce"]
             w == [j EXCEPT !.pc = "rootWait"]
  <1>1. j \in Job /\ JobOK(t, j) /\ proofFile \in [Relayer -> ProofOrNone]
    BY DEF IInv, TypeOK, RelayerTypeOK, JobsOK
  <1>2. CASE RootNonce(r, t)
    <2> DEFINE m == [j EXCEPT !.pc = "rootSend", !.nonce = PendingNonceAt(r)]
    <2>1. PendingNonceAt(r) \in Nat
      BY DEF PendingNonceAt, IInv, TypeOK, EthereumTypeOK
    <2>2. m \in Job
      BY <1>1, <2>1 DEF Job, Running
    <2>3. JobOK(t, m)
      BY <1>1, <1>2 DEF RootNonce, JobOK, Job, Running
    <2>4. QED  BY <1>1, <1>2, <2>2, <2>3, LocalStep DEF RootNonce
  <1>3. ASSUME j.pc \in {"rootNonce", "rootSend", "rootWait"}
        PROVE  k \in Job /\ JobOK(t, k) /\ w \in Job /\ JobOK(t, w)
    <2>1. k \in Job /\ w \in Job
      BY <1>1 DEF Job, Running
    <2>2. JobOK(t, k)
      BY <1>1, <1>3 DEF JobOK, Job, Running
    <2>3. JobOK(t, w)
      BY <1>1, <1>3 DEF JobOK, Job, Running
    <2>4. QED  BY <2>1, <2>2, <2>3
  <1>4. CASE RootSend(r, t)
    <2> DEFINE tx == RootTx(t, j.root)
    <2>1. tx \in EthTx /\ SentOK(tx)
      BY <1>1 DEF RootTx, EthTx, SentOK, ProofOrNone, Job
    <2>2. j.nonce \in Nat
      BY <1>1 DEF Job
    <2>3. k \in Job /\ JobOK(t, k) /\ w \in Job /\ JobOK(t, w)
      BY <1>3, <1>4 DEF RootSend
    <2>4. pool' \in [Relayer -> Seq(EthTx)] /\ PoolOK'
      <3>1. CASE Accepted(r, j.nonce, tx)
        <4>1. UNCHANGED <<blockOf, receipts>>
          BY <1>4 DEF RootSend, cosmosVars
        <4>2. QED  BY <2>1, <2>2, <3>1, <4>1, PoolChange DEF IInv
      <3>2. CASE Refused(r, j.nonce)
        BY <1>4, <3>2, PoolFrame DEF RootSend, Refused
      <3>3. QED  BY <1>4, <3>1, <3>2 DEF RootSend
    <2>5. jobs' \in [Relayer -> [Tx -> Job]] /\ JobsOK'
      BY <1>4, <2>3, JobChange DEF RootSend, Goto, IInv, TypeOK, RelayerTypeOK, cosmosVars
    <2>6. RelayerTypeOK' /\ InboxOK'
      BY <1>4, <2>5, InboxFrame DEF RootSend, IInv, TypeOK, RelayerTypeOK
    <2>7. QED  BY <1>4, <2>4, <2>5, <2>6, RelayerFrame DEF RootSend
  <1>5. CASE RootMined(r, t)
    <2>1. k \in Job /\ JobOK(t, k)
      BY <1>3, <1>5 DEF RootMined
    <2>2. QED  BY <1>1, <1>5, <2>1, LocalStep DEF RootMined, Goto
  <1>6. CASE RootFail(r, t)
    <2>1. k \in Job /\ JobOK(t, k)
      BY <1>3, <1>6 DEF RootFail
    <2>2. QED  BY <1>1, <1>6, <2>1, LocalStep DEF RootFail, Goto
  <1>7. QED  BY <1>2, <1>4, <1>5, <1>6

(* SubmitProof, and the panics that end the process.                       *)
LEMMA MintSteps ==
    ASSUME IInv, NEW r \in Relayer, NEW t \in Tx,
           \/ MintNonce(r, t) \/ MintRead(r, t) \/ MintPanic(r, t) \/ NoChainID(r, t)
           \/ MintSend(r, t)  \/ MintFail(r, t) \/ LookupPanic(r, t)
    PROVE  IInv'
  <1> DEFINE j == jobs[r][t]
  <1>1. j \in Job /\ JobOK(t, j) /\ proofFile \in [Relayer -> ProofOrNone]
    BY DEF IInv, TypeOK, RelayerTypeOK, JobsOK
  <1>2. CASE MintNonce(r, t)
    <2>1. PICK nonce \in {PendingNonceAt(r)} \cup (IF Faulty THEN {0} ELSE {}) :
             SetJob(r, t, [j EXCEPT !.pc = "mintRead", !.nonce = nonce])
      BY <1>2 DEF MintNonce
    <2> DEFINE m == [j EXCEPT !.pc = "mintRead", !.nonce = nonce]
    <2>2. nonce \in Nat
      BY DEF PendingNonceAt, IInv, TypeOK, EthereumTypeOK
    <2>3. m \in Job
      BY <1>1, <2>2 DEF Job, Running
    <2>4. JobOK(t, m)
      BY <1>1, <1>2 DEF MintNonce, JobOK, Job, Running
    <2>5. QED  BY <1>1, <1>2, <2>1, <2>3, <2>4, LocalStep DEF MintNonce
  <1>3. CASE MintRead(r, t)
    <2> DEFINE m == [j EXCEPT !.pc = "mintSend", !.proof = proofFile[r]]
    <2>1. m \in Job
      BY <1>1 DEF Job, Running
    <2>2. JobOK(t, m)
      BY <1>1, <1>3 DEF MintRead, JobOK, Job, Running
    <2>3. QED  BY <1>1, <1>3, <2>1, <2>2, LocalStep DEF MintRead
  <1>4. CASE MintPanic(r, t) \/ NoChainID(r, t) \/ LookupPanic(r, t)
    <2>1. UNCHANGED <<blockOf, receipts, pool, cosmosVars, mined, chainVars>>
      BY <1>4 DEF MintPanic, NoChainID, LookupPanic, cosmosVars, ethVars, chainVars
    <2>2. RelayerTypeOK' /\ JobsOK' /\ InboxOK'
      BY <1>4, <2>1, DieChange DEF MintPanic, NoChainID, LookupPanic, IInv, TypeOK, RelayerTypeOK
    <2>3. QED  BY <2>1, <2>2, PoolFrame, RelayerFrame
  <1>5. CASE MintSend(r, t)
    <2> DEFINE tx == MintTx(t, j)
    <2>1. /\ FirstLock(t, j.recipient, j.amount)
          /\ j.leaf = t
          /\ j.root = blockOf[t]
          /\ j.proof \in Dst!Proof
      BY <1>1, <1>5 DEF MintSend, JobOK, Running
    <2>2. /\ j.recipient \in Address
          /\ j.amount \in Nat
          /\ j.root \in Nat
          /\ j.nonce \in Nat
      BY <1>1 DEF Job
    <2>3. tx \in EthTx
      BY <2>1, <2>2 DEF MintTx, EthTx, ProofOrNone
    <2>4. SentOK(tx)
      BY <2>1 DEF MintTx, SentOK
    <2>5. pool' \in [Relayer -> Seq(EthTx)] /\ PoolOK'
      <3>1. CASE Accepted(r, j.nonce, tx)
        <4>1. UNCHANGED <<blockOf, receipts>>
          BY <1>5 DEF MintSend, cosmosVars
        <4>2. QED  BY <2>2, <2>3, <2>4, <3>1, <4>1, PoolChange DEF IInv
      <3>2. CASE Refused(r, j.nonce)
        BY <1>5, <3>2, PoolFrame DEF MintSend, Refused
      <3>3. QED  BY <1>5, <3>1, <3>2 DEF MintSend
    <2>6. jobs' \in [Relayer -> [Tx -> Job]] /\ JobsOK'
      <3>1. PICK outcome \in {"complete", "failed"} : SetJob(r, t, At(outcome))
        BY <1>5 DEF MintSend, End
      <3>2. At(outcome) \in Job
        BY AtType DEF Outcome
      <3>3. JobOK(t, At(outcome))
        BY <2>1, AtOK DEF FirstLock, Outcome
      <3>4. QED
        BY <1>5, <3>1, <3>2, <3>3, JobChange
        DEF MintSend, IInv, TypeOK, RelayerTypeOK, cosmosVars
    <2>7. RelayerTypeOK' /\ InboxOK'
      BY <1>5, <2>6, InboxFrame DEF MintSend, IInv, TypeOK, RelayerTypeOK
    <2>8. QED  BY <1>5, <2>5, <2>6, <2>7, RelayerFrame DEF MintSend
  <1>6. CASE MintFail(r, t)
    BY <1>6, EndStep DEF MintFail, Running, Outcome
  <1>7. QED  BY <1>2, <1>3, <1>4, <1>5, <1>6

(* main.                                                                   *)
LEMMA ProcessSteps ==
    ASSUME IInv, NEW r \in Relayer,
           Start(r) \/ ReadMessage(r) \/ Interrupt(r) \/ Exit(r)
    PROVE  IInv'
  <1>1. UNCHANGED <<cosmosVars, pool, mined, chainVars>>
    BY DEF Start, ReadMessage, Interrupt, Exit, ethVars, chainVars
  <1>2. CASE Start(r) \/ Interrupt(r)
    <2>1. RelayerTypeOK'
      <3> USE DEF IInv, TypeOK, RelayerTypeOK
      <3>1. CASE Start(r)
        <4>1. starts[r] + 1 \in Nat
          OBVIOUS
        <4>2. starts' \in [Relayer -> Nat] /\ proc' \in [Relayer -> {"down", "up", "stopping"}]
          BY <3>1, <4>1 DEF Start
        <4>3. QED  BY <3>1, <4>2 DEF Start
      <3>2. CASE Interrupt(r)
        BY <3>2 DEF Interrupt
      <3>3. QED  BY <1>2, <3>1, <3>2
    <2>2. JobsOK' /\ InboxOK'
      BY <1>1, <1>2, InboxFrame
      DEF Start, Interrupt, IInv, JobsOK, JobOK, FirstLock, cosmosVars
    <2>3. QED  BY <1>1, <2>1, <2>2, PoolFrame, RelayerFrame
  <1>3. CASE ReadMessage(r)
    <2> DEFINE t == Head(inbox[r])
    <2>1. inbox[r] \in Seq(Tx) /\ inbox[r] # <<>>
      BY <1>3 DEF ReadMessage, IInv, TypeOK, RelayerTypeOK
    <2>2. /\ t \in Tx
          /\ Tail(inbox[r]) \in Seq(Tx)
          /\ \A i \in DOMAIN Tail(inbox[r]) :
                /\ i + 1 \in DOMAIN inbox[r]
                /\ Tail(inbox[r])[i] = inbox[r][i + 1]
      BY <2>1, HeadTailProperties
    <2>3. blockOf[t] > 0
      BY <2>1 DEF IInv, InboxOK
    <2>4. At("fetch") \in Job /\ JobOK(t, At("fetch"))
      BY <2>2, <2>3, AtType, AtOK DEF Running
    <2>5. jobs' \in [Relayer -> [Tx -> Job]] /\ JobsOK'
      BY <1>1, <1>3, <2>2, <2>4, JobChange
      DEF ReadMessage, IInv, TypeOK, RelayerTypeOK, cosmosVars
    <2>6. inbox' \in [Relayer -> Seq(Tx)] /\ InboxOK'
      BY <1>1, <1>3, <2>2 DEF ReadMessage, IInv, TypeOK, RelayerTypeOK, InboxOK, cosmosVars
    <2>7. RelayerTypeOK'
      BY <1>3, <2>5, <2>6 DEF ReadMessage, IInv, TypeOK, RelayerTypeOK
    <2>8. QED  BY <1>1, <2>5, <2>6, <2>7, PoolFrame, RelayerFrame
  <1>4. CASE Exit(r)
    <2>1. RelayerTypeOK' /\ JobsOK' /\ InboxOK'
      BY <1>1, <1>4, DieChange DEF Exit, IInv, TypeOK, RelayerTypeOK, cosmosVars
    <2>2. QED  BY <1>1, <2>1, PoolFrame, RelayerFrame
  <1>5. QED  BY <1>2, <1>3, <1>4

-----------------------------------------------------------------------------
(* Ethereum.                                                               *)

(* A receipt is added and the pool loses its first transaction.            *)
LEMMA ReceiveChange ==
    ASSUME IInv, NEW r \in Relayer, pool[r] # <<>>, NEW ok \in BOOLEAN, Receive(r, ok),
           UNCHANGED cosmosVars
    PROVE  /\ pool' \in [Relayer -> Seq(EthTx)]
           /\ mined' \in [Relayer -> Seq(EthReceipt)]
           /\ PoolOK'
           /\ Head(pool[r]) \in EthTx
           /\ SentOK(Head(pool[r]))
  <1>1. /\ pool \in [Relayer -> Seq(EthTx)]
        /\ mined \in [Relayer -> Seq(EthReceipt)]
    BY DEF IInv, TypeOK, EthereumTypeOK
  <1>2. /\ Head(pool[r]) \in EthTx
        /\ Head(pool[r]) = pool[r][1]
        /\ 1 \in DOMAIN pool[r]
        /\ Tail(pool[r]) \in Seq(EthTx)
        /\ \A i \in DOMAIN Tail(pool[r]) : /\ i + 1 \in DOMAIN pool[r]
                                           /\ Tail(pool[r])[i] = pool[r][i + 1]
    BY <1>1, HeadTailProperties
  <1>3. SentOK(Head(pool[r]))
    BY <1>2 DEF IInv, PoolOK
  <1>4. pool' \in [Relayer -> Seq(EthTx)]
    BY <1>1, <1>2 DEF Receive
  <1>5. mined' \in [Relayer -> Seq(EthReceipt)]
    <2>1. [kind |-> Head(pool[r]).kind, job |-> Head(pool[r]).job, ok |-> ok] \in EthReceipt
      BY <1>2 DEF EthTx, EthReceipt
    <2>2. QED  BY <1>1, <2>1, AppendProperties DEF Receive
  <1>6. ASSUME NEW s \in Relayer, NEW i \in DOMAIN pool'[s]
        PROVE  SentOK(pool[s][i])'
    <2>1. SentOK(pool'[s][i])
      BY <1>1, <1>2 DEF Receive, IInv, PoolOK
    <2>2. QED  BY <2>1 DEF SentOK, FirstLock, cosmosVars
  <1>7. QED  BY <1>2, <1>3, <1>4, <1>5, <1>6 DEF PoolOK

(* What mining keeps, once the contract has been shown to be in order.     *)
LEMMA EthereumFrame ==
    ASSUME IInv, UNCHANGED <<cosmosVars, relayerVars>>,
           pool' \in [Relayer -> Seq(EthTx)], mined' \in [Relayer -> Seq(EthReceipt)], PoolOK',
           Dst!DestinationTypeOK', ProcessedOK', MintedOnce', Others # "any" => MintedAsLocked'
    PROVE  IInv'
  <1>1. CosmosTypeOK'
    BY DEF IInv, TypeOK, CosmosTypeOK, cosmosVars, Src!SourceTypeOK
  <1>2. RelayerTypeOK'
    BY DEF IInv, TypeOK, RelayerTypeOK, relayerVars
  <1>3. OpenOK' /\ InboxOK'
    BY DEF IInv, OpenOK, InboxOK, cosmosVars, relayerVars
  <1>4. JobsOK'
    BY DEF IInv, JobsOK, JobOK, FirstLock, cosmosVars, relayerVars
  <1>5. EthereumTypeOK'
    BY DEF EthereumTypeOK
  <1>6. QED  BY <1>1, <1>2, <1>3, <1>4, <1>5 DEF IInv, TypeOK

(* What a call of mint that goes through does, whoever makes it: it is for *)
(* a transaction that was not processed, and it adds one event.  It is the *)
(* first lock of that transaction as long as the callers are truthful.     *)
Minting(t, recipient, amount) ==
    /\ t \in Tx
    /\ t \notin processedTxs
    /\ recipient \in Address
    /\ amount \in Nat
    /\ Others # "any" => FirstLock(t, recipient, amount) /\ blockOf[t] = trustedBlockRoot
    /\ minted' = Append(minted, [recipient |-> recipient, amount |-> amount, txHash |-> t])
    /\ processedTxs' = processedTxs \cup {t}
    /\ balanceOf' = [balanceOf EXCEPT ![recipient] = balanceOf[recipient] + amount]
    /\ totalSupply' = totalSupply + amount
    /\ UNCHANGED <<trustedBlockRoot, cosmosVars>>

LEMMA MintEffect ==
    ASSUME IInv, NEW r \in Relayer, MineMint(r)
    PROVE  Minting(Head(pool[r]).leaf, Head(pool[r]).recipient, Head(pool[r]).amount)
  <1> DEFINE tx == Head(pool[r])
  <1>1. tx \in EthTx /\ SentOK(tx) /\ tx.kind = "mint"
    BY ReceiveChange DEF MineMint
  <1>2. tx.leaf \in Tx /\ FirstLock(tx.leaf, tx.recipient, tx.amount) /\ tx.root = blockOf[tx.leaf]
    BY <1>1 DEF SentOK
  <1>3. tx.recipient \in Address /\ tx.amount \in Nat
    BY <1>1 DEF EthTx
  <1>4. QED
    BY <1>2, <1>3 DEF MineMint, Dst!Mint, Dst!MintAccepted, Minting

LEMMA OthersMintEffect ==
    ASSUME OthersMint
    PROVE  \E t \in Tx, recipient \in Address, amount \in Nat : Minting(t, recipient, amount)
  <1>1. PICK t \in Tx, recipient \in Destination, amount \in Value :
           \E root \in {0, blockOf[t]} :
              /\ Others = "truthful" => root = blockOf[t] /\ FirstLock(t, recipient, amount)
              /\ Dst!Mint([root |-> root, leaf |-> t], root, t, recipient, amount)
    BY DEF OthersMint
  <1>2. PICK root \in {0, blockOf[t]} :
              /\ Others = "truthful" => root = blockOf[t] /\ FirstLock(t, recipient, amount)
              /\ Dst!Mint([root |-> root, leaf |-> t], root, t, recipient, amount)
    BY <1>1
  <1>3. recipient \in Address /\ amount \in Nat
    OBVIOUS
  <1>4. Others # "any" => Others = "truthful"
    BY DEF OthersMint
  <1>5. UNCHANGED cosmosVars
    BY DEF OthersMint
  <1>6. Minting(t, recipient, amount)
    BY <1>2, <1>3, <1>4, <1>5 DEF Dst!Mint, Dst!MintAccepted, Minting
  <1>7. QED  BY <1>3, <1>6

(* The contract is in order after any call of mint.                        *)
LEMMA MintKeeps ==
    ASSUME IInv, NEW t, NEW recipient, NEW amount, Minting(t, recipient, amount)
    PROVE  /\ Dst!DestinationTypeOK'
           /\ ProcessedOK'
           /\ MintedOnce'
           /\ Others # "any" => MintedAsLocked'
  <1> DEFINE e == [recipient |-> recipient, amount |-> amount, txHash |-> t]
  <1>1. /\ t \in Tx
        /\ t \notin processedTxs
        /\ e \in Dst!MintEvent
        /\ minted' = Append(minted, e)
        /\ processedTxs' = processedTxs \cup {t}
    BY DEF Minting, Dst!MintEvent
  <1>2. minted \in Seq(Dst!MintEvent)
    BY DEF IInv, TypeOK, EthereumTypeOK, Dst!DestinationTypeOK
  <1>3. /\ minted' \in Seq(Dst!MintEvent)
        /\ DOMAIN minted' = 1 .. Len(minted) + 1
        /\ \A i \in 1 .. Len(minted) : minted'[i] = minted[i]
        /\ minted'[Len(minted) + 1] = e
    BY <1>1, <1>2, AppendProperties
  <1>4. DOMAIN minted = 1 .. Len(minted) /\ Len(minted) \in Nat
    BY <1>2
  <1>5. Dst!DestinationTypeOK'
    <2>1. /\ trustedBlockRoot \in Nat
          /\ totalSupply \in Nat
          /\ balanceOf \in [Address -> Nat]
      BY DEF IInv, TypeOK, EthereumTypeOK, Dst!DestinationTypeOK
    <2>2. /\ trustedBlockRoot' = trustedBlockRoot
          /\ totalSupply' = totalSupply + amount
          /\ balanceOf' = [balanceOf EXCEPT ![recipient] = balanceOf[recipient] + amount]
          /\ recipient \in Address
          /\ amount \in Nat
      BY DEF Minting
    <2>3. balanceOf[recipient] + amount \in Nat
      BY <2>1, <2>2
    <2>4. balanceOf' \in [Address -> Nat]
      BY <2>1, <2>2, <2>3
    <2>5. processedTxs' \subseteq Tx
      BY <1>1 DEF IInv, TypeOK, EthereumTypeOK, Dst!DestinationTypeOK
    <2>6. QED  BY <1>3, <2>1, <2>2, <2>4, <2>5 DEF Dst!DestinationTypeOK
  <1>6. \A i \in DOMAIN minted : minted[i].txHash # t
    BY <1>1 DEF IInv, ProcessedOK
  <1>7. ProcessedOK'
    <2>1. {minted'[i].txHash : i \in DOMAIN minted'} = {minted[i].txHash : i \in DOMAIN minted} \cup {t}
      BY <1>3, <1>4
    <2>2. QED  BY <1>1, <2>1 DEF IInv, ProcessedOK
  <1>8. MintedOnce'
    BY <1>3, <1>4, <1>6 DEF IInv, MintedOnce
  <1>9. ASSUME Others # "any" PROVE MintedAsLocked'
    <2>1. FirstLock(t, recipient, amount) /\ UNCHANGED cosmosVars
      BY <1>9 DEF Minting
    <2>2. MintedAsLocked
      BY <1>9 DEF IInv
    <2>3. QED  BY <1>3, <1>4, <2>1, <2>2 DEF MintedAsLocked, FirstLock, cosmosVars
  <1>10. QED  BY <1>5, <1>7, <1>8, <1>9

LEMMA EthereumSteps ==
    ASSUME IInv, NEW r \in Relayer, EthereumNext(r)
    PROVE  IInv'
  <1>1. CASE MineRoot(r)
    <2>1. /\ pool' \in [Relayer -> Seq(EthTx)]
          /\ mined' \in [Relayer -> Seq(EthReceipt)]
          /\ PoolOK'
          /\ Head(pool[r]) \in EthTx
      BY <1>1, ReceiveChange DEF MineRoot
    <2>2. Dst!DestinationTypeOK'
      BY <1>1, <2>1
      DEF MineRoot, Dst!UpdateTrustedRoot, EthTx, IInv, TypeOK, EthereumTypeOK, Dst!DestinationTypeOK
    <2>3. ProcessedOK' /\ MintedOnce' /\ (Others # "any" => MintedAsLocked')
      BY <1>1 DEF MineRoot, Dst!UpdateTrustedRoot, IInv, ProcessedOK, MintedOnce, MintedAsLocked, cosmosVars
    <2>4. QED  BY <1>1, <2>1, <2>2, <2>3, EthereumFrame DEF MineRoot
  <1>2. CASE MineRevert(r)
    <2>1. /\ pool' \in [Relayer -> Seq(EthTx)]
          /\ mined' \in [Relayer -> Seq(EthReceipt)]
          /\ PoolOK'
      BY <1>2, ReceiveChange DEF MineRevert
    <2>2. Dst!DestinationTypeOK'
      BY <1>2 DEF MineRevert, chainVars, IInv, TypeOK, EthereumTypeOK, Dst!DestinationTypeOK
    <2>3. ProcessedOK' /\ MintedOnce' /\ (Others # "any" => MintedAsLocked')
      BY <1>2 DEF MineRevert, chainVars, IInv, ProcessedOK, MintedOnce, MintedAsLocked, cosmosVars
    <2>4. QED  BY <1>2, <2>1, <2>2, <2>3, EthereumFrame DEF MineRevert
  <1>3. CASE MineMint(r)
    <2>1. /\ pool' \in [Relayer -> Seq(EthTx)]
          /\ mined' \in [Relayer -> Seq(EthReceipt)]
          /\ PoolOK'
      BY <1>3, ReceiveChange DEF MineMint
    <2>2. /\ Dst!DestinationTypeOK'
          /\ ProcessedOK'
          /\ MintedOnce'
          /\ Others # "any" => MintedAsLocked'
      BY <1>3, MintEffect, MintKeeps
    <2>3. QED  BY <1>3, <2>1, <2>2, EthereumFrame DEF MineMint
  <1>4. QED  BY <1>1, <1>2, <1>3 DEF EthereumNext

(* Other accounts reach nothing but the contract, and undo no mint.        *)
LEMMA OthersFrame ==
    ASSUME OthersNext
    PROVE  /\ UNCHANGED <<cosmosVars, relayerVars, pool, mined>>
           /\ processedTxs \subseteq processedTxs'
  BY DEF OthersNext, OthersRoot, OthersMint, Dst!UpdateTrustedRoot, Dst!Mint

LEMMA OthersSteps ==
    ASSUME IInv, OthersNext
    PROVE  IInv'
  <1>1. UNCHANGED <<cosmosVars, relayerVars, pool, mined>>
    BY OthersFrame
  <1>2. pool' \in [Relayer -> Seq(EthTx)] /\ PoolOK'
    BY <1>1, PoolFrame
  <1>3. mined' \in [Relayer -> Seq(EthReceipt)]
    BY <1>1 DEF IInv, TypeOK, EthereumTypeOK
  <1>4. CASE OthersRoot
    <2>1. PICK root \in 0 .. height : Dst!UpdateTrustedRoot(root)
      BY <1>4 DEF OthersRoot
    <2>2. root \in Nat
      BY DEF IInv, TypeOK, CosmosTypeOK
    <2>3. Dst!DestinationTypeOK'
      BY <2>1, <2>2 DEF Dst!UpdateTrustedRoot, IInv, TypeOK, EthereumTypeOK, Dst!DestinationTypeOK
    <2>4. ProcessedOK' /\ MintedOnce' /\ (Others # "any" => MintedAsLocked')
      BY <1>1, <2>1
      DEF Dst!UpdateTrustedRoot, IInv, ProcessedOK, MintedOnce, MintedAsLocked, cosmosVars
    <2>5. QED  BY <1>1, <1>2, <1>3, <2>3, <2>4, EthereumFrame
  <1>5. CASE OthersMint
    <2>1. /\ Dst!DestinationTypeOK'
          /\ ProcessedOK'
          /\ MintedOnce'
          /\ Others # "any" => MintedAsLocked'
      BY <1>5, OthersMintEffect, MintKeeps
    <2>2. QED  BY <1>1, <1>2, <1>3, <2>1, EthereumFrame
  <1>6. QED  BY <1>4, <1>5 DEF OthersNext

-----------------------------------------------------------------------------
(* The theorems.                                                           *)

LEMMA InitIInv == Init => IInv
  <1> SUFFICES ASSUME Init PROVE IInv
    OBVIOUS
  <1>1. CosmosTypeOK
    BY DEF Init, Src!Init, CosmosTypeOK, Src!SourceTypeOK
  <1>2. RelayerTypeOK
    <2>1. At("idle") \in Job
      BY AtType
    <2>2. QED  BY <2>1 DEF Init, RelayerTypeOK, ProofOrNone
  <1>3. EthereumTypeOK
    BY DEF Init, Dst!Init, EthereumTypeOK, Dst!DestinationTypeOK
  <1>4. JobsOK
    BY DEF Init, JobsOK, JobOK, At, Running
  <1>5. OpenOK /\ InboxOK /\ PoolOK
    BY DEF Init, OpenOK, InboxOK, PoolOK
  <1>6. ProcessedOK /\ MintedOnce /\ MintedAsLocked
    BY DEF Init, Dst!Init, ProcessedOK, MintedOnce, MintedAsLocked
  <1>7. QED  BY <1>1, <1>2, <1>3, <1>4, <1>5, <1>6 DEF IInv, TypeOK

LEMMA StutterIInv == IInv /\ UNCHANGED vars => IInv'
  <1> SUFFICES ASSUME IInv, UNCHANGED vars PROVE IInv'
    OBVIOUS
  <1>1. UNCHANGED <<cosmosVars, relayerVars, pool, mined, chainVars>>
    BY DEF vars, ethVars, chainVars
  <1>2. pool' \in [Relayer -> Seq(EthTx)] /\ PoolOK'
    BY <1>1, PoolFrame
  <1>3. mined' \in [Relayer -> Seq(EthReceipt)] /\ Dst!DestinationTypeOK'
    BY <1>1 DEF IInv, TypeOK, EthereumTypeOK, Dst!DestinationTypeOK, chainVars
  <1>4. ProcessedOK' /\ MintedOnce' /\ (Others # "any" => MintedAsLocked')
    BY <1>1 DEF IInv, ProcessedOK, MintedOnce, MintedAsLocked, cosmosVars, chainVars
  <1>5. QED  BY <1>1, <1>2, <1>3, <1>4, EthereumFrame

LEMMA NextIInv == IInv /\ [Next]_vars => IInv'
  <1> SUFFICES ASSUME IInv, [Next]_vars PROVE IInv'
    OBVIOUS
  <1>1. CASE CosmosNext
    BY <1>1, CosmosStep
  <1>2. ASSUME NEW r \in Relayer, RelayerNext(r)
        PROVE  IInv'
    BY <1>2, FetchSteps, ProveSteps, RootSteps, MintSteps, ProcessSteps
    DEF RelayerNext, JobStep
  <1>3. ASSUME NEW r \in Relayer, EthereumNext(r)
        PROVE  IInv'
    BY <1>3, EthereumSteps
  <1>4. CASE UNCHANGED vars
    BY <1>4, StutterIInv
  <1>5. CASE OthersNext
    BY <1>5, OthersSteps
  <1>6. QED  BY <1>1, <1>2, <1>3, <1>4, <1>5 DEF Next

(* The inductive invariant holds in every reachable state.                 *)
THEOREM Invariance == Spec => []IInv
  BY InitIInv, NextIInv, PTL DEF Spec

(* Every variable always has its type.                                     *)
THEOREM TypeCorrect == Spec => []TypeOK
  <1>1. IInv => TypeOK
    BY DEF IInv
  <1>2. QED  BY <1>1, Invariance, PTL

(* No transaction is ever minted for twice: the replay protection of       *)
(* BridgeDestination, under any interleaving of any number of relayers and *)
(* whatever other accounts call it with.                                   *)
THEOREM NeverMintedTwice == Spec => []MintedOnce
  <1>1. IInv => MintedOnce
    BY DEF IInv
  <1>2. QED  BY <1>1, Invariance, PTL

(* What is minted is what was locked, although mint itself does not check  *)
(* it, and although goroutines overwrite each other's proof file: as long  *)
(* as other accounts, to which mint is open, mint only what was locked.    *)
THEOREM MintsWhatWasLocked ==
    ASSUME Others # "any"
    PROVE  Spec => []MintedAsLocked
  <1>1. IInv => MintedAsLocked
    BY DEF IInv
  <1>2. QED  BY <1>1, Invariance, PTL

-----------------------------------------------------------------------------
(* Steps that mint nothing leave the tokens alone.                         *)
LEMMA NoMint ==
    ASSUME [Next]_vars, ~OthersMint, \A r \in Relayer : ~MineMint(r)
    PROVE  UNCHANGED <<totalSupply, minted>>
  <1>1. CASE CosmosNext
    BY <1>1 DEF CosmosNext, DeliverTx, IndexTx, CallLock, CommitBlock, ethVars
  <1>2. ASSUME NEW r \in Relayer, NEW t \in Tx, JobStep(r, t)
        PROVE  UNCHANGED <<totalSupply, minted>>
    BY <1>2
    DEF JobStep, FetchTx, FetchMiss, LookupLock, LookupFail, Prove, WriteProof, ProveFail,
        RootNonce, RootSend, RootMined, RootFail, MintNonce, MintRead, MintPanic, NoChainID, MintSend,
        MintFail, LookupPanic, ethVars, chainVars
  <1>3. ASSUME NEW r \in Relayer, Start(r) \/ ReadMessage(r) \/ Interrupt(r) \/ Exit(r)
        PROVE  UNCHANGED <<totalSupply, minted>>
    BY <1>3 DEF Start, ReadMessage, Interrupt, Exit, ethVars
  <1>4. ASSUME NEW r \in Relayer, MineRoot(r) \/ MineRevert(r)
        PROVE  UNCHANGED <<totalSupply, minted>>
    BY <1>4 DEF MineRoot, MineRevert, Dst!UpdateTrustedRoot, chainVars
  <1>5. CASE UNCHANGED vars
    BY <1>5 DEF vars, ethVars
  <1>6. CASE OthersRoot
    BY <1>6 DEF OthersRoot, Dst!UpdateTrustedRoot
  <1>7. QED
    BY <1>1, <1>2, <1>3, <1>4, <1>5, <1>6 DEF Next, RelayerNext, EthereumNext, OthersNext

(* Neither relayers nor Ethereum change the Cosmos chain.                  *)
LEMMA CosmosAlone ==
    ASSUME NEW r \in Relayer, RelayerNext(r) \/ EthereumNext(r)
    PROVE  UNCHANGED cosmosVars
  <1>1. ASSUME NEW t \in Tx, JobStep(r, t)
        PROVE  UNCHANGED cosmosVars
    BY <1>1
    DEF JobStep, FetchTx, FetchMiss, LookupLock, LookupFail, Prove, WriteProof, ProveFail,
        RootNonce, RootSend, RootMined, RootFail, MintNonce, MintRead, MintPanic, NoChainID, MintSend,
        MintFail, LookupPanic
  <1>2. CASE Start(r) \/ ReadMessage(r) \/ Interrupt(r) \/ Exit(r)
    BY <1>2 DEF Start, ReadMessage, Interrupt, Exit
  <1>3. CASE EthereumNext(r)
    BY <1>3 DEF EthereumNext, MineRoot, MineMint, MineRevert
  <1>4. QED  BY <1>1, <1>2, <1>3 DEF RelayerNext

(* A step mints for one transaction, or mints nothing.                     *)
LEMMA MintsOrNot ==
    ASSUME IInv, [Next]_vars
    PROVE  \/ UNCHANGED <<totalSupply, minted>>
           \/ \E t \in Tx, recipient \in Address, amount \in Nat : Minting(t, recipient, amount)
  <1>1. ASSUME NEW r \in Relayer, MineMint(r)
        PROVE  \E t \in Tx, recipient \in Address, amount \in Nat : Minting(t, recipient, amount)
    <2>1. Minting(Head(pool[r]).leaf, Head(pool[r]).recipient, Head(pool[r]).amount)
      BY <1>1, MintEffect
    <2>2. /\ Head(pool[r]).leaf \in Tx
          /\ Head(pool[r]).recipient \in Address
          /\ Head(pool[r]).amount \in Nat
      BY <2>1 DEF Minting
    <2>3. QED  BY <2>1, <2>2
  <1>2. CASE OthersMint
    BY <1>2, OthersMintEffect
  <1>3. CASE ~OthersMint /\ \A r \in Relayer : ~MineMint(r)
    BY <1>3, NoMint
  <1>4. QED  BY <1>1, <1>2, <1>3

(* Supply grows only by the lock of one new transaction, and only while    *)
(* the trusted root is that of its block, as long as other accounts mint   *)
(* only what was locked.                                                   *)
THEOREM SupplyGrows ==
    ASSUME Others # "any"
    PROVE  Spec => SupplyGrowsByLock
  <1> DEFINE Good == totalSupply' # totalSupply =>
                        \E t \in Tx : /\ processedTxs' \ processedTxs = {t}
                                      /\ blockOf[t] = trustedBlockRoot
                                      /\ totalSupply' - totalSupply = receipts[t][1].amount
  <1>1. IInv /\ [Next]_vars => [Good]_vars
    <2> SUFFICES ASSUME IInv, [Next]_vars PROVE Good
      OBVIOUS
    <2>1. ASSUME NEW t \in Tx, NEW recipient \in Address, NEW amount \in Nat,
                 Minting(t, recipient, amount)
          PROVE  Good
      <3>1. /\ t \notin processedTxs
            /\ FirstLock(t, recipient, amount)
            /\ blockOf[t] = trustedBlockRoot
            /\ processedTxs' = processedTxs \cup {t}
            /\ totalSupply' = totalSupply + amount
        BY <2>1 DEF Minting
      <3>2. totalSupply \in Nat
        BY DEF IInv, TypeOK, EthereumTypeOK, Dst!DestinationTypeOK
      <3>3. processedTxs' \ processedTxs = {t}
        BY <3>1
      <3>4. totalSupply' - totalSupply = amount
        BY <3>1, <3>2
      <3>5. receipts[t][1].amount = amount
        BY <3>1 DEF FirstLock
      <3>6. QED  BY <3>1, <3>3, <3>4, <3>5
    <2>2. QED  BY <2>1, MintsOrNot
  <1>2. QED  BY <1>1, Invariance, PTL DEF Spec, SupplyGrowsByLock

-----------------------------------------------------------------------------
(* The supply of wrapped tokens.  What was minted is the sum of the first  *)
(* locks of the processed transactions, and the contract holds at least    *)
(* the sum of the first locks of any transactions.                         *)

FirstAmount == [t \in Tx |-> IF receipts[t] = <<>> THEN 0 ELSE receipts[t][1].amount]

BackedInv ==
    /\ IsFiniteSet(processedTxs)
    /\ totalSupply = SumFunctionOnSet(FirstAmount, processedTxs)
    /\ \A T \in SUBSET Tx : IsFiniteSet(T) => SumFunctionOnSet(FirstAmount, T) <= balance

LEMMA FirstAmountType ==
    ASSUME TypeOK, NEW t \in Tx
    PROVE  FirstAmount[t] \in Nat
  <1>1. receipts[t] \in Seq(Src!LockDetails)
    BY DEF TypeOK, CosmosTypeOK
  <1>2. receipts[t] # <<>> => receipts[t][1] \in Src!LockDetails
    BY <1>1
  <1>3. QED  BY <1>2 DEF FirstAmount, Src!LockDetails

\* Whoever was minted for is in a block.
LEMMA ProcessedInBlock ==
    ASSUME Others # "any", IInv, NEW t \in processedTxs
    PROVE  t \in Tx /\ blockOf[t] > 0
  BY DEF IInv, ProcessedOK, MintedAsLocked, TypeOK, EthereumTypeOK, Dst!DestinationTypeOK

(* A lock adds its value to the balance, and at most that to any sum: and  *)
(* nothing to the sum of those that were minted for.                       *)
LEMMA LockBacked ==
    ASSUME Others # "any", IInv, IInv', BackedInv, NEW a \in Destination, NEW v \in Value, CallLock(a, v)
    PROVE  BackedInv'
  <1> DEFINE t == openBlock[Len(openBlock)]
             f == FirstAmount
             e == FirstAmount'
  <1>1. t \in Tx /\ blockOf[t] = 0
    BY DEF CallLock, IInv, TypeOK, CosmosTypeOK, OpenOK
  <1>2. v \in Nat /\ balance \in Nat /\ balance' = balance + v
    BY DEF CallLock, Src!Lock, IInv, TypeOK, CosmosTypeOK, Src!SourceTypeOK
  <1>3. \A u \in Tx : f[u] \in Int /\ e[u] \in Int
    <2>1. \A u \in Tx : f[u] \in Nat
      BY FirstAmountType DEF IInv
    <2>2. \A u \in Tx : e[u] \in Nat
      <3>1. TypeOK'
        BY DEF IInv
      <3>2. \A u \in Tx : FirstAmount'[u] \in Nat
        <4> SUFFICES ASSUME NEW u \in Tx PROVE FirstAmount'[u] \in Nat
          OBVIOUS
        <4>1. receipts'[u] \in Seq(Src!LockDetails)
          BY <3>1 DEF TypeOK, CosmosTypeOK
        <4>2. receipts'[u] # <<>> => receipts'[u][1] \in Src!LockDetails
          BY <4>1
        <4>3. QED  BY <4>2 DEF FirstAmount, Src!LockDetails
      <3>3. QED  BY <3>2
    <2>3. QED  BY <2>1, <2>2
  <1>4. \A u \in Tx : u # t => e[u] = f[u]
    BY DEF CallLock, FirstAmount, IInv, TypeOK, CosmosTypeOK
  <1>5. e[t] <= f[t] + v
    <2>1. receipts[t] \in Seq(Src!LockDetails) /\ receipts'[t] = Append(receipts[t], Src!LockRecord(a, v))
      BY <1>1 DEF CallLock, IInv, TypeOK, CosmosTypeOK
    <2>2. CASE receipts[t] = <<>>
      <3>1. receipts'[t] # <<>> /\ receipts'[t][1].amount = v
        BY <2>1, <2>2 DEF Src!LockRecord
      <3>2. f[t] = 0 /\ e[t] = v
        BY <3>1, <2>2, <1>1 DEF FirstAmount
      <3>3. QED  BY <3>2, <1>2
    <2>3. CASE receipts[t] # <<>>
      <3>1. Src!LockRecord(a, v) \in Src!LockDetails
        BY <1>2 DEF Src!LockRecord, Src!LockDetails, IInv, TypeOK, CosmosTypeOK, Src!SourceTypeOK
      <3>2. receipts'[t] # <<>> /\ receipts'[t][1] = receipts[t][1]
        BY <2>1, <2>3, <3>1
      <3>3. e[t] = f[t]
        BY <2>3, <3>2, <1>1 DEF FirstAmount
      <3>4. QED  BY <3>3, <1>1, <1>2, <1>3
    <2>4. QED  BY <2>2, <2>3
  <1>6. UNCHANGED <<processedTxs, totalSupply>>
    BY DEF CallLock, ethVars
  <1>7. totalSupply' = SumFunctionOnSet(e, processedTxs)
    <2>1. \A u \in processedTxs : f[u] \in Int /\ f[u] = e[u]
      BY <1>1, <1>3, <1>4, ProcessedInBlock
    <2>2. IsFiniteSet(processedTxs) /\ totalSupply = SumFunctionOnSet(f, processedTxs)
      BY DEF BackedInv
    <2> HIDE DEF f, e
    <2>3. QED  BY <2>1, <2>2, <1>6, SumSame
  <1>8. ASSUME NEW T \in SUBSET Tx, IsFiniteSet(T)
        PROVE  SumFunctionOnSet(e, T) <= balance'
    <2>1. SumFunctionOnSet(f, T) <= balance
      BY <1>8 DEF BackedInv
    <2> HIDE DEF f, e
    <2>2. SumFunctionOnSet(f, T) \in Int /\ SumFunctionOnSet(e, T) \in Int
      BY <1>3, <1>8, SumInt
    <2>3. CASE t \in T
      <3> HIDE DEF t
      <3>1. /\ \A u \in T : f[u] \in Int
            /\ \A u \in T : e[u] \in Int
            /\ \A u \in T \ {t} : f[u] = e[u]
        BY <1>3, <1>4
      <3>2. SumFunctionOnSet(e, T) = SumFunctionOnSet(f, T) + e[t] - f[t]
        <4>1. IsFiniteSet(T) /\ t \in T
          BY <1>8, <2>3
        <4>2. QED  BY <3>1, <4>1, SumChange
      <3>3. QED  BY <3>2, <2>1, <2>2, <1>1, <1>2, <1>3, <1>5
    <2>4. CASE t \notin T
      <3>1. SumFunctionOnSet(f, T) = SumFunctionOnSet(e, T)
        BY <1>3, <1>4, <1>8, <2>4, SumSame
      <3>2. QED  BY <3>1, <2>1, <2>2, <1>2
    <2>5. QED  BY <2>3, <2>4
  <1>9. IsFiniteSet(processedTxs')
    BY <1>6 DEF BackedInv
  <1>10. QED  BY <1>6, <1>7, <1>8, <1>9 DEF BackedInv

(* A mint moves one transaction's first lock into the sum.                 *)
LEMMA MintBacked ==
    ASSUME Others # "any", IInv, BackedInv,
           NEW t \in Tx, NEW recipient \in Address, NEW amount \in Nat, Minting(t, recipient, amount)
    PROVE  BackedInv'
  <1> DEFINE f == FirstAmount
  <1>1. /\ t \notin processedTxs
        /\ FirstLock(t, recipient, amount)
        /\ processedTxs' = processedTxs \cup {t}
        /\ totalSupply' = totalSupply + amount
        /\ UNCHANGED cosmosVars
    BY DEF Minting
  <1>2. f[t] = amount
    BY <1>1 DEF FirstLock, FirstAmount
  <1>3. processedTxs \subseteq Tx /\ IsFiniteSet(processedTxs)
    BY DEF BackedInv, IInv, TypeOK, EthereumTypeOK, Dst!DestinationTypeOK
  <1>4. \A u \in Tx : f[u] \in Int
    BY FirstAmountType DEF IInv
  <1>5. UNCHANGED <<FirstAmount, balance>>
    BY <1>1 DEF FirstAmount, cosmosVars
  <1>6. totalSupply = SumFunctionOnSet(f, processedTxs)
    BY DEF BackedInv
  <1> HIDE DEF f
  <1>7. IsFiniteSet(processedTxs')
    BY <1>1, <1>3, FS_AddElement
  <1>8. SumFunctionOnSet(f, processedTxs) \in Int
    BY <1>3, <1>4, SumInt
  <1>9. SumFunctionOnSet(f, processedTxs') = f[t] + SumFunctionOnSet(f, processedTxs)
    <2>1. \A u \in processedTxs \cup {t} : f[u] \in Int
      BY <1>1, <1>3, <1>4
    <2>2. QED  BY <1>1, <1>3, <2>1, SumAdd
  <1>10. totalSupply' = SumFunctionOnSet(f, processedTxs')
    BY <1>1, <1>2, <1>4, <1>6, <1>8, <1>9
  <1>11. QED  BY <1>5, <1>7, <1>10 DEF BackedInv, f

LEMMA BackedStep ==
    ASSUME Others # "any", IInv, IInv', BackedInv, [Next]_vars
    PROVE  BackedInv'
  <1>1. ASSUME UNCHANGED <<receipts, balance, processedTxs, totalSupply>>
        PROVE  BackedInv'
    BY <1>1 DEF BackedInv, FirstAmount
  <1>2. ASSUME OthersMint \/ \E r \in Relayer : MineMint(r) PROVE BackedInv'
    <2>1. PICK t \in Tx, recipient \in Address, amount \in Nat : Minting(t, recipient, amount)
      <3>1. CASE OthersMint
        BY <3>1, OthersMintEffect
      <3>2. ASSUME NEW r \in Relayer, MineMint(r)
            PROVE  \E t \in Tx, recipient \in Address, amount \in Nat : Minting(t, recipient, amount)
        <4>1. Minting(Head(pool[r]).leaf, Head(pool[r]).recipient, Head(pool[r]).amount)
          BY <3>2, MintEffect
        <4>2. QED  BY <4>1 DEF Minting
      <3>3. QED  BY <1>2, <3>1, <3>2
    <2>2. QED  BY <2>1, MintBacked
  <1>3. ASSUME NEW a \in Destination, NEW v \in Value, CallLock(a, v) PROVE BackedInv'
    BY <1>3, LockBacked
  <1>4. CASE CosmosNext
    <2>1. ASSUME NEW t \in Tx, DeliverTx(t) \/ IndexTx(t) PROVE BackedInv'
      BY <2>1, <1>1 DEF DeliverTx, IndexTx, ethVars
    <2>2. CASE CommitBlock
      BY <2>2, <1>1 DEF CommitBlock, ethVars
    <2>3. QED  BY <1>3, <1>4, <2>1, <2>2 DEF CosmosNext
  <1>5. ASSUME NEW r \in Relayer, RelayerNext(r) PROVE BackedInv'
    <2>1. UNCHANGED cosmosVars
      BY <1>5, CosmosAlone
    <2>2. UNCHANGED <<processedTxs, totalSupply>>
      BY <1>5
      DEF RelayerNext, Start, ReadMessage, Interrupt, Exit, JobStep, FetchTx, FetchMiss, LookupLock,
          LookupFail, Prove, WriteProof, ProveFail, RootNonce, RootSend, RootMined, RootFail, MintNonce,
          MintRead, MintPanic, NoChainID, MintSend, MintFail, LookupPanic, ethVars, chainVars
    <2>3. QED  BY <2>1, <2>2, <1>1 DEF cosmosVars
  <1>6. ASSUME NEW r \in Relayer, MineRoot(r) \/ MineRevert(r) PROVE BackedInv'
    BY <1>6, <1>1 DEF MineRoot, MineRevert, Dst!UpdateTrustedRoot, chainVars, cosmosVars
  <1>7. CASE UNCHANGED vars
    BY <1>7, <1>1 DEF vars, cosmosVars, ethVars
  <1>8. CASE OthersRoot
    BY <1>8, <1>1 DEF OthersRoot, Dst!UpdateTrustedRoot, cosmosVars
  <1>9. QED  BY <1>2, <1>4, <1>5, <1>6, <1>7, <1>8 DEF Next, EthereumNext, OthersNext

(* Every wrapped token is backed by a coin the contract holds, whatever    *)
(* was locked twice, minted for the first lock only, or not minted at all, *)
(* as long as other accounts mint only what was locked.                    *)
THEOREM AlwaysBacked ==
    ASSUME Others # "any"
    PROVE  Spec => []SupplyBacked
  <1>1. Init => BackedInv
    <2> SUFFICES ASSUME Init PROVE BackedInv
      OBVIOUS
    <2>1. processedTxs = {} /\ totalSupply = 0 /\ balance = 0
      BY DEF Init, Src!Init, Dst!Init
    <2>2. FirstAmount = [t \in Tx |-> 0]
      BY DEF Init, FirstAmount
    <2>3. ASSUME NEW T \in SUBSET Tx, IsFiniteSet(T)
          PROVE  SumFunctionOnSet(FirstAmount, T) <= balance
      <3>1. \A u \in T : FirstAmount[u] = 0
        BY <2>2
      <3>2. SumFunctionOnSet(FirstAmount, T) = 0
        BY <2>3, <3>1, SumZero
      <3>3. QED  BY <3>2, <2>1
    <2>4. QED  BY <2>1, <2>3, SumEmpty, FS_EmptySet DEF BackedInv
  <1>2. IInv /\ BackedInv => SupplyBacked
    <2> SUFFICES ASSUME IInv, BackedInv PROVE SupplyBacked
      OBVIOUS
    <2>1. processedTxs \in SUBSET Tx
      BY DEF IInv, TypeOK, EthereumTypeOK, Dst!DestinationTypeOK
    <2>2. QED  BY <2>1 DEF BackedInv, SupplyBacked
  <1>3. IInv /\ IInv' /\ BackedInv /\ [Next]_vars => BackedInv'
    BY BackedStep
  <1>4. QED  BY <1>1, <1>2, <1>3, Invariance, PTL DEF Spec

-----------------------------------------------------------------------------
(* The ledger.                                                             *)

Claims == {ClaimOf(t) : t \in {u \in Tx : blockOf[u] > 0 /\ receipts[u] # <<>>}}
Paid == {minted[i] : i \in DOMAIN minted}

LEMMA LedgerInit == Init => Ledger!Init
  BY DEF Init, Dst!Init, Ledger!Init

(* A Cosmos step only adds claims.                                         *)
LEMMA LedgerCommit ==
    ASSUME IInv, IInv', CosmosNext
    PROVE  Ledger!Commit
  <1>1. Keep
    BY Stable DEF IInv
  <1>2. UNCHANGED <<minted, totalSupply>>
    BY DEF CosmosNext, DeliverTx, IndexTx, CallLock, CommitBlock, ethVars
  <1>3. Claims \subseteq Claims'
    BY <1>1 DEF Keep, Claims, ClaimOf, IInv, TypeOK, CosmosTypeOK
  <1>4. Claims' \subseteq [recipient : Address, amount : Nat, txHash : Tx]
    <2> SUFFICES ASSUME NEW t \in Tx, blockOf'[t] > 0, receipts'[t] # <<>>
                 PROVE  ClaimOf(t)' \in [recipient : Address, amount : Nat, txHash : Tx]
      BY DEF Claims
    <2>1. receipts'[t][1] \in Src!LockDetails
      BY DEF IInv, TypeOK, CosmosTypeOK
    <2>2. QED  BY <2>1 DEF ClaimOf, Src!LockDetails
  <1>5. \A c, d \in Claims' : c.txHash = d.txHash => c = d
    BY DEF Claims, ClaimOf
  <1>6. QED
    BY <1>2, <1>3, <1>4, <1>5
    DEF Claims, Ledger!Commit, Ledger!Claim, Ledger!OneClaimPerTx

(* A mint pays a claim that was not paid.                                  *)
LEMMA LedgerPay ==
    ASSUME Others # "any", IInv,
           NEW t \in Tx, NEW recipient \in Address, NEW amount \in Nat, Minting(t, recipient, amount)
    PROVE  Ledger!Pay
  <1> DEFINE e == [recipient |-> recipient, amount |-> amount, txHash |-> t]
  <1>1. /\ t \notin processedTxs
        /\ FirstLock(t, recipient, amount)
        /\ e \in Dst!MintEvent
        /\ minted' = Append(minted, e)
        /\ totalSupply' = totalSupply + amount
        /\ UNCHANGED cosmosVars
    BY DEF Minting, Dst!MintEvent
  <1>2. minted \in Seq(Dst!MintEvent)
    BY DEF IInv, TypeOK, EthereumTypeOK, Dst!DestinationTypeOK
  <1>3. e \in Claims
    BY <1>1 DEF Claims, ClaimOf, FirstLock
  <1>4. e \notin Paid
    BY <1>1 DEF Paid, IInv, ProcessedOK
  <1>5. Paid' = Paid \cup {e}
    BY <1>1, <1>2, AppendProperties DEF Paid
  <1>6. Claims' = Claims
    BY <1>1 DEF Claims, ClaimOf, cosmosVars
  <1>7. totalSupply' = totalSupply + e.amount
    BY <1>1
  <1>8. QED  BY <1>3, <1>4, <1>5, <1>6, <1>7 DEF Claims, Paid, Ledger!Pay

LEMMA LedgerStep ==
    ASSUME Others # "any", IInv, IInv', [Next]_vars
    PROVE  [Ledger!Next]_(Ledger!ledgerVars)
  <1> SUFFICES Ledger!Commit \/ Ledger!Pay \/ UNCHANGED Ledger!ledgerVars
    BY DEF Ledger!Next
  <1>1. CASE CosmosNext
    BY <1>1, LedgerCommit
  <1>2. ASSUME NEW t \in Tx, NEW recipient \in Address, NEW amount \in Nat,
               Minting(t, recipient, amount)
        PROVE  Ledger!Pay
    BY <1>2, LedgerPay
  <1>3. CASE ~CosmosNext /\ UNCHANGED <<totalSupply, minted>>
    <2>1. UNCHANGED cosmosVars
      BY <1>3, CosmosAlone, OthersFrame DEF Next, vars
    <2>2. QED  BY <1>3, <2>1 DEF Ledger!ledgerVars, ClaimOf, cosmosVars
  <1>4. QED  BY <1>1, <1>2, <1>3, MintsOrNot

(* The bridge implements the ledger: whatever relayers do, crash in the    *)
(* middle of, or do twice, claims are paid at most once and in full, as    *)
(* long as the accounts that are not relayers' mint only what was locked.  *)
THEOREM ImplementsLedger ==
    ASSUME Others # "any"
    PROVE  Spec => KeepsLedger
  <1>1. IInv /\ IInv' /\ [Next]_vars => [Ledger!Next]_(Ledger!ledgerVars)
    BY LedgerStep
  <1>2. QED  BY <1>1, LedgerInit, Invariance, PTL DEF Spec, KeepsLedger, Ledger!Spec

-----------------------------------------------------------------------------
(* What a goroutine relies on having sent, as long as the pool replaces    *)
(* nothing.                                                                *)

\* Goroutine t's transaction is pending or mined.
IsSent(r, t, kind) ==
    \/ \E i \in DOMAIN pool[r] : pool[r][i].kind = kind /\ pool[r][i].job = t
    \/ \E i \in DOMAIN mined[r] : mined[r][i].kind = kind /\ mined[r][i].job = t

\* Whoever waits for its root update to be mined has sent it.
WaitsForSent == \A r \in Relayer, t \in Tx : jobs[r][t].pc = "rootWait" => IsSent(r, t, "root")

LEMMA SendTypes ==
    ASSUME TypeOK, NEW r \in Relayer, NEW t \in Tx
    PROVE  /\ jobs[r][t] \in Job /\ jobs[r][t].nonce \in Nat
           /\ RootTx(t, jobs[r][t].root) \in EthTx
           /\ jobs[r][t].pc = "mintSend" => MintTx(t, jobs[r][t]) \in EthTx
  <1>1. jobs[r][t] \in Job
    BY DEF TypeOK, RelayerTypeOK
  <1>2. QED  BY <1>1 DEF Job, RootTx, MintTx, EthTx, ProofOrNone

(* Taking one more transaction loses none.                                 *)
LEMMA AcceptedKeeps ==
    ASSUME TypeOK, ~Repricing, NEW s \in Relayer, NEW nonce \in Nat, NEW tx \in EthTx,
           Accepted(s, nonce, tx), UNCHANGED mined
    PROVE  /\ \A r \in Relayer, t \in Tx, kind \in {"root", "mint"} :
                 IsSent(r, t, kind) => IsSent(r, t, kind)'
           /\ IsSent(s, tx.job, tx.kind)'
  <1>1. /\ pool \in [Relayer -> Seq(EthTx)] /\ pool[s] \in Seq(EthTx)
        /\ pool' = [pool EXCEPT ![s] = Append(@, tx)]
    BY DEF TypeOK, EthereumTypeOK, Accepted
  <1>2. /\ pool'[s] = Append(pool[s], tx)
        /\ \A r \in Relayer : r # s => pool'[r] = pool[r]
    BY <1>1
  <1>3. /\ \A i \in DOMAIN pool[s] : i \in DOMAIN pool'[s] /\ pool'[s][i] = pool[s][i]
        /\ Len(pool[s]) + 1 \in DOMAIN pool'[s] /\ pool'[s][Len(pool[s]) + 1] = tx
    BY <1>1, <1>2, AppendProperties
  <1>4. ASSUME NEW r \in Relayer, NEW t \in Tx, NEW kind, IsSent(r, t, kind)
        PROVE  IsSent(r, t, kind)'
    <2>1. CASE r = s
      BY <2>1, <1>3, <1>4 DEF IsSent
    <2>2. CASE r # s
      BY <2>2, <1>2, <1>4 DEF IsSent
    <2>3. QED  BY <2>1, <2>2
  <1>5. IsSent(s, tx.job, tx.kind)'
    BY <1>3 DEF IsSent
  <1>6. QED  BY <1>4, <1>5

(* Nor does mining one.                                                    *)
LEMMA ReceiveKeeps ==
    ASSUME TypeOK, NEW s \in Relayer, NEW ok \in BOOLEAN, pool[s] # <<>>, Receive(s, ok),
           NEW r \in Relayer, NEW t \in Tx, NEW kind, IsSent(r, t, kind)
    PROVE  IsSent(r, t, kind)'
  <1> DEFINE e == [kind |-> Head(pool[s]).kind, job |-> Head(pool[s]).job, ok |-> ok]
  <1>1. /\ pool \in [Relayer -> Seq(EthTx)] /\ pool[s] \in Seq(EthTx)
        /\ mined \in [Relayer -> Seq(EthReceipt)] /\ mined[s] \in Seq(EthReceipt)
        /\ pool' = [pool EXCEPT ![s] = Tail(@)]
        /\ mined' = [mined EXCEPT ![s] = Append(@, e)]
    BY DEF TypeOK, EthereumTypeOK, Receive
  <1>2. CASE r # s
    BY <1>1, <1>2 DEF IsSent
  <1>3. CASE r = s
    <2>1. e \in EthReceipt
      <3>1. Head(pool[s]) \in EthTx
        BY <1>1, HeadTailProperties
      <3>2. QED  BY <3>1 DEF EthTx, EthReceipt
    <2>2. /\ pool'[s] = Tail(pool[s]) /\ mined'[s] = Append(mined[s], e)
      BY <1>1
    <2>3. /\ \A i \in DOMAIN mined[s] : i \in DOMAIN mined'[s] /\ mined'[s][i] = mined[s][i]
          /\ Len(mined[s]) + 1 \in DOMAIN mined'[s] /\ mined'[s][Len(mined[s]) + 1] = e
      BY <1>1, <2>1, <2>2, AppendProperties
    <2>4. CASE \E i \in DOMAIN mined[s] : mined[s][i].kind = kind /\ mined[s][i].job = t
      BY <2>3, <2>4, <1>3 DEF IsSent
    <2>5. ASSUME NEW i \in DOMAIN pool[s], pool[s][i].kind = kind, pool[s][i].job = t
          PROVE  IsSent(r, t, kind)'
      <3>1. CASE i = 1
        <4>1. e.kind = kind /\ e.job = t
          BY <3>1, <2>5, <1>1
        <4>2. QED  BY <4>1, <2>3, <1>3 DEF IsSent
      <3>2. CASE i # 1
        <4>1. i - 1 \in DOMAIN Tail(pool[s]) /\ Tail(pool[s])[i - 1] = pool[s][i]
          BY <3>2, <2>5, <1>1, HeadTailProperties
        <4>2. QED  BY <4>1, <2>2, <2>5, <1>3 DEF IsSent
      <3>3. QED  BY <3>1, <3>2
    <2>6. QED  BY <2>4, <2>5, <1>3 DEF IsSent
  <1>4. QED  BY <1>2, <1>3

(* No step loses a transaction that was sent.                              *)
LEMMA SentStays ==
    ASSUME IInv, ~Repricing, [Next]_vars,
           NEW r \in Relayer, NEW t \in Tx, NEW kind \in {"root", "mint"}, IsSent(r, t, kind)
    PROVE  IsSent(r, t, kind)'
  <1>1. CASE UNCHANGED <<pool, mined>>
    BY <1>1 DEF IsSent
  <1>2. ASSUME NEW s \in Relayer, EthereumNext(s)
        PROVE  IsSent(r, t, kind)'
    BY <1>2, ReceiveKeeps DEF EthereumNext, MineRoot, MineMint, MineRevert, IInv
  <1>3. ASSUME NEW s \in Relayer, NEW u \in Tx, RootSend(s, u)
        PROVE  IsSent(r, t, kind)'
    <2>1. jobs[s][u] \in Job /\ jobs[s][u].nonce \in Nat /\ RootTx(u, jobs[s][u].root) \in EthTx
      BY SendTypes DEF IInv
    <2>2. CASE UNCHANGED pool
      BY <2>2, <1>1, <1>3 DEF RootSend
    <2>3. CASE Accepted(s, jobs[s][u].nonce, RootTx(u, jobs[s][u].root))
      BY <2>1, <2>3, <1>3, AcceptedKeeps DEF IInv, RootSend
    <2>4. QED  BY <2>2, <2>3, <1>3 DEF RootSend, Refused
  <1>4. ASSUME NEW s \in Relayer, NEW u \in Tx, MintSend(s, u)
        PROVE  IsSent(r, t, kind)'
    <2>1. jobs[s][u] \in Job /\ jobs[s][u].nonce \in Nat /\ MintTx(u, jobs[s][u]) \in EthTx
      BY <1>4, SendTypes DEF IInv, MintSend
    <2>2. CASE UNCHANGED pool
      BY <2>2, <1>1, <1>4 DEF MintSend
    <2>3. CASE Accepted(s, jobs[s][u].nonce, MintTx(u, jobs[s][u]))
      BY <2>1, <2>3, <1>4, AcceptedKeeps DEF IInv, MintSend
    <2>4. QED  BY <2>2, <2>3, <1>4 DEF MintSend, Refused
  <1>5. CASE CosmosNext
    BY <1>5, <1>1 DEF CosmosNext, DeliverTx, IndexTx, CallLock, CommitBlock, ethVars
  <1>6. ASSUME NEW s \in Relayer, RelayerNext(s), \A u \in Tx : ~RootSend(s, u) /\ ~MintSend(s, u)
        PROVE  IsSent(r, t, kind)'
    BY <1>6, <1>1 DEF RelayerNext, Start, ReadMessage, Interrupt, Exit, JobStep, FetchTx, FetchMiss,
       LookupLock, LookupFail, LookupPanic, Prove, WriteProof, ProveFail, RootNonce, RootMined, RootFail,
       MintNonce, MintRead, MintPanic, NoChainID, MintFail, ethVars
  <1>7. CASE UNCHANGED vars
    BY <1>7, <1>1 DEF vars, ethVars
  <1>8. CASE OthersNext
    BY <1>8, <1>1, OthersFrame
  <1>9. QED  BY <1>2, <1>3, <1>4, <1>5, <1>6, <1>7, <1>8 DEF Next

SubmittedInv == WaitsForSent /\ CompleteIsSubmitted

LEMMA SubmittedStep ==
    ASSUME IInv, ~Repricing, [Next]_vars, SubmittedInv
    PROVE  SubmittedInv'
  <1> DEFINE Due(r, t) == /\ jobs[r][t].pc = "rootWait" => IsSent(r, t, "root")
                          /\ jobs[r][t].pc = "complete" => IsSent(r, t, "mint")
  <1>1. ASSUME NEW r \in Relayer, NEW t \in Tx PROVE Due(r, t)
    BY DEF SubmittedInv, WaitsForSent, CompleteIsSubmitted, IsSent
  <1>2. \A r \in Relayer, t \in Tx, kind \in {"root", "mint"} :
            IsSent(r, t, kind) => IsSent(r, t, kind)'
    BY SentStays
  <1>3. jobs \in [Relayer -> [Tx -> Job]]
    BY DEF IInv, TypeOK, RelayerTypeOK
  <1>4. ASSUME NEW r \in Relayer, NEW t \in Tx,
               jobs'[r][t].pc \in {"rootWait", "complete"} => jobs'[r][t].pc = jobs[r][t].pc
        PROVE  Due(r, t)'
    BY <1>1, <1>2, <1>4
  <1>5. ASSUME NEW s \in Relayer, NEW u \in Tx, RootSend(s, u)
        PROVE  \A r \in Relayer, t \in Tx : Due(r, t)'
    <2>1. jobs[s][u] \in Job /\ jobs[s][u].nonce \in Nat /\ RootTx(u, jobs[s][u].root) \in EthTx
      BY SendTypes DEF IInv
    <2>2. CASE Accepted(s, jobs[s][u].nonce, RootTx(u, jobs[s][u].root)) /\ Goto(s, u, "rootWait")
      <3>1. IsSent(s, u, "root")'
        BY <2>1, <2>2, <1>5, AcceptedKeeps DEF IInv, RootSend, RootTx
      <3>2. jobs'[s][u].pc = "rootWait"
        BY <2>1, <2>2, <1>3 DEF Goto, SetJob, Job
      <3>3. \A r \in Relayer, t \in Tx : ~(r = s /\ t = u) => jobs'[r][t] = jobs[r][t]
        BY <2>2, <1>3 DEF Goto, SetJob
      <3>4. QED  BY <3>1, <3>2, <3>3, <1>4
    <2>3. CASE Goto(s, u, "mintNonce")
      <3>1. \A r \in Relayer, t \in Tx :
                jobs'[r][t].pc = IF r = s /\ t = u THEN "mintNonce" ELSE jobs[r][t].pc
        BY <2>1, <2>3, <1>3 DEF Goto, SetJob, Job
      <3>2. QED  BY <3>1, <1>4
    <2>4. QED  BY <2>2, <2>3, <1>5 DEF RootSend
  <1>6. ASSUME NEW s \in Relayer, NEW u \in Tx, MintSend(s, u)
        PROVE  \A r \in Relayer, t \in Tx : Due(r, t)'
    <2>1. /\ jobs[s][u] \in Job /\ jobs[s][u].nonce \in Nat /\ MintTx(u, jobs[s][u]) \in EthTx
      BY <1>6, SendTypes DEF IInv, MintSend
    <2>2. CASE Accepted(s, jobs[s][u].nonce, MintTx(u, jobs[s][u])) /\ End(s, u, "complete")
      <3>1. IsSent(s, u, "mint")'
        BY <2>1, <2>2, <1>6, AcceptedKeeps DEF IInv, MintSend, MintTx
      <3>2. jobs'[s][u].pc = "complete"
        BY <2>2, <1>3 DEF End, SetJob, At
      <3>3. \A r \in Relayer, t \in Tx : ~(r = s /\ t = u) => jobs'[r][t] = jobs[r][t]
        BY <2>2, <1>3 DEF End, SetJob
      <3>4. QED  BY <3>1, <3>2, <3>3, <1>4
    <2>3. CASE End(s, u, "failed")
      <3>1. \A r \in Relayer, t \in Tx :
                jobs'[r][t].pc = IF r = s /\ t = u THEN "failed" ELSE jobs[r][t].pc
        BY <2>3, <1>3 DEF End, SetJob, At
      <3>2. QED  BY <3>1, <1>4
    <2>4. QED  BY <2>2, <2>3, <1>6 DEF MintSend
  <1>7. ASSUME UNCHANGED jobs
        PROVE  \A r \in Relayer, t \in Tx : Due(r, t)'
    BY <1>7, <1>4
  <1>8. ASSUME NEW s \in Relayer, NEW u \in Tx, JobStep(s, u), ~RootSend(s, u), ~MintSend(s, u)
        PROVE  \A r \in Relayer, t \in Tx : Due(r, t)'
    <2>1. CASE Die(s)
      <3>1. \A r \in Relayer, t \in Tx : jobs'[r][t] = jobs[r][t] \/ jobs'[r][t].pc = "aborted"
        BY <2>1, <1>3 DEF Die, At
      <3>2. QED  BY <3>1, <1>4
    <2>2. ASSUME NEW job, SetJob(s, u, job), job.pc \notin {"rootWait", "complete"}
          PROVE  \A r \in Relayer, t \in Tx : Due(r, t)'
      <3>1. \A r \in Relayer, t \in Tx : jobs'[r][t] = IF r = s /\ t = u THEN job ELSE jobs[r][t]
        BY <2>2, <1>3 DEF SetJob
      <3>2. QED  BY <3>1, <2>2, <1>4
    <2>3. jobs[s][u] \in Job
      BY <1>3
    <2>4. ASSUME NEW pc \in {"lookup", "rootNonce", "mintNonce"}, Goto(s, u, pc)
          PROVE  \A r \in Relayer, t \in Tx : Due(r, t)'
      <3>1. [jobs[s][u] EXCEPT !.pc = pc].pc = pc
        BY <2>3 DEF Job
      <3>2. QED  BY <3>1, <2>4, <2>2 DEF Goto
    <2>5. ASSUME NEW outcome \in {"skipped", "failed"}, End(s, u, outcome)
          PROVE  \A r \in Relayer, t \in Tx : Due(r, t)'
      <3>1. At(outcome).pc = outcome
        BY DEF At
      <3>2. QED  BY <3>1, <2>5, <2>2 DEF End
    <2>6. CASE FetchTx(s, u) \/ LookupFail(s, u) \/ WriteProof(s, u) \/ ProveFail(s, u)
               \/ RootMined(s, u) \/ RootFail(s, u) \/ MintFail(s, u)
      BY <2>4, <2>5, <2>6 DEF FetchTx, LookupFail, WriteProof, ProveFail, RootMined, RootFail, MintFail
    <2>7. CASE FetchMiss(s, u)
      <3>1. [jobs[s][u] EXCEPT !.tries = @ + 1].pc = "fetch"
        BY <2>3, <2>7 DEF Job, FetchMiss
      <3>2. QED  BY <3>1, <2>7, <2>2, <2>5 DEF FetchMiss
    <2>8. CASE LookupLock(s, u)
      <3>1. [jobs[s][u] EXCEPT !.pc = "prove",
                               !.recipient = receipts[u][1].ethDestination,
                               !.amount = receipts[u][1].amount].pc = "prove"
        BY <2>3 DEF Job
      <3>2. QED  BY <3>1, <2>8, <2>2, <2>5 DEF LookupLock
    <2>9. CASE Prove(s, u)
      <3>1. [jobs[s][u] EXCEPT !.pc = "write", !.root = blockOf[u], !.leaf = u].pc = "write"
        BY <2>3 DEF Job
      <3>2. QED  BY <3>1, <2>9, <2>2 DEF Prove
    <2>10. CASE RootNonce(s, u)
      <3>1. [jobs[s][u] EXCEPT !.pc = "rootSend", !.nonce = PendingNonceAt(s)].pc = "rootSend"
        BY <2>3 DEF Job
      <3>2. QED  BY <3>1, <2>10, <2>2 DEF RootNonce
    <2>11. CASE MintNonce(s, u)
      <3>1. \A nonce : [jobs[s][u] EXCEPT !.pc = "mintRead", !.nonce = nonce].pc = "mintRead"
        BY <2>3 DEF Job
      <3>2. QED  BY <3>1, <2>11, <2>2 DEF MintNonce
    <2>12. CASE MintRead(s, u)
      <3>1. [jobs[s][u] EXCEPT !.pc = "mintSend", !.proof = proofFile[s]].pc = "mintSend"
        BY <2>3 DEF Job
      <3>2. QED  BY <3>1, <2>12, <2>2 DEF MintRead
    <2>13. CASE LookupPanic(s, u) \/ MintPanic(s, u) \/ NoChainID(s, u)
      BY <2>13, <2>1 DEF LookupPanic, MintPanic, NoChainID
    <2>14. QED
      BY <1>8, <2>6, <2>7, <2>8, <2>9, <2>10, <2>11, <2>12, <2>13 DEF JobStep
  <1>9. ASSUME NEW s \in Relayer, ReadMessage(s)
        PROVE  \A r \in Relayer, t \in Tx : Due(r, t)'
    <2>1. Head(inbox[s]) \in Tx
      BY <1>9, HeadTailProperties DEF ReadMessage, IInv, TypeOK, RelayerTypeOK
    <2>2. \A r \in Relayer, t \in Tx : jobs'[r][t] = jobs[r][t] \/ jobs'[r][t].pc = "fetch"
      BY <1>9, <2>1, <1>3 DEF ReadMessage, SetJob, At
    <2>3. QED  BY <2>2, <1>4
  <1>10. ASSUME NEW s \in Relayer, Exit(s)
         PROVE  \A r \in Relayer, t \in Tx : Due(r, t)'
    <2>1. \A r \in Relayer, t \in Tx : jobs'[r][t] = jobs[r][t] \/ jobs'[r][t].pc = "aborted"
      BY <1>10, <1>3 DEF Exit, Die, At
    <2>2. QED  BY <2>1, <1>4
  <1>11. \A r \in Relayer, t \in Tx : Due(r, t)'
    <2>1. ASSUME CosmosNext
          PROVE  UNCHANGED jobs
      BY <2>1 DEF CosmosNext, DeliverTx, IndexTx, CallLock, CommitBlock, relayerVars
    <2>2. ASSUME NEW s \in Relayer, EthereumNext(s)
          PROVE  UNCHANGED jobs
      BY <2>2 DEF EthereumNext, MineRoot, MineMint, MineRevert, relayerVars
    <2>3. ASSUME NEW s \in Relayer, Start(s) \/ Interrupt(s)
          PROVE  UNCHANGED jobs
      BY <2>3 DEF Start, Interrupt
    <2>4. ASSUME UNCHANGED vars
          PROVE  UNCHANGED jobs
      BY <2>4 DEF vars, relayerVars
    <2>5. ASSUME OthersNext
          PROVE  UNCHANGED jobs
      BY <2>5, OthersFrame DEF relayerVars
    <2>6. QED
      BY <2>1, <2>2, <2>3, <2>4, <2>5, <1>5, <1>6, <1>7, <1>8, <1>9, <1>10 DEF Next, RelayerNext
  <1>12. QED
    BY <1>11 DEF SubmittedInv, WaitsForSent, CompleteIsSubmitted, IsSent

LEMMA SubmittedAlways == ~Repricing /\ Spec => []SubmittedInv
  <1>1. Init => SubmittedInv
    BY DEF Init, At, SubmittedInv, WaitsForSent, CompleteIsSubmitted
  <1>2. ~Repricing /\ IInv /\ [Next]_vars /\ SubmittedInv => SubmittedInv'
    BY SubmittedStep
  <1>3. CASE Repricing
    BY <1>3
  <1>4. CASE ~Repricing
    <2>1. IInv /\ [Next]_vars /\ SubmittedInv => SubmittedInv'
      BY <1>4, <1>2
    <2>2. QED  BY <1>1, <2>1, Invariance, PTL DEF Spec
  <1>5. QED  BY <1>3, <1>4

(* "Relay Complete!" is never said of a mint that was not sent, however    *)
(* the goroutines' nonces collide, as long as the pool replaces nothing.   *)
THEOREM CompleteMeansSubmitted ==
    ASSUME ~Repricing
    PROVE  Spec => []CompleteIsSubmitted
  <1>1. SubmittedInv => CompleteIsSubmitted
    BY DEF SubmittedInv
  <1>2. Spec => []SubmittedInv
    BY SubmittedAlways
  <1>3. QED  BY <1>1, <1>2, PTL

(* WaitMined is never called for a root update the node has refused: the   *)
(* wait without a deadline is for something that is pending or mined.      *)
THEOREM WaitsOnlyForSent ==
    ASSUME ~Repricing
    PROVE  Spec => []WaitsForSent
  <1>1. SubmittedInv => WaitsForSent
    BY DEF SubmittedInv
  <1>2. Spec => []SubmittedInv
    BY SubmittedAlways
  <1>3. QED  BY <1>1, <1>2, PTL

-----------------------------------------------------------------------------
(* One lock at a time.  As long as a lock is made only when nothing is on  *)
(* its way (Paced), calls do not fail and the pool replaces nothing, no    *)
(* mint that can be paid reverts.  What carries the proof: whatever is on  *)
(* its way is about the transaction of the latest block, so the root       *)
(* updates of all processes write the same root, and a process has one     *)
(* goroutine at work, whose nonce is the next one and whose file is its    *)
(* own.  Other accounts, which may set any root, do so between two locks.  *)

Latest(t) == blockOf[t] = height /\ height > 0
ProofFor(t) == [root |-> height, leaf |-> t]
Quiet(r) == inbox[r] = <<>> /\ Active(r) = {} /\ pool[r] = <<>>
Moving == \E r \in Relayer : ~Quiet(r)

\* Blocks are built while nothing moves, and hold one transaction each.
BlocksPaced ==
    /\ openBlock # <<>> => Len(openBlock) = 1 /\ \A r \in Relayer : Quiet(r)
    /\ \A t \in Tx : blockOf[t] <= height
    /\ \A t, u \in Tx : blockOf[t] = blockOf[u] /\ blockOf[t] > 0 => t = u

\* An event is read before anything else happens in its process.
InboxPaced ==
    \A r \in Relayer : inbox[r] # <<>> =>
        /\ \E t \in Tx : inbox[r] = <<t>> /\ Latest(t)
        /\ Active(r) = {} /\ pool[r] = <<>>

\* A mint is only pending under the root it was proved for.
TxPaced(tx) ==
    /\ Latest(tx.job) /\ tx.root = height
    /\ tx.kind = "mint" => /\ tx.leaf = tx.job
                           /\ tx.proof = ProofFor(tx.job)
                           /\ trustedBlockRoot = height

PoolPaced == \A r \in Relayer : \A i \in DOMAIN pool[r] : TxPaced(pool[r][i])

\* The latest transaction's root, once mined, is not replaced by another as
\* long as something is on its way.
MinedPaced ==
    \A r \in Relayer : \A i \in DOMAIN mined[r] :
        /\ blockOf[mined[r][i].job] > 0
        /\ Moving /\ mined[r][i].kind = "root" /\ Latest(mined[r][i].job) =>
              trustedBlockRoot = height

\* What a goroutine read is still true when it uses it.
JobPaced(t, job, nonce, file) ==
    /\ job.pc \in Running => Latest(t)
    /\ job.pc \in {"rootSend", "mintRead", "mintSend"} => job.nonce = nonce
    /\ job.pc = "write" => file = NoProof
    /\ job.pc \in {"rootNonce", "rootSend", "rootWait", "mintNonce", "mintRead"} =>
          file = ProofFor(t)
    /\ job.pc = "mintSend" => job.proof = ProofFor(t)
    /\ job.pc \in {"mintNonce", "mintRead", "mintSend"} => trustedBlockRoot = height

JobsPaced == \A r \in Relayer, t \in Tx : JobPaced(t, jobs[r][t], PendingNonceAt(r), proofFile[r])

PacedInv ==
    /\ BlocksPaced
    /\ InboxPaced
    /\ PoolPaced
    /\ MinedPaced
    /\ JobsPaced
    /\ NoMintReverts

(* A goroutine at work has its process, and the chain, to itself.          *)
LEMMA Alone ==
    ASSUME TypeOK, PacedInv, NEW r \in Relayer, NEW t \in Active(r)
    PROVE  /\ t \in Tx /\ Latest(t)
           /\ inbox[r] = <<>> /\ openBlock = <<>>
           /\ \A u \in Tx : u # t => jobs[r][u].pc \notin Running
           /\ JobPaced(t, jobs[r][t], PendingNonceAt(r), proofFile[r])
  <1>1. \A u \in Active(r) : u \in Tx /\ Latest(u)
    BY DEF Active, PacedInv, JobsPaced, JobPaced
  <1>2. Active(r) # {}
    OBVIOUS
  <1>3. inbox[r] = <<>> /\ openBlock = <<>>
    BY <1>2 DEF PacedInv, InboxPaced, BlocksPaced, Quiet
  <1>4. \A u \in Active(r) : u = t
    BY <1>1 DEF Latest, PacedInv, BlocksPaced
  <1>5. \A u \in Tx : u # t => jobs[r][u].pc \notin Running
    BY <1>4 DEF Active
  <1>6. JobPaced(t, jobs[r][t], PendingNonceAt(r), proofFile[r])
    BY <1>1 DEF PacedInv, JobsPaced
  <1>7. QED  BY <1>1, <1>3, <1>5, <1>6

(* A step of the goroutine at work: enough that what it leaves in the      *)
(* pool, in the file and in its locals is in order.                        *)
LEMMA StepPaced ==
    ASSUME TypeOK, PacedInv, NEW r \in Relayer, NEW t \in Active(r), NEW job, SetJob(r, t, job),
           UNCHANGED <<inbox, cosmosVars, mined, chainVars>>,
           NEW queue, pool' = [pool EXCEPT ![r] = queue], \A i \in DOMAIN queue : TxPaced(queue[i]),
           NEW file, proofFile' = [proofFile EXCEPT ![r] = file],
           JobPaced(t, job, Len(mined[r]) + Len(queue), file)
    PROVE  PacedInv'
  <1>1. /\ t \in Tx /\ inbox[r] = <<>> /\ openBlock = <<>>
        /\ \A u \in Tx : u # t => jobs[r][u].pc \notin Running
    BY Alone
  <1>2. /\ jobs \in [Relayer -> [Tx -> Job]]
        /\ DOMAIN pool = Relayer /\ DOMAIN proofFile = Relayer
    BY DEF TypeOK, RelayerTypeOK, EthereumTypeOK
  <1>3. /\ openBlock' = openBlock /\ height' = height /\ blockOf' = blockOf
        /\ receipts' = receipts /\ inbox' = inbox /\ mined' = mined
        /\ trustedBlockRoot' = trustedBlockRoot /\ processedTxs' = processedTxs
    BY DEF cosmosVars, chainVars
  <1>4. \A s \in Relayer, u \in Tx : jobs'[s][u] = IF s = r /\ u = t THEN job ELSE jobs[s][u]
    BY <1>1, <1>2 DEF SetJob
  <1>5. /\ pool'[r] = queue /\ proofFile'[r] = file
        /\ \A s \in Relayer : s # r => pool'[s] = pool[s] /\ proofFile'[s] = proofFile[s]
    BY <1>2
  <1>6. \A u : Latest(u)' <=> Latest(u)
    BY <1>3 DEF Latest
  <1>7. \A tx : TxPaced(tx)' <=> TxPaced(tx)
    BY <1>3 DEF TxPaced, Latest, ProofFor
  <1>8. \A u, j, n, f : JobPaced(u, j, n, f)' <=> JobPaced(u, j, n, f)
    BY <1>3 DEF JobPaced, Latest, ProofFor
  <1>9. BlocksPaced'
    BY <1>1, <1>3 DEF PacedInv, BlocksPaced
  <1>10. InboxPaced'
    <2>1. \A s \in Relayer : s # r => Active(s)' = Active(s)
      BY <1>4 DEF Active
    <2>2. QED  BY <1>1, <1>3, <1>5, <1>6, <2>1 DEF PacedInv, InboxPaced
  <1>11. PoolPaced'
    BY <1>5, <1>7 DEF PacedInv, PoolPaced
  <1>12. MinedPaced'
    <2>1. Moving
      BY DEF Moving, Quiet
    <2>2. QED  BY <2>1, <1>3, <1>6 DEF PacedInv, MinedPaced
  <1>13. JobsPaced'
    <2>1. ASSUME NEW s \in Relayer, NEW u \in Tx
          PROVE  JobPaced(u, jobs'[s][u], PendingNonceAt(s)', proofFile'[s])
      <3>1. CASE s = r /\ u = t
        BY <3>1, <1>3, <1>4, <1>5 DEF PendingNonceAt
      <3>2. CASE s = r /\ u # t
        BY <3>2, <1>1, <1>4 DEF JobPaced, Running
      <3>3. CASE s # r
        BY <3>3, <1>3, <1>4, <1>5 DEF PacedInv, JobsPaced, PendingNonceAt
      <3>4. QED  BY <3>1, <3>2, <3>3
    <2>2. QED  BY <2>1, <1>8 DEF JobsPaced
  <1>14. NoMintReverts'
    BY <1>3 DEF PacedInv, NoMintReverts, Locked
  <1>15. QED  BY <1>9, <1>10, <1>11, <1>12, <1>13, <1>14 DEF PacedInv

(* A step that leaves the pool and the file alone.                         *)
LEMMA LocalPaced ==
    ASSUME TypeOK, PacedInv, NEW r \in Relayer, NEW t \in Active(r), NEW job, SetJob(r, t, job),
           UNCHANGED <<inbox, proofFile, cosmosVars, ethVars>>,
           JobPaced(t, job, PendingNonceAt(r), proofFile[r])
    PROVE  PacedInv'
  <1>1. /\ pool' = [pool EXCEPT ![r] = pool[r]]
        /\ proofFile' = [proofFile EXCEPT ![r] = proofFile[r]]
    BY DEF TypeOK, RelayerTypeOK, EthereumTypeOK, ethVars
  <1>2. \A i \in DOMAIN pool[r] : TxPaced(pool[r][i])
    BY DEF PacedInv, PoolPaced
  <1>3. UNCHANGED <<inbox, cosmosVars, mined, chainVars>>
    BY DEF ethVars, chainVars
  <1>4. JobPaced(t, job, Len(mined[r]) + Len(pool[r]), proofFile[r])
    BY DEF PendingNonceAt
  <1>5. QED  BY <1>1, <1>2, <1>3, <1>4, StepPaced

(* The end of a goroutine.                                                 *)
LEMMA EndPaced ==
    ASSUME TypeOK, PacedInv, NEW r \in Relayer, NEW t \in Active(r), NEW outcome \in Outcome,
           End(r, t, outcome), UNCHANGED <<inbox, proofFile, cosmosVars, ethVars>>
    PROVE  PacedInv'
  <1>1. JobPaced(t, At(outcome), PendingNonceAt(r), proofFile[r])
    BY DEF JobPaced, At, Running, Outcome
  <1>2. QED  BY <1>1, LocalPaced DEF End

(* The end of a process, and steps that touch nothing of all this.         *)
LEMMA DiePaced ==
    ASSUME TypeOK, PacedInv, NEW r \in Relayer, Die(r), UNCHANGED <<proofFile, cosmosVars, ethVars>>
    PROVE  PacedInv'
  <1>1. /\ jobs \in [Relayer -> [Tx -> Job]] /\ DOMAIN inbox = Relayer
    BY DEF TypeOK, RelayerTypeOK
  <1>2. /\ openBlock' = openBlock /\ height' = height /\ blockOf' = blockOf
        /\ receipts' = receipts /\ pool' = pool /\ mined' = mined /\ proofFile' = proofFile
        /\ trustedBlockRoot' = trustedBlockRoot /\ processedTxs' = processedTxs
    BY DEF cosmosVars, ethVars
  <1>3. /\ inbox'[r] = <<>>
        /\ \A s \in Relayer : s # r => inbox'[s] = inbox[s]
        /\ \A s \in Relayer, u \in Tx :
              jobs'[s][u] = IF s = r /\ u \in Active(r) THEN At("aborted") ELSE jobs[s][u]
    BY <1>1 DEF Die
  <1>4. At("aborted").pc \notin Running
    BY DEF At, Running
  <1>5. /\ Active(r)' = {}
        /\ \A s \in Relayer : s # r => Active(s)' = Active(s)
    BY <1>3, <1>4 DEF Active
  <1>6. BlocksPaced'
    BY <1>2, <1>3, <1>5 DEF PacedInv, BlocksPaced, Quiet
  <1>7. InboxPaced'
    BY <1>2, <1>3, <1>5 DEF PacedInv, InboxPaced, Latest
  <1>8. PoolPaced' /\ MinedPaced' /\ NoMintReverts'
    <2>1. Moving' => Moving
      BY <1>2, <1>3, <1>5 DEF Moving, Quiet
    <2>2. QED
      BY <2>1, <1>2
      DEF PacedInv, PoolPaced, TxPaced, ProofFor, MinedPaced, Latest, NoMintReverts, Locked
  <1>9. JobsPaced'
    <2>1. ASSUME NEW s \in Relayer, NEW u \in Tx
          PROVE  JobPaced(u, jobs[s][u], PendingNonceAt(s), proofFile[s])'
      <3>1. CASE s = r /\ u \in Active(r)
        BY <3>1, <1>3, <1>4 DEF JobPaced, Running
      <3>2. CASE ~(s = r /\ u \in Active(r))
        <4>1. jobs'[s][u] = jobs[s][u]
          BY <3>2, <1>3
        <4>2. JobPaced(u, jobs[s][u], PendingNonceAt(s), proofFile[s])
          BY DEF PacedInv, JobsPaced
        <4>3. QED  BY <4>1, <4>2, <1>2 DEF JobPaced, Latest, ProofFor, PendingNonceAt
      <3>3. QED  BY <3>1, <3>2
    <2>2. QED  BY <2>1 DEF JobsPaced
  <1>10. QED  BY <1>6, <1>7, <1>8, <1>9 DEF PacedInv

LEMMA FramePaced ==
    ASSUME PacedInv, UNCHANGED <<height, openBlock, blockOf, receipts, inbox, jobs, proofFile, ethVars>>
    PROVE  PacedInv'
  <1>1. /\ pool' = pool /\ mined' = mined
        /\ trustedBlockRoot' = trustedBlockRoot /\ processedTxs' = processedTxs
    BY DEF ethVars
  <1>2. BlocksPaced' /\ InboxPaced'
    BY <1>1 DEF PacedInv, BlocksPaced, InboxPaced, Quiet, Active, Latest
  <1>3. PoolPaced' /\ MinedPaced' /\ NoMintReverts'
    <2>1. Moving' = Moving
      BY <1>1 DEF Moving, Quiet, Active
    <2>2. QED
      BY <2>1, <1>1
      DEF PacedInv, PoolPaced, TxPaced, ProofFor, MinedPaced, Latest, NoMintReverts, Locked
  <1>4. JobsPaced'
    BY <1>1 DEF PacedInv, JobsPaced, JobPaced, Latest, ProofFor, PendingNonceAt
  <1>5. QED  BY <1>2, <1>3, <1>4 DEF PacedInv

LEMMA ReadPaced ==
    ASSUME TypeOK, PacedInv, NEW r \in Relayer, ReadMessage(r)
    PROVE  PacedInv'
  <1>1. PICK t \in Tx : inbox[r] = <<t>> /\ Latest(t)
    BY DEF ReadMessage, PacedInv, InboxPaced
  <1>2. Active(r) = {} /\ pool[r] = <<>> /\ openBlock = <<>>
    BY DEF ReadMessage, PacedInv, InboxPaced, BlocksPaced, Quiet
  <1>3. jobs \in [Relayer -> [Tx -> Job]] /\ DOMAIN inbox = Relayer
    BY DEF TypeOK, RelayerTypeOK
  <1>4. /\ openBlock' = openBlock /\ height' = height /\ blockOf' = blockOf
        /\ receipts' = receipts /\ pool' = pool /\ mined' = mined /\ proofFile' = proofFile
        /\ trustedBlockRoot' = trustedBlockRoot /\ processedTxs' = processedTxs
    BY DEF ReadMessage, cosmosVars, ethVars
  <1>5. Head(inbox[r]) = t /\ Tail(inbox[r]) = <<>>
    BY <1>1
  <1>6. /\ inbox'[r] = <<>>
        /\ \A s \in Relayer : s # r => inbox'[s] = inbox[s]
        /\ \A s \in Relayer, u \in Tx :
              jobs'[s][u] = IF s = r /\ u = t THEN At("fetch") ELSE jobs[s][u]
    BY <1>3, <1>5 DEF ReadMessage, SetJob
  <1>7. \A s \in Relayer : s # r => Active(s)' = Active(s)
    BY <1>6 DEF Active
  <1>8. BlocksPaced'
    BY <1>2, <1>4 DEF PacedInv, BlocksPaced
  <1>9. InboxPaced'
    BY <1>4, <1>6, <1>7 DEF PacedInv, InboxPaced, Latest
  <1>10. PoolPaced' /\ MinedPaced' /\ NoMintReverts'
    <2>1. Moving
      BY DEF ReadMessage, Moving, Quiet
    <2>2. QED
      BY <2>1, <1>4
      DEF PacedInv, PoolPaced, TxPaced, ProofFor, MinedPaced, Latest, NoMintReverts, Locked
  <1>11. JobsPaced'
    <2>1. ASSUME NEW s \in Relayer, NEW u \in Tx
          PROVE  JobPaced(u, jobs[s][u], PendingNonceAt(s), proofFile[s])'
      <3>1. CASE s = r /\ u = t
        <4>1. At("fetch").pc = "fetch"
          BY DEF At
        <4>2. QED  BY <3>1, <4>1, <1>1, <1>4, <1>6 DEF JobPaced, Latest
      <3>2. CASE ~(s = r /\ u = t)
        <4>1. jobs'[s][u] = jobs[s][u]
          BY <3>2, <1>6
        <4>2. JobPaced(u, jobs[s][u], PendingNonceAt(s), proofFile[s])
          BY DEF PacedInv, JobsPaced
        <4>3. QED  BY <4>1, <4>2, <1>4 DEF JobPaced, Latest, ProofFor, PendingNonceAt
      <3>3. QED  BY <3>1, <3>2
    <2>2. QED  BY <2>1 DEF JobsPaced
  <1>12. QED  BY <1>8, <1>9, <1>10, <1>11 DEF PacedInv

(* The goroutine's steps before the first transaction is sent.             *)
LEMMA BeforePaced ==
    ASSUME IInv, PacedInv, ~Faulty, NEW r \in Relayer, NEW t \in Tx,
           \/ FetchTx(r, t) \/ FetchMiss(r, t) \/ LookupLock(r, t) \/ LookupFail(r, t)
           \/ LookupPanic(r, t)
           \/ Prove(r, t) \/ WriteProof(r, t) \/ ProveFail(r, t) \/ RootNonce(r, t)
    PROVE  PacedInv'
  <1> DEFINE job == jobs[r][t]
  <1>1. t \in Active(r)
    BY DEF Active, FetchTx, FetchMiss, LookupLock, LookupFail, LookupPanic, Prove, WriteProof,
           ProveFail, RootNonce, Running
  <1>2. TypeOK /\ job \in Job /\ JobOK(t, job)
    BY DEF IInv, TypeOK, RelayerTypeOK, JobsOK
  <1>3. Latest(t) /\ JobPaced(t, job, PendingNonceAt(r), proofFile[r])
    BY <1>1, <1>2, Alone
  <1>4. \A outcome \in Outcome :
            End(r, t, outcome) /\ UNCHANGED <<inbox, proofFile, cosmosVars, ethVars>> => PacedInv'
    BY <1>1, <1>2, EndPaced
  <1>5. CASE FetchTx(r, t)
    <2>1. CASE Goto(r, t, "lookup")
      <3>1. JobPaced(t, [job EXCEPT !.pc = "lookup"], PendingNonceAt(r), proofFile[r])
        BY <1>2, <1>3 DEF JobPaced, Job
      <3>2. QED  BY <2>1, <3>1, <1>1, <1>2, <1>5, LocalPaced DEF Goto, FetchTx
    <2>2. CASE End(r, t, "skipped")
      BY <2>2, <1>4, <1>5 DEF FetchTx, Outcome
    <2>3. QED  BY <2>1, <2>2, <1>5 DEF FetchTx
  <1>6. CASE FetchMiss(r, t)
    <2>1. CASE SetJob(r, t, [job EXCEPT !.tries = @ + 1])
      <3>1. JobPaced(t, [job EXCEPT !.tries = @ + 1], PendingNonceAt(r), proofFile[r])
        BY <1>2, <1>3, <1>6 DEF JobPaced, Job, FetchMiss
      <3>2. QED  BY <2>1, <3>1, <1>1, <1>2, <1>6, LocalPaced DEF FetchMiss
    <2>2. CASE End(r, t, "skipped")
      BY <2>2, <1>4, <1>6 DEF FetchMiss, Outcome
    <2>3. QED  BY <2>1, <2>2, <1>6 DEF FetchMiss
  <1>7. CASE LookupLock(r, t)
    <2> DEFINE found == [job EXCEPT !.pc = "prove",
                                    !.recipient = receipts[t][1].ethDestination,
                                    !.amount = receipts[t][1].amount]
    <2>1. CASE SetJob(r, t, found)
      <3>1. JobPaced(t, found, PendingNonceAt(r), proofFile[r])
        BY <1>2, <1>3 DEF JobPaced, Job
      <3>2. QED  BY <2>1, <3>1, <1>1, <1>2, <1>7, LocalPaced DEF LookupLock
    <2>2. CASE End(r, t, "skipped")
      BY <2>2, <1>4, <1>7 DEF LookupLock, Outcome
    <2>3. QED  BY <2>1, <2>2, <1>7 DEF LookupLock
  <1>8. CASE ProveFail(r, t) \/ LookupFail(r, t)
    BY <1>4, <1>8 DEF ProveFail, LookupFail, Outcome
  <1>9. CASE RootNonce(r, t)
    <2> DEFINE next == [job EXCEPT !.pc = "rootSend", !.nonce = PendingNonceAt(r)]
    <2>1. JobPaced(t, next, PendingNonceAt(r), proofFile[r])
      BY <1>2, <1>3, <1>9 DEF JobPaced, Job, RootNonce
    <2>2. QED  BY <2>1, <1>1, <1>2, <1>9, LocalPaced DEF RootNonce
  <1>10. /\ pool' = pool => pool' = [pool EXCEPT ![r] = pool[r]]
         /\ \A i \in DOMAIN pool[r] : TxPaced(pool[r][i])
    BY <1>2 DEF TypeOK, EthereumTypeOK, PacedInv, PoolPaced
  <1>11. CASE Prove(r, t)
    <2> DEFINE next == [job EXCEPT !.pc = "write", !.root = blockOf[t], !.leaf = t]
    <2>1. JobPaced(t, next, Len(mined[r]) + Len(pool[r]), NoProof)
      BY <1>2, <1>3 DEF JobPaced, Job
    <2>2. UNCHANGED <<inbox, cosmosVars, mined, chainVars>> /\ pool' = pool
      BY <1>11 DEF Prove, ethVars, chainVars
    <2>3. QED  BY <2>1, <2>2, <1>1, <1>2, <1>10, <1>11, StepPaced DEF Prove
  <1>12. CASE WriteProof(r, t)
    <2> DEFINE next == [job EXCEPT !.pc = "rootNonce"]
    <2>1. proofFile[r] = NoProof /\ job.root = height /\ job.leaf = t
      BY <1>2, <1>3, <1>12 DEF JobPaced, JobOK, WriteProof, Running, Latest
    <2>2. proofFile' = [proofFile EXCEPT ![r] = ProofFor(t)]
      BY <2>1, <1>12 DEF WriteProof, ProofFor
    <2>3. JobPaced(t, next, Len(mined[r]) + Len(pool[r]), ProofFor(t))
      BY <1>2, <1>3 DEF JobPaced, Job
    <2>4. UNCHANGED <<inbox, cosmosVars, mined, chainVars>> /\ pool' = pool
      BY <1>12 DEF WriteProof, ethVars, chainVars
    <2>5. QED  BY <2>2, <2>3, <2>4, <1>1, <1>2, <1>10, <1>12, StepPaced DEF WriteProof, Goto
  <1>13. CASE LookupPanic(r, t)
    BY <1>2, <1>13, DiePaced DEF LookupPanic
  <1>14. QED  BY <1>5, <1>6, <1>7, <1>8, <1>9, <1>11, <1>12, <1>13

(* A transaction with the next nonce is taken, not refused.                *)
LEMMA TakenPaced ==
    ASSUME TypeOK, PacedInv, NEW r \in Relayer, NEW t \in Active(r), NEW job, SetJob(r, t, job),
           UNCHANGED <<inbox, proofFile, cosmosVars, mined, chainVars>>,
           NEW nonce, NEW tx \in EthTx, ~Repricing, Accepted(r, nonce, tx), TxPaced(tx),
           JobPaced(t, job, PendingNonceAt(r) + 1, proofFile[r])
    PROVE  PacedInv'
  <1>1. pool[r] \in Seq(EthTx) /\ Len(mined[r]) \in Nat
    BY DEF TypeOK, EthereumTypeOK
  <1>2. pool' = [pool EXCEPT ![r] = Append(pool[r], tx)]
    BY DEF Accepted
  <1>3. proofFile' = [proofFile EXCEPT ![r] = proofFile[r]]
    BY DEF TypeOK, RelayerTypeOK
  <1>4. \A i \in DOMAIN Append(pool[r], tx) : TxPaced(Append(pool[r], tx)[i])
    <2>1. \A i \in DOMAIN pool[r] : TxPaced(pool[r][i])
      BY DEF PacedInv, PoolPaced
    <2>2. \A i \in DOMAIN Append(pool[r], tx) :
              Append(pool[r], tx)[i] = tx \/ (i \in DOMAIN pool[r] /\ Append(pool[r], tx)[i] = pool[r][i])
      BY <1>1, AppendProperties
    <2>3. QED  BY <2>1, <2>2
  <1>5. PendingNonceAt(r) + 1 = Len(mined[r]) + Len(Append(pool[r], tx))
    <2>1. Len(Append(pool[r], tx)) = Len(pool[r]) + 1 /\ Len(pool[r]) \in Nat
      BY <1>1, AppendProperties
    <2> DEFINE m == Len(mined[r])
               p == Len(pool[r])
               q == Len(Append(pool[r], tx))
    <2>2. m \in Nat /\ p \in Nat /\ q = p + 1 /\ PendingNonceAt(r) = m + p
      BY <1>1, <2>1 DEF PendingNonceAt
    <2> HIDE DEF m, p, q
    <2>3. PendingNonceAt(r) + 1 = m + q
      BY <2>2
    <2>4. QED  BY <2>3 DEF m, q
  <1>6. QED  BY <1>2, <1>3, <1>4, <1>5, StepPaced

(* The goroutine's steps from there on.                                    *)
LEMMA SendPaced ==
    ASSUME IInv, PacedInv, ~Faulty, ~Repricing, NEW r \in Relayer, NEW t \in Tx,
           \/ RootSend(r, t) \/ RootMined(r, t) \/ RootFail(r, t) \/ MintNonce(r, t) \/ MintRead(r, t)
           \/ MintPanic(r, t) \/ NoChainID(r, t) \/ MintSend(r, t) \/ MintFail(r, t)
    PROVE  PacedInv'
  <1> DEFINE job == jobs[r][t]
  <1>1. t \in Active(r)
    BY DEF Active, RootSend, RootMined, MintNonce, MintRead, MintPanic, MintSend, RootFail,
           NoChainID, MintFail, Running
  <1>2. TypeOK /\ job \in Job /\ JobOK(t, job) /\ PendingNonceAt(r) \in Nat
    BY DEF IInv, TypeOK, RelayerTypeOK, EthereumTypeOK, JobsOK, PendingNonceAt
  <1>3. Latest(t) /\ JobPaced(t, job, PendingNonceAt(r), proofFile[r])
    BY <1>1, <1>2, Alone
  <1>4. RootTx(t, job.root) \in EthTx /\ (job.pc = "mintSend" => MintTx(t, job) \in EthTx)
    BY <1>2, SendTypes
  <1>5. CASE RootSend(r, t)
    <2> DEFINE next == [job EXCEPT !.pc = "rootWait"]
    <2>1. job.nonce = PendingNonceAt(r) /\ job.root = height
      BY <1>2, <1>3, <1>5 DEF RootSend, JobPaced, JobOK, Running, Latest
    <2>2. /\ Accepted(r, job.nonce, RootTx(t, job.root))
          /\ SetJob(r, t, next)
      BY <2>1, <1>2, <1>5 DEF RootSend, Refused, Goto
    <2>3. TxPaced(RootTx(t, job.root))
      BY <2>1, <1>3 DEF TxPaced, RootTx
    <2>4. JobPaced(t, next, PendingNonceAt(r) + 1, proofFile[r])
      BY <1>2, <1>3, <1>5 DEF JobPaced, Job, RootSend
    <2>5. QED  BY <2>2, <2>3, <2>4, <1>1, <1>2, <1>4, <1>5, TakenPaced DEF RootSend
  <1>6. CASE RootMined(r, t)
    <2>0. Moving
      BY <1>1 DEF Moving, Quiet
    <2>1. trustedBlockRoot = height
      BY <2>0, <1>3, <1>6 DEF RootMined, PacedInv, MinedPaced
    <2>2. JobPaced(t, [job EXCEPT !.pc = "mintNonce"], PendingNonceAt(r), proofFile[r])
      BY <2>1, <1>2, <1>3, <1>6 DEF JobPaced, Job, RootMined
    <2>3. QED  BY <2>2, <1>1, <1>2, <1>6, LocalPaced DEF RootMined, Goto
  <1>7. CASE MintNonce(r, t)
    <2> DEFINE next == [job EXCEPT !.pc = "mintRead", !.nonce = PendingNonceAt(r)]
    <2>1. SetJob(r, t, next)
      BY <1>7 DEF MintNonce
    <2>2. JobPaced(t, next, PendingNonceAt(r), proofFile[r])
      BY <1>2, <1>3, <1>7 DEF JobPaced, Job, MintNonce
    <2>3. QED  BY <2>1, <2>2, <1>1, <1>2, <1>7, LocalPaced DEF MintNonce
  <1>8. CASE MintRead(r, t)
    <2> DEFINE next == [job EXCEPT !.pc = "mintSend", !.proof = proofFile[r]]
    <2>1. JobPaced(t, next, PendingNonceAt(r), proofFile[r])
      BY <1>2, <1>3, <1>8 DEF JobPaced, Job, MintRead
    <2>2. QED  BY <2>1, <1>1, <1>2, <1>8, LocalPaced DEF MintRead
  <1>9. CASE MintSend(r, t)
    <2>1. /\ job.nonce = PendingNonceAt(r) /\ job.root = height /\ job.leaf = t
          /\ job.proof = ProofFor(t) /\ trustedBlockRoot = height
      BY <1>2, <1>3, <1>9 DEF MintSend, JobPaced, JobOK, Running, Latest
    <2>2. /\ Accepted(r, job.nonce, MintTx(t, job))
          /\ SetJob(r, t, At("complete"))
      BY <2>1, <1>2, <1>9 DEF MintSend, Refused, End
    <2>3. TxPaced(MintTx(t, job))
      BY <2>1, <1>3 DEF TxPaced, MintTx
    <2>4. JobPaced(t, At("complete"), PendingNonceAt(r) + 1, proofFile[r])
      BY DEF JobPaced, At, Running
    <2>5. MintTx(t, job) \in EthTx
      BY <1>4, <1>9 DEF MintSend
    <2>6. QED  BY <2>2, <2>3, <2>4, <2>5, <1>1, <1>2, <1>9, TakenPaced DEF MintSend
  <1>10. CASE MintPanic(r, t)
    BY <1>2, <1>10, DiePaced DEF MintPanic
  <1>11. CASE RootFail(r, t) \/ NoChainID(r, t) \/ MintFail(r, t)
    BY <1>11 DEF RootFail, NoChainID, MintFail
  <1>12. QED  BY <1>5, <1>6, <1>7, <1>8, <1>9, <1>10, <1>11

(* Mining: a root update sets the root of the latest block, and a mint     *)
(* that reverts is one too many, or cannot be paid.                        *)
LEMMA ReceivePaced ==
    ASSUME IInv, PacedInv, NEW r \in Relayer, pool[r] # <<>>, NEW ok \in BOOLEAN, Receive(r, ok),
           UNCHANGED <<cosmosVars, relayerVars>>,
           trustedBlockRoot' = IF Head(pool[r]).kind = "root" THEN Head(pool[r]).root
                                                              ELSE trustedBlockRoot,
           processedTxs \subseteq processedTxs',
           Locked(Head(pool[r]).job) => ok \/ Head(pool[r]).job \in processedTxs'
    PROVE  PacedInv'
  <1> DEFINE tx == Head(pool[r])
             e  == [kind |-> tx.kind, job |-> tx.job, ok |-> ok]
  <1>1. /\ pool \in [Relayer -> Seq(EthTx)] /\ pool[r] \in Seq(EthTx)
        /\ mined \in [Relayer -> Seq(EthReceipt)] /\ mined[r] \in Seq(EthReceipt)
        /\ pool' = [pool EXCEPT ![r] = Tail(@)]
        /\ mined' = [mined EXCEPT ![r] = Append(@, e)]
    BY DEF IInv, TypeOK, EthereumTypeOK, Receive
  <1>2. /\ openBlock' = openBlock /\ height' = height /\ blockOf' = blockOf
        /\ receipts' = receipts /\ inbox' = inbox /\ jobs' = jobs /\ proofFile' = proofFile
    BY DEF cosmosVars, relayerVars
  <1>3. /\ tx \in EthTx /\ tx = pool[r][1] /\ 1 \in DOMAIN pool[r]
        /\ Len(Tail(pool[r])) = Len(pool[r]) - 1
        /\ \A i \in DOMAIN Tail(pool[r]) : /\ i + 1 \in DOMAIN pool[r]
                                           /\ Tail(pool[r])[i] = pool[r][i + 1]
    BY <1>1, HeadTailProperties
  <1>4. TxPaced(tx)
    BY <1>3 DEF PacedInv, PoolPaced
  <1>5. tx.kind = "root" => trustedBlockRoot' = height
    BY <1>4 DEF TxPaced
  <1>6. trustedBlockRoot = height => trustedBlockRoot' = height
    BY <1>5
  <1>7. e \in EthReceipt
    BY <1>3 DEF EthTx, EthReceipt
  <1>8. /\ pool'[r] = Tail(pool[r]) /\ mined'[r] = Append(mined[r], e)
        /\ \A s \in Relayer : s # r => pool'[s] = pool[s] /\ mined'[s] = mined[s]
    BY <1>1
  <1>9. /\ Len(Append(mined[r], e)) = Len(mined[r]) + 1
        /\ \A i \in DOMAIN Append(mined[r], e) :
              \/ Append(mined[r], e)[i] = e
              \/ i \in DOMAIN mined[r] /\ Append(mined[r], e)[i] = mined[r][i]
    BY <1>1, <1>7, AppendProperties
  <1>10. BlocksPaced'
    <2>1. openBlock = <<>>
      BY DEF PacedInv, BlocksPaced, Quiet
    <2>2. QED  BY <2>1, <1>2 DEF PacedInv, BlocksPaced
  <1>11. InboxPaced'
    <2>1. inbox[r] = <<>>
      BY DEF PacedInv, InboxPaced
    <2>2. QED  BY <2>1, <1>2, <1>8 DEF PacedInv, InboxPaced, Active, Latest
  <1>12. PoolPaced'
    <2>1. \A y : TxPaced(y) => TxPaced(y)'
      BY <1>2, <1>6 DEF TxPaced, Latest, ProofFor
    <2>2. ASSUME NEW s \in Relayer, NEW i \in DOMAIN pool'[s]
          PROVE  TxPaced(pool'[s][i])
      <3>1. \A q \in Relayer : \A k \in DOMAIN pool[q] : TxPaced(pool[q][k])
        BY DEF PacedInv, PoolPaced
      <3>2. CASE s = r
        BY <3>1, <3>2, <1>3, <1>8
      <3>3. CASE s # r
        BY <3>1, <3>3, <1>8
      <3>4. QED  BY <3>2, <3>3
    <2>3. QED  BY <2>1, <2>2 DEF PoolPaced
  <1>13. MinedPaced'
    <2> DEFINE Good(y) ==
                 /\ blockOf[y.job] > 0
                 /\ y.kind = "root" /\ Latest(y.job) => trustedBlockRoot' = height
    <2>1. \A s \in Relayer : \A i \in DOMAIN mined[s] : Good(mined[s][i])
      <3>1. Moving
        BY DEF Moving, Quiet
      <3>2. QED  BY <3>1, <1>6 DEF PacedInv, MinedPaced
    <2>2. Good(e)
      BY <1>4, <1>5 DEF TxPaced, Latest
    <2> HIDE DEF Good
    <2>3. \A s \in Relayer : \A i \in DOMAIN mined'[s] : Good(mined'[s][i])
      <3>1. ASSUME NEW s \in Relayer, NEW i \in DOMAIN mined'[s]
            PROVE  mined'[s][i] = e \/ (i \in DOMAIN mined[s] /\ mined'[s][i] = mined[s][i])
        <4>1. CASE s = r
          BY <4>1, <1>8, <1>9
        <4>2. CASE s # r
          BY <4>2, <1>8
        <4>3. QED  BY <4>1, <4>2
      <3>2. QED  BY <3>1, <2>1, <2>2
    <2>4. QED  BY <2>3, <1>2 DEF MinedPaced, Good, Latest
  <1>14. JobsPaced'
    <2>1. \A s \in Relayer : PendingNonceAt(s)' = PendingNonceAt(s)
      <3>1. Len(mined[r]) \in Nat /\ Len(pool[r]) \in Nat
        BY <1>1
      <3> DEFINE m == Len(mined[r])
                 p == Len(pool[r])
                 n == Len(mined'[r])
                 q == Len(pool'[r])
      <3>2. /\ m \in Nat /\ p \in Nat /\ n = m + 1 /\ q = p - 1
            /\ PendingNonceAt(r) = m + p /\ PendingNonceAt(r)' = n + q
        BY <3>1, <1>3, <1>8, <1>9 DEF PendingNonceAt
      <3> HIDE DEF m, p, n, q
      <3>3. PendingNonceAt(r)' = PendingNonceAt(r)
        BY <3>2
      <3>4. \A s \in Relayer : s # r => PendingNonceAt(s)' = PendingNonceAt(s)
        BY <1>8 DEF PendingNonceAt
      <3>5. QED  BY <3>3, <3>4
    <2>2. \A u, j, n, f : JobPaced(u, j, n, f) => JobPaced(u, j, n, f)'
      BY <1>2, <1>6 DEF JobPaced, Latest, ProofFor
    <2>3. QED  BY <2>1, <2>2, <1>2 DEF PacedInv, JobsPaced
  <1>15. NoMintReverts'
    <2>1. \A u : Locked(u)' <=> Locked(u)
      BY <1>2 DEF Locked
    <2>2. ASSUME NEW s \in Relayer, NEW i \in DOMAIN mined'[s], Locked(mined'[s][i].job)
          PROVE  mined'[s][i].ok \/ mined'[s][i].job \in processedTxs'
      <3>1. CASE mined'[s][i] = e
        BY <2>2, <3>1
      <3>2. CASE i \in DOMAIN mined[s] /\ mined'[s][i] = mined[s][i]
        BY <2>2, <3>2 DEF PacedInv, NoMintReverts
      <3>3. QED  BY <3>1, <3>2, <1>8, <1>9
    <2>3. QED  BY <2>1, <2>2 DEF NoMintReverts
  <1>16. QED  BY <1>10, <1>11, <1>12, <1>13, <1>14, <1>15 DEF PacedInv

LEMMA MinePaced ==
    ASSUME IInv, PacedInv, NEW r \in Relayer, EthereumNext(r)
    PROVE  PacedInv'
  <1> DEFINE tx == Head(pool[r])
  <1>1. CASE MineRoot(r)
    BY <1>1, ReceivePaced DEF MineRoot, Dst!UpdateTrustedRoot
  <1>2. CASE MineMint(r)
    BY <1>2, ReceivePaced DEF MineMint, Dst!Mint
  <1>3. CASE MineRevert(r)
    <2>1. /\ tx.kind = "mint" /\ Receive(r, FALSE) /\ pool[r] # <<>>
          /\ ~Dst!MintAccepted(tx.proof, tx.root, tx.leaf, tx.recipient)
          /\ UNCHANGED <<chainVars, cosmosVars, relayerVars>>
      BY <1>3 DEF MineRevert
    <2>2. tx = pool[r][1] /\ 1 \in DOMAIN pool[r]
      BY <2>1 DEF IInv, TypeOK, EthereumTypeOK
    <2>3. SentOK(tx) /\ TxPaced(tx)
      BY <2>2 DEF IInv, PoolOK, PacedInv, PoolPaced
    <2>4. Locked(tx.job) => tx.recipient # ZeroAddress
      BY <2>1, <2>3 DEF SentOK, TxPaced, FirstLock, Locked
    <2>5. /\ tx.leaf = tx.job /\ tx.root = trustedBlockRoot
          /\ Dst!VerifyProof(tx.proof, tx.root, tx.leaf)
      BY <2>1, <2>3 DEF TxPaced, ProofFor, Dst!VerifyProof
    <2>6. Locked(tx.job) => tx.job \in processedTxs
      BY <2>1, <2>4, <2>5 DEF Dst!MintAccepted
    <2>7. trustedBlockRoot' = trustedBlockRoot /\ processedTxs' = processedTxs
      BY <2>1 DEF chainVars
    <2>8. QED  BY <2>1, <2>6, <2>7, ReceivePaced
  <1>4. QED  BY <1>1, <1>2, <1>3 DEF EthereumNext

(* A receipt names the goroutine that sent.                                *)
LEMMA MinedJob ==
    ASSUME IInv, NEW r \in Relayer, NEW i \in DOMAIN mined[r]
    PROVE  mined[r][i].job \in Tx
  <1>1. mined[r] \in Seq(EthReceipt)
    BY DEF IInv, TypeOK, EthereumTypeOK
  <1>2. mined[r][i] \in EthReceipt
    BY <1>1
  <1>3. QED  BY <1>2 DEF EthReceipt

(* The Cosmos chain.  A transaction is delivered only when nothing moves,  *)
(* and a block that is committed makes its transaction the latest.         *)
LEMMA CommitPaced ==
    ASSUME IInv, PacedInv, CommitBlock
    PROVE  PacedInv'
  <1>1. /\ openBlock \in Seq(Tx) /\ height \in Nat /\ blockOf \in [Tx -> Nat]
        /\ proc \in [Relayer -> {"down", "up", "stopping"}] /\ inbox \in [Relayer -> Seq(Tx)]
        /\ mined \in [Relayer -> Seq(EthReceipt)]
    BY DEF IInv, TypeOK, CosmosTypeOK, RelayerTypeOK, EthereumTypeOK
  <1>2. /\ openBlock # <<>> /\ Len(openBlock) = 1
        /\ \A r \in Relayer : inbox[r] = <<>> /\ Active(r) = {} /\ pool[r] = <<>>
    BY DEF CommitBlock, PacedInv, BlocksPaced, Quiet
  <1>3. PICK t \in Tx : openBlock = <<t>>
    <2>1. openBlock[1] \in Tx /\ openBlock = <<openBlock[1]>>
      BY <1>1, <1>2
    <2>2. QED  BY <2>1
  <1>4. blockOf[t] = 0 /\ Keep
    <2>1. openBlock[1] = t /\ 1 \in DOMAIN openBlock
      BY <1>3
    <2>2. CosmosNext
      BY DEF CosmosNext
    <2>3. QED  BY <2>1, <2>2, Stable DEF IInv, OpenOK
  <1>5. \A u : Contains(openBlock, u) <=> u = t
    BY <1>3 DEF Contains
  <1>6. /\ openBlock' = <<>> /\ height' = height + 1
        /\ \A u \in Tx : blockOf'[u] = IF u = t THEN height + 1 ELSE blockOf[u]
        /\ receipts' = receipts /\ jobs' = jobs /\ proofFile' = proofFile
        /\ pool' = pool /\ mined' = mined
        /\ trustedBlockRoot' = trustedBlockRoot /\ processedTxs' = processedTxs
    BY <1>5 DEF CommitBlock, ethVars
  <1>7. \A r \in Relayer : inbox'[r] \in {<<>>, <<t>>}
    <2>1. \A r \in Relayer : inbox'[r] = IF proc[r] = "down" THEN inbox[r] ELSE inbox[r] \o openBlock
      BY DEF CommitBlock
    <2>2. <<>> \o <<t>> = <<t>>
      OBVIOUS
    <2>3. QED  BY <2>1, <2>2, <1>2, <1>3
  <1>8. \A u \in Tx : blockOf[u] <= height /\ blockOf[u] \in Nat
    BY <1>1 DEF PacedInv, BlocksPaced
  <1>9. BlocksPaced'
    <2>1. \A u \in Tx : blockOf'[u] <= height'
      <3>1. height \in Nat /\ height' = height + 1
        BY <1>1, <1>6
      <3>2. ASSUME NEW u \in Tx
            PROVE  blockOf'[u] <= height'
        <4>1. blockOf'[u] \in {height + 1, blockOf[u]}
          BY <1>6
        <4>2. QED  BY <3>1, <4>1, <1>8
      <3>3. QED  BY <3>2
    <2>2. \A u, v \in Tx : blockOf'[u] = blockOf'[v] /\ blockOf'[u] > 0 => u = v
      <3>1. \A u, v \in Tx : blockOf[u] = blockOf[v] /\ blockOf[u] > 0 => u = v
        BY DEF PacedInv, BlocksPaced
      <3>2. \A u \in Tx : u # t => blockOf'[u] = blockOf[u] /\ blockOf'[u] # height + 1
        BY <1>1, <1>6, <1>8
      <3>3. blockOf'[t] = height + 1
        BY <1>6
      <3>4. QED  BY <3>1, <3>2, <3>3
    <2>3. QED  BY <2>1, <2>2, <1>6 DEF BlocksPaced
  <1>10. \A r \in Relayer : Active(r)' = {} /\ pool'[r] = <<>>
    BY <1>2, <1>6 DEF Active
  <1>11. InboxPaced'
    <2>1. Latest(t)'
      BY <1>1, <1>6 DEF Latest
    <2>2. QED  BY <2>1, <1>7, <1>10 DEF InboxPaced
  <1>12. PoolPaced'
    BY <1>10 DEF PoolPaced
  <1>13. \A r \in Relayer : \A i \in DOMAIN mined[r] :
            /\ mined[r][i].job \in Tx
            /\ blockOf[mined[r][i].job] > 0
            /\ blockOf'[mined[r][i].job] = blockOf[mined[r][i].job]
            /\ receipts'[mined[r][i].job] = receipts[mined[r][i].job]
    <2>1. \A r \in Relayer : \A i \in DOMAIN mined[r] : mined[r][i].job \in Tx
      BY MinedJob
    <2>2. QED  BY <2>1, <1>4 DEF PacedInv, MinedPaced, Keep
  <1>14. MinedPaced'
    <2>1. \A r \in Relayer : \A i \in DOMAIN mined[r] : blockOf'[mined[r][i].job] # height'
      BY <1>1, <1>6, <1>8, <1>13
    <2>2. QED  BY <2>1, <1>6, <1>13 DEF MinedPaced, Latest
  <1>15. JobsPaced'
    <2>1. ASSUME NEW r \in Relayer, NEW u \in Tx
          PROVE  JobPaced(u, jobs[r][u], PendingNonceAt(r), proofFile[r])'
      <3>1. jobs'[r][u].pc \notin Running
        BY <1>10 DEF Active
      <3>2. QED  BY <3>1 DEF JobPaced, Running
    <2>2. QED  BY <2>1 DEF JobsPaced
  <1>16. NoMintReverts'
    BY <1>6, <1>13 DEF PacedInv, NoMintReverts, Locked
  <1>17. QED  BY <1>9, <1>11, <1>12, <1>14, <1>15, <1>16 DEF PacedInv

LEMMA CosmosPaced ==
    ASSUME IInv, PacedInv, CosmosNext, Paced
    PROVE  PacedInv'
  <1>1. openBlock \in Seq(Tx)
    BY DEF IInv, TypeOK, CosmosTypeOK
  <1>2. ASSUME NEW t \in Tx, DeliverTx(t)
        PROVE  PacedInv'
    <2>1. openBlock' = Append(openBlock, t) /\ Len(openBlock') = Len(openBlock) + 1
      BY <1>1, <1>2, AppendProperties DEF DeliverTx
    <2>2. Idle
      BY <1>1, <2>1 DEF Paced
    <2>3. openBlock' = <<t>>
      BY <2>1, <2>2 DEF Idle
    <2>4. /\ height' = height /\ blockOf' = blockOf /\ receipts' = receipts /\ inbox' = inbox
          /\ jobs' = jobs /\ proofFile' = proofFile /\ pool' = pool /\ mined' = mined
          /\ trustedBlockRoot' = trustedBlockRoot /\ processedTxs' = processedTxs
      BY <1>2 DEF DeliverTx, relayerVars, ethVars
    <2>5. BlocksPaced'
      BY <2>2, <2>3, <2>4 DEF Idle, PacedInv, BlocksPaced, Quiet, Active
    <2>6. InboxPaced'
      BY <2>4 DEF PacedInv, InboxPaced, Active, Latest
    <2>7. PoolPaced' /\ MinedPaced' /\ NoMintReverts'
      <3>1. Moving' = Moving
        BY <2>4 DEF Moving, Quiet, Active
      <3>2. QED
        BY <3>1, <2>4
        DEF PacedInv, PoolPaced, TxPaced, ProofFor, MinedPaced, Latest, NoMintReverts, Locked
    <2>8. JobsPaced'
      BY <2>4 DEF PacedInv, JobsPaced, JobPaced, Latest, ProofFor, PendingNonceAt
    <2>9. QED  BY <2>5, <2>6, <2>7, <2>8 DEF PacedInv
  <1>3. ASSUME NEW t \in Tx, IndexTx(t)
        PROVE  PacedInv'
    BY <1>3, FramePaced DEF IndexTx, relayerVars
  <1>4. ASSUME NEW a \in Destination, NEW v \in Value, CallLock(a, v)
        PROVE  PacedInv'
    <2>1. /\ height' = height /\ openBlock' = openBlock /\ blockOf' = blockOf /\ inbox' = inbox
          /\ jobs' = jobs /\ proofFile' = proofFile /\ pool' = pool /\ mined' = mined
          /\ trustedBlockRoot' = trustedBlockRoot /\ processedTxs' = processedTxs
      BY <1>4 DEF CallLock, relayerVars, ethVars
    <2>2. Keep
      BY <1>4, Stable DEF CosmosNext, IInv
    <2>3. BlocksPaced' /\ InboxPaced'
      BY <2>1 DEF PacedInv, BlocksPaced, InboxPaced, Quiet, Active, Latest
    <2>4. PoolPaced' /\ MinedPaced'
      <3>1. Moving' = Moving
        BY <2>1 DEF Moving, Quiet, Active
      <3>2. QED  BY <3>1, <2>1 DEF PacedInv, PoolPaced, TxPaced, ProofFor, MinedPaced, Latest
    <2>5. JobsPaced'
      BY <2>1 DEF PacedInv, JobsPaced, JobPaced, Latest, ProofFor, PendingNonceAt
    <2>6. NoMintReverts'
      <3>1. \A r \in Relayer : \A i \in DOMAIN mined[r] : mined[r][i].job \in Tx
        BY MinedJob
      <3>2. \A r \in Relayer : \A i \in DOMAIN mined[r] :
                receipts'[mined[r][i].job] = receipts[mined[r][i].job]
        BY <3>1, <2>2 DEF PacedInv, MinedPaced, Keep
      <3>3. QED  BY <2>1, <3>2 DEF PacedInv, NoMintReverts, Locked
    <2>7. QED  BY <2>3, <2>4, <2>5, <2>6 DEF PacedInv
  <1>5. QED  BY <1>2, <1>3, <1>4, CommitPaced DEF CosmosNext

(* What other accounts do between two locks is in nobody's way.            *)
LEMMA OthersPaced ==
    ASSUME IInv, PacedInv, OthersNext, Idle
    PROVE  PacedInv'
  <1>1. /\ openBlock' = openBlock /\ height' = height /\ blockOf' = blockOf
        /\ receipts' = receipts /\ inbox' = inbox /\ jobs' = jobs /\ proofFile' = proofFile
        /\ pool' = pool /\ mined' = mined /\ processedTxs \subseteq processedTxs'
    BY OthersFrame DEF cosmosVars, relayerVars
  <1>2. \A r \in Relayer : Quiet(r)'
    BY <1>1 DEF Idle, Quiet, Active
  <1>3. BlocksPaced'
    BY <1>1, <1>2 DEF PacedInv, BlocksPaced
  <1>4. InboxPaced' /\ PoolPaced'
    BY <1>2 DEF Quiet, InboxPaced, PoolPaced
  <1>5. MinedPaced'
    BY <1>1, <1>2 DEF PacedInv, MinedPaced, Moving
  <1>6. JobsPaced'
    <2>1. ASSUME NEW r \in Relayer, NEW u \in Tx
          PROVE  JobPaced(u, jobs[r][u], PendingNonceAt(r), proofFile[r])'
      <3>1. jobs'[r][u].pc \notin Running
        BY <1>2 DEF Quiet, Active
      <3>2. QED  BY <3>1 DEF JobPaced, Running
    <2>2. QED  BY <2>1 DEF JobsPaced
  <1>7. NoMintReverts'
    BY <1>1 DEF PacedInv, NoMintReverts, Locked
  <1>8. QED  BY <1>3, <1>4, <1>5, <1>6, <1>7 DEF PacedInv

LEMMA NextPaced ==
    ASSUME IInv, PacedInv, ~Faulty, ~Repricing, [PacedNext]_vars
    PROVE  PacedInv'
  <1>1. TypeOK
    BY DEF IInv
  <1>2. CASE CosmosNext /\ Paced
    BY <1>2, CosmosPaced
  <1>3. ASSUME NEW r \in Relayer, RelayerNext(r)
        PROVE  PacedInv'
    <2>1. ASSUME NEW t \in Tx, JobStep(r, t)
          PROVE  PacedInv'
      BY <2>1, BeforePaced, SendPaced DEF JobStep
    <2>2. CASE Start(r) \/ Interrupt(r)
      BY <2>2, FramePaced DEF Start, Interrupt, cosmosVars
    <2>3. CASE ReadMessage(r)
      BY <2>3, <1>1, ReadPaced
    <2>4. CASE Exit(r)
      BY <2>4, <1>1, DiePaced DEF Exit
    <2>5. QED  BY <2>1, <2>2, <2>3, <2>4, <1>3 DEF RelayerNext
  <1>4. ASSUME NEW r \in Relayer, EthereumNext(r)
        PROVE  PacedInv'
    BY <1>4, MinePaced
  <1>5. CASE UNCHANGED vars
    BY <1>5, FramePaced DEF vars, cosmosVars, relayerVars
  <1>6. CASE OthersNext /\ Idle
    BY <1>6, OthersPaced
  <1>7. QED  BY <1>2, <1>3, <1>4, <1>5, <1>6 DEF PacedNext

LEMMA InitPaced == Init => PacedInv
  BY DEF Init, Dst!Init, At, Active, Running, PacedInv, BlocksPaced, InboxPaced, PoolPaced,
         MinedPaced, JobsPaced, JobPaced, NoMintReverts

(* When locks are made one at a time, other accounts call the contract     *)
(* only between two locks, calls do not fail and the pool replaces         *)
(* nothing, a mint that is mined for a lock that can be paid               *)
(* either succeeds or comes after another process's mint for the same      *)
(* transaction: no process's root update pulls the root from under it.     *)
THEOREM MintsDoNotRevert ==
    ASSUME ~Faulty, ~Repricing
    PROVE  PacedSpec => []NoMintReverts
  <1>1. Init => PacedInv
    BY InitPaced
  <1>2. IInv /\ PacedInv /\ [PacedNext]_vars => PacedInv'
    BY NextPaced
  <1>3. [PacedNext]_vars => [Next]_vars
    BY DEF PacedNext, Next
  <1>4. PacedInv => NoMintReverts
    BY DEF PacedInv
  <1>5. Init => IInv
    BY InitIInv
  <1>6. IInv /\ [Next]_vars => IInv'
    BY NextIInv
  <1>7. QED  BY <1>1, <1>2, <1>3, <1>4, <1>5, <1>6, PTL DEF PacedSpec

-----------------------------------------------------------------------------
(* At rest.  Every committed transaction is in the hands of a relayer that *)
(* is not going to stop, from the block it is committed in to the mint     *)
(* that is sent for it; and no mint succeeds without its effect.           *)

\* A goroutine that goes on, has sent its mint, or had nothing to mint for;
\* or that cannot be helped, because its receipt cannot be read.
Cared(t, job) ==
    \/ t \in Topicless
    \/ job.pc \in Running
    \/ job.pc = "complete"
    \/ job.pc = "skipped" /\ receipts[t] = <<>>

Handled(r, t) == inbox[r] = <<t>> \/ Cared(t, jobs[r][t])

\* Somebody hears of the block that is being built.
Heard == openBlock # <<>> => \E r \in Relayer \ Stoppable : proc[r] = "up"

\* Only an EVM transaction can have called lock.
OnlyEvmLocks == \A t \in Tx : receipts[t] # <<>> => t \in EvmTx

AllHandled == \A t \in Tx : blockOf[t] > 0 => \E r \in Relayer \ Stoppable : Handled(r, t)

MintsCount ==
    \A r \in Relayer : \A i \in DOMAIN mined[r] :
        mined[r][i].kind = "mint" /\ mined[r][i].ok => mined[r][i].job \in processedTxs

RestInv == Heard /\ OnlyEvmLocks /\ AllHandled /\ MintsCount

(* The file that the goroutine at work reads is whole.                     *)
LEMMA NoPanic ==
    ASSUME IInv, PacedInv, NEW r \in Relayer, NEW t \in Tx
    PROVE  ~MintPanic(r, t)
  <1> SUFFICES ASSUME MintPanic(r, t) PROVE FALSE
    OBVIOUS
  <1>1. JobPaced(t, jobs[r][t], PendingNonceAt(r), proofFile[r])
    BY DEF PacedInv, JobsPaced
  <1>2. proofFile[r] = ProofFor(t) /\ proofFile[r] \notin Dst!Proof
    BY <1>1 DEF MintPanic, JobPaced
  <1>3. ProofFor(t) \in Dst!Proof
    BY DEF ProofFor, Dst!Proof, IInv, TypeOK, CosmosTypeOK
  <1>4. QED  BY <1>2, <1>3

(* A goroutine that takes a step is still cared for after it: it is never  *)
(* out of attempts, its block has one transaction, its file is whole and   *)
(* its nonce is the next one.  Only a receipt with a log without topics    *)
(* ends it.                                                                *)
LEMMA StepCares ==
    ASSUME IInv, PacedInv, OnlyEvmLocks, ~Faulty, ~LateIndex,
           NEW r \in Relayer, NEW t \in Tx, JobStep(r, t), ~LookupPanic(r, t)
    PROVE  \E job : SetJob(r, t, job) /\ Cared(t, job)
  <1> DEFINE job == jobs[r][t]
  <1>1. job \in Job /\ jobs \in [Relayer -> [Tx -> Job]] /\ mined \in [Relayer -> Seq(EthReceipt)]
        /\ pool \in [Relayer -> Seq(EthTx)] /\ TypeOK
    BY DEF IInv, TypeOK, RelayerTypeOK, EthereumTypeOK
  <1>2. JobPaced(t, job, PendingNonceAt(r), proofFile[r])
    BY DEF PacedInv, JobsPaced
  <1>3. ASSUME NEW pc \in Running, Goto(r, t, pc)
        PROVE  \E next : SetJob(r, t, next) /\ Cared(t, next)
    <2>1. [job EXCEPT !.pc = pc].pc = pc
      BY <1>1 DEF Job
    <2>2. QED  BY <2>1, <1>3 DEF Goto, Cared
  <1>4. ASSUME End(r, t, "complete") \/ (End(r, t, "skipped") /\ receipts[t] = <<>>)
        PROVE  \E next : SetJob(r, t, next) /\ Cared(t, next)
    <2>1. At("complete").pc = "complete" /\ At("skipped").pc = "skipped"
      BY DEF At
    <2>2. QED  BY <2>1, <1>4 DEF End, Cared
  <1>5. CASE FetchTx(r, t)
    BY <1>3, <1>4, <1>5 DEF FetchTx, OnlyEvmLocks, Running
  <1>6. CASE FetchMiss(r, t)
    <2>1. SetJob(r, t, [job EXCEPT !.tries = @ + 1]) /\ job.pc = "fetch"
      BY <1>6 DEF FetchMiss
    <2>2. [job EXCEPT !.tries = @ + 1].pc = "fetch"
      BY <1>1, <2>1 DEF Job
    <2>3. QED  BY <2>1, <2>2 DEF Cared, Running
  <1>7. CASE LookupLock(r, t)
    <2> DEFINE found == [job EXCEPT !.pc = "prove",
                                    !.recipient = receipts[t][1].ethDestination,
                                    !.amount = receipts[t][1].amount]
    <2>1. found.pc = "prove"
      BY <1>1 DEF Job
    <2>2. SetJob(r, t, found) \/ (End(r, t, "skipped") /\ receipts[t] = <<>>)
      BY <1>7 DEF LookupLock
    <2>3. QED  BY <2>1, <2>2, <1>4 DEF Cared, Running
  <1>8. CASE Prove(r, t)
    <2>1. [job EXCEPT !.pc = "write", !.root = blockOf[t], !.leaf = t].pc = "write"
      BY <1>1 DEF Job
    <2>2. QED  BY <2>1, <1>8 DEF Prove, Cared, Running
  <1>9. CASE ProveFail(r, t)
    <2>1. job.pc \in Running /\ InLargeBlock(t)
      BY <1>9 DEF ProveFail, Running
    <2>2. PICK u \in Tx \ {t} : blockOf[u] = blockOf[t]
      BY <2>1 DEF InLargeBlock
    <2>3. blockOf[t] > 0
      BY <2>1 DEF IInv, JobsOK, JobOK, Running
    <2>4. QED  BY <2>2, <2>3 DEF PacedInv, BlocksPaced
  <1>10. CASE WriteProof(r, t) \/ RootMined(r, t)
    BY <1>3, <1>10 DEF WriteProof, RootMined, Running
  <1>11. CASE RootNonce(r, t)
    <2>1. [job EXCEPT !.pc = "rootSend", !.nonce = PendingNonceAt(r)].pc = "rootSend"
      BY <1>1 DEF Job
    <2>2. QED  BY <2>1, <1>11 DEF RootNonce, Cared, Running
  <1>12. CASE RootSend(r, t)
    BY <1>3, <1>12 DEF RootSend, Running
  <1>13. CASE MintNonce(r, t)
    <2>1. \A nonce : [job EXCEPT !.pc = "mintRead", !.nonce = nonce].pc = "mintRead"
      BY <1>1 DEF Job
    <2>2. QED  BY <2>1, <1>13 DEF MintNonce, Cared, Running
  <1>14. CASE MintRead(r, t)
    <2>1. [job EXCEPT !.pc = "mintSend", !.proof = proofFile[r]].pc = "mintSend"
      BY <1>1 DEF Job
    <2>2. QED  BY <2>1, <1>14 DEF MintRead, Cared, Running
  <1>15. ~MintPanic(r, t)
    BY NoPanic
  <1>16. CASE MintSend(r, t)
    <2>1. PendingNonceAt(r) \in Nat
      BY <1>1 DEF PendingNonceAt
    <2>2. job.nonce = PendingNonceAt(r)
      BY <1>2, <1>16 DEF MintSend, JobPaced
    <2>3. ~Refused(r, job.nonce)
      BY <2>1, <2>2 DEF Refused
    <2>4. QED  BY <2>3, <1>4, <1>16 DEF MintSend
  <1>17. QED
    BY <1>5, <1>6, <1>7, <1>8, <1>9, <1>10, <1>11, <1>12, <1>13, <1>14, <1>15, <1>16
    DEF JobStep, LookupFail, RootFail, NoChainID, MintFail

(* What a goroutine's step leaves alone.                                   *)
LEMMA JobStepFrame ==
    ASSUME ~Faulty, NEW r \in Relayer, NEW t \in Tx, JobStep(r, t),
           ~MintPanic(r, t), ~LookupPanic(r, t)
    PROVE  UNCHANGED <<proc, inbox, cosmosVars, mined, chainVars>>
  <1>1. CASE FetchTx(r, t) \/ FetchMiss(r, t) \/ LookupLock(r, t) \/ Prove(r, t)
             \/ WriteProof(r, t) \/ ProveFail(r, t)
    BY <1>1 DEF FetchTx, FetchMiss, LookupLock, Prove, WriteProof, ProveFail, ethVars, chainVars
  <1>2. CASE RootNonce(r, t) \/ RootMined(r, t) \/ MintNonce(r, t) \/ MintRead(r, t)
    BY <1>2 DEF RootNonce, RootMined, MintNonce, MintRead, ethVars, chainVars
  <1>3. CASE RootSend(r, t) \/ MintSend(r, t)
    BY <1>3 DEF RootSend, MintSend
  <1>4. QED
    BY <1>1, <1>2, <1>3 DEF JobStep, LookupFail, RootFail, NoChainID, MintFail

(* The panic on such a receipt takes no other goroutine with it.           *)
LEMMA PanicAlone ==
    ASSUME IInv, PacedInv, NEW r \in Relayer, NEW t \in Tx, LookupPanic(r, t)
    PROVE  /\ t \in Topicless /\ openBlock = <<>>
           /\ UNCHANGED <<inbox, cosmosVars, mined, chainVars>>
           /\ \A s \in Relayer, u \in Tx : ~(s = r /\ u = t) => jobs'[s][u] = jobs[s][u]
  <1>1. /\ jobs \in [Relayer -> [Tx -> Job]] /\ inbox \in [Relayer -> Seq(Tx)] /\ TypeOK
    BY DEF IInv, TypeOK, RelayerTypeOK
  <1>2. t \in Active(r) /\ t \in Topicless /\ Die(r) /\ UNCHANGED <<cosmosVars, ethVars>>
    BY DEF LookupPanic, Active, Running
  <1>3. /\ inbox[r] = <<>> /\ openBlock = <<>>
        /\ \A u \in Tx : u # t => u \notin Active(r)
    BY <1>1, <1>2, Alone DEF Active
  <1>4. inbox' = inbox
    BY <1>1, <1>2, <1>3 DEF Die
  <1>5. \A s \in Relayer, u \in Tx : ~(s = r /\ u = t) => jobs'[s][u] = jobs[s][u]
    BY <1>1, <1>2, <1>3 DEF Die
  <1>6. QED  BY <1>2, <1>3, <1>4, <1>5 DEF ethVars, chainVars

(* A relayer that does not stop lets go of no transaction.                 *)
LEMMA StaysHandled ==
    ASSUME IInv, PacedInv, OnlyEvmLocks, ~Faulty, ~LateIndex, NEW s \in Relayer, RelayerNext(s),
           NEW r \in Relayer \ Stoppable, NEW t \in Tx, Handled(r, t)
    PROVE  Handled(r, t)'
  <1>1. /\ jobs \in [Relayer -> [Tx -> Job]] /\ inbox \in [Relayer -> Seq(Tx)]
    BY DEF IInv, TypeOK, RelayerTypeOK
  <1>2. CASE Start(s) \/ Interrupt(s)
    BY <1>2 DEF Start, Interrupt, Handled, Cared, cosmosVars
  <1>3. CASE Exit(s)
    <2>1. s # r /\ receipts' = receipts
      BY <1>3 DEF Exit, cosmosVars
    <2>2. inbox'[r] = inbox[r] /\ jobs'[r] = jobs[r]
      BY <1>1, <1>3, <2>1 DEF Exit, Die
    <2>3. QED  BY <2>1, <2>2 DEF Handled, Cared
  <1>4. CASE ReadMessage(s)
    <2>1. PICK u \in Tx : inbox[s] = <<u>>
      BY <1>4 DEF ReadMessage, PacedInv, InboxPaced
    <2>2. Head(inbox[s]) = u
      BY <2>1
    <2>3. /\ \A q \in Relayer : q # s => inbox'[q] = inbox[q]
          /\ \A q \in Relayer, v \in Tx :
                jobs'[q][v] = IF q = s /\ v = u THEN At("fetch") ELSE jobs[q][v]
          /\ receipts' = receipts
      BY <1>1, <1>4, <2>2 DEF ReadMessage, SetJob, cosmosVars
    <2>4. CASE r = s /\ t = u
      BY <2>3, <2>4 DEF Handled, Cared, At, Running
    <2>5. CASE r = s /\ t # u
      <3>1. inbox[r] # <<t>>
        <4>1. inbox[r][1] = u
          BY <2>1, <2>5
        <4>2. QED  BY <4>1, <2>5
      <3>2. QED  BY <3>1, <2>3, <2>5 DEF Handled, Cared
    <2>6. CASE r # s
      BY <2>3, <2>6 DEF Handled, Cared
    <2>7. QED  BY <2>4, <2>5, <2>6
  <1>5. ASSUME NEW u \in Tx, LookupPanic(s, u)
        PROVE  Handled(r, t)'
    <2>1. /\ u \in Topicless /\ inbox' = inbox /\ receipts' = receipts
          /\ ~(r = s /\ t = u) => jobs'[r][t] = jobs[r][t]
      BY <1>5, PanicAlone DEF cosmosVars
    <2>2. QED  BY <2>1 DEF Handled, Cared
  <1>6. ASSUME NEW u \in Tx, JobStep(s, u), ~LookupPanic(s, u)
        PROVE  Handled(r, t)'
    <2>1. PICK job : SetJob(s, u, job) /\ Cared(u, job)
      BY <1>6, StepCares
    <2>2. ~MintPanic(s, u)
      BY <1>6, NoPanic
    <2>3. inbox' = inbox /\ receipts' = receipts
      BY <2>2, <1>6, JobStepFrame DEF cosmosVars
    <2>4. \A q \in Relayer, v \in Tx : jobs'[q][v] = IF q = s /\ v = u THEN job ELSE jobs[q][v]
      BY <1>1, <2>1 DEF SetJob
    <2>5. QED  BY <2>1, <2>3, <2>4 DEF Handled, Cared
  <1>7. QED  BY <1>2, <1>3, <1>4, <1>5, <1>6 DEF RelayerNext

LEMMA RelayerRests ==
    ASSUME IInv, PacedInv, RestInv, ~Faulty, ~LateIndex, NEW s \in Relayer, RelayerNext(s)
    PROVE  RestInv'
  <1>1. /\ UNCHANGED <<cosmosVars, mined, chainVars>>
        /\ \/ openBlock = <<>>
           \/ \A r \in Relayer \ Stoppable : proc[r] = "up" => proc'[r] = "up"
    <2>1. proc \in [Relayer -> {"down", "up", "stopping"}]
      BY DEF IInv, TypeOK, RelayerTypeOK
    <2>2. CASE Start(s) \/ ReadMessage(s)
      BY <2>1, <2>2 DEF Start, ReadMessage, ethVars, chainVars
    <2>3. CASE Interrupt(s) \/ Exit(s)
      BY <2>1, <2>3 DEF Interrupt, Exit, Die, ethVars, chainVars
    <2>4. ASSUME NEW t \in Tx, JobStep(s, t), ~LookupPanic(s, t)
          PROVE  UNCHANGED <<proc, cosmosVars, mined, chainVars>>
      BY <2>4, NoPanic, JobStepFrame
    <2>5. ASSUME NEW t \in Tx, LookupPanic(s, t)
          PROVE  openBlock = <<>> /\ UNCHANGED <<cosmosVars, mined, chainVars>>
      BY <2>5, PanicAlone
    <2>6. QED  BY <2>2, <2>3, <2>4, <2>5 DEF RelayerNext
  <1>2. Heard' /\ OnlyEvmLocks' /\ MintsCount'
    BY <1>1 DEF RestInv, Heard, OnlyEvmLocks, MintsCount, cosmosVars, chainVars
  <1>3. AllHandled'
    <2>1. blockOf' = blockOf
      BY <1>1 DEF cosmosVars
    <2>2. \A r \in Relayer \ Stoppable, t \in Tx : Handled(r, t) => Handled(r, t)'
      BY StaysHandled DEF RestInv
    <2>3. QED  BY <2>1, <2>2 DEF RestInv, AllHandled
  <1>4. QED  BY <1>2, <1>3 DEF RestInv

(* Mining only adds receipts; one of a mint that succeeded names a         *)
(* transaction that has been processed.                                    *)
LEMMA ReceiveRests ==
    ASSUME IInv, RestInv, NEW s \in Relayer, NEW ok \in BOOLEAN, pool[s] # <<>>, Receive(s, ok),
           UNCHANGED <<cosmosVars, relayerVars>>, processedTxs \subseteq processedTxs',
           Head(pool[s]).kind = "mint" /\ ok => Head(pool[s]).job \in processedTxs'
    PROVE  RestInv'
  <1> DEFINE e == [kind |-> Head(pool[s]).kind, job |-> Head(pool[s]).job, ok |-> ok]
  <1>1. /\ pool[s] \in Seq(EthTx)
        /\ mined \in [Relayer -> Seq(EthReceipt)] /\ mined[s] \in Seq(EthReceipt)
        /\ mined' = [mined EXCEPT ![s] = Append(@, e)]
    BY DEF IInv, TypeOK, EthereumTypeOK, Receive
  <1>2. e \in EthReceipt
    <2>1. Head(pool[s]) \in EthTx
      BY <1>1, HeadTailProperties
    <2>2. QED  BY <2>1 DEF EthTx, EthReceipt
  <1>3. /\ mined'[s] = Append(mined[s], e)
        /\ \A r \in Relayer : r # s => mined'[r] = mined[r]
        /\ \A i \in DOMAIN Append(mined[s], e) :
              \/ Append(mined[s], e)[i] = e
              \/ i \in DOMAIN mined[s] /\ Append(mined[s], e)[i] = mined[s][i]
    BY <1>1, <1>2, AppendProperties
  <1>4. MintsCount'
    <2> DEFINE Good(y) == y.kind = "mint" /\ y.ok => y.job \in processedTxs'
    <2>1. \A r \in Relayer : \A i \in DOMAIN mined[r] : Good(mined[r][i])
      BY DEF RestInv, MintsCount
    <2>2. Good(e)
      OBVIOUS
    <2> HIDE DEF Good
    <2>3. ASSUME NEW r \in Relayer, NEW i \in DOMAIN mined'[r]
          PROVE  Good(mined'[r][i])
      <3>1. CASE r = s
        BY <3>1, <2>1, <2>2, <1>3
      <3>2. CASE r # s
        BY <3>2, <2>1, <1>3
      <3>3. QED  BY <3>1, <3>2
    <2>4. QED  BY <2>3 DEF MintsCount, Good
  <1>5. Heard' /\ OnlyEvmLocks' /\ AllHandled'
    BY DEF RestInv, Heard, OnlyEvmLocks, AllHandled, Handled, Cared, cosmosVars, relayerVars
  <1>6. QED  BY <1>4, <1>5 DEF RestInv

LEMMA MineRests ==
    ASSUME IInv, PacedInv, RestInv, NEW s \in Relayer, EthereumNext(s)
    PROVE  RestInv'
  <1> DEFINE tx == Head(pool[s])
  <1>1. CASE MineRoot(s)
    BY <1>1, ReceiveRests DEF MineRoot, Dst!UpdateTrustedRoot
  <1>2. CASE MineMint(s)
    <2>1. /\ pool[s] # <<>> /\ tx.kind = "mint" /\ Receive(s, TRUE)
          /\ processedTxs' = processedTxs \cup {tx.leaf}
          /\ UNCHANGED <<cosmosVars, relayerVars>>
      BY <1>2 DEF MineMint, Dst!Mint
    <2>2. tx = pool[s][1] /\ 1 \in DOMAIN pool[s]
      BY <2>1 DEF IInv, TypeOK, EthereumTypeOK
    <2>3. tx.leaf = tx.job
      BY <2>1, <2>2 DEF PacedInv, PoolPaced, TxPaced
    <2>4. QED  BY <2>1, <2>3, ReceiveRests
  <1>3. CASE MineRevert(s)
    BY <1>3, ReceiveRests DEF MineRevert, chainVars
  <1>4. QED  BY <1>1, <1>2, <1>3 DEF EthereumNext

LEMMA CosmosRests ==
    ASSUME IInv, PacedInv, RestInv, CosmosNext, Paced
    PROVE  RestInv'
  <1>1. /\ openBlock \in Seq(Tx) /\ blockOf \in [Tx -> Nat] /\ inbox \in [Relayer -> Seq(Tx)]
        /\ receipts \in [Tx -> Seq(Src!LockDetails)] /\ height \in Nat
    BY DEF IInv, TypeOK, CosmosTypeOK, RelayerTypeOK
  <1>2. UNCHANGED <<jobs, proc, mined, processedTxs>> /\ Keep
    <2>1. UNCHANGED <<jobs, proc, mined, processedTxs>>
      BY DEF CosmosNext, DeliverTx, IndexTx, CallLock, CommitBlock, relayerVars, ethVars
    <2>2. QED  BY <2>1, Stable DEF IInv
  <1>3. MintsCount'
    BY <1>2 DEF RestInv, MintsCount
  <1>4. ASSUME UNCHANGED <<blockOf, inbox>>
        PROVE  AllHandled'
    <2>1. ASSUME NEW t \in Tx, blockOf[t] > 0, NEW r \in Relayer, Handled(r, t)
          PROVE  Handled(r, t)'
      BY <2>1, <1>2, <1>4 DEF Keep, Handled, Cared
    <2>2. QED  BY <2>1, <1>4 DEF RestInv, AllHandled
  <1>5. ASSUME NEW t \in Tx, DeliverTx(t)
        PROVE  RestInv'
    <2>1. openBlock' = Append(openBlock, t) /\ Len(openBlock') > Len(openBlock)
      BY <1>1, <1>5, AppendProperties DEF DeliverTx
    <2>2. Heard'
      BY <1>2, <2>1 DEF Paced, Heeded, Heard
    <2>3. OnlyEvmLocks' /\ AllHandled'
      BY <1>4, <1>5 DEF DeliverTx, RestInv, OnlyEvmLocks, relayerVars
    <2>4. QED  BY <1>3, <2>2, <2>3 DEF RestInv
  <1>6. ASSUME NEW t \in Tx, IndexTx(t)
        PROVE  RestInv'
    BY <1>2, <1>3, <1>4, <1>6 DEF IndexTx, RestInv, Heard, OnlyEvmLocks, relayerVars
  <1>7. ASSUME NEW a \in Destination, NEW v \in Value, CallLock(a, v)
        PROVE  RestInv'
    <2>1. OnlyEvmLocks'
      <3> DEFINE t == openBlock[Len(openBlock)]
      <3>1. t \in EvmTx
        BY <1>7 DEF CallLock
      <3>2. \A u \in Tx : u # t => receipts'[u] = receipts[u]
        BY <1>1, <1>7 DEF CallLock
      <3>3. QED  BY <3>1, <3>2 DEF RestInv, OnlyEvmLocks
    <2>2. Heard' /\ AllHandled'
      BY <1>2, <1>4, <1>7 DEF CallLock, RestInv, Heard, relayerVars
    <2>3. QED  BY <1>3, <2>1, <2>2 DEF RestInv
  <1>8. CASE CommitBlock
    <2>1. /\ openBlock # <<>> /\ Len(openBlock) = 1
          /\ \A r \in Relayer : inbox[r] = <<>>
      BY <1>8 DEF CommitBlock, PacedInv, BlocksPaced, Quiet
    <2>2. PICK t \in Tx : openBlock = <<t>>
      <3>1. openBlock[1] \in Tx /\ openBlock = <<openBlock[1]>>
        BY <1>1, <2>1
      <3>2. QED  BY <3>1
    <2>3. /\ openBlock' = <<>> /\ receipts' = receipts
          /\ \A u \in Tx : u # t => blockOf'[u] = blockOf[u]
      BY <1>8, <2>2 DEF CommitBlock, Contains
    <2>4. PICK q \in Relayer \ Stoppable : proc[q] = "up"
      BY <2>1 DEF RestInv, Heard
    <2>5. Handled(q, t)'
      <3>1. inbox'[q] = inbox[q] \o openBlock
        BY <1>8, <2>4 DEF CommitBlock
      <3>2. <<>> \o <<t>> = <<t>>
        OBVIOUS
      <3>3. QED  BY <3>1, <3>2, <2>1, <2>2 DEF Handled
    <2>6. ASSUME NEW u \in Tx, blockOf'[u] > 0
          PROVE  \E r \in Relayer \ Stoppable : Handled(r, u)'
      <3>1. CASE u = t
        BY <3>1, <2>5
      <3>2. CASE u # t
        <4>1. PICK r \in Relayer \ Stoppable : Handled(r, u)
          BY <3>2, <2>3, <2>6 DEF RestInv, AllHandled
        <4>2. Cared(u, jobs[r][u])
          BY <4>1, <2>1 DEF Handled
        <4>3. QED  BY <4>2, <2>3, <1>2 DEF Handled, Cared
      <3>3. QED  BY <3>1, <3>2
    <2>7. QED  BY <1>3, <2>3, <2>6 DEF RestInv, Heard, OnlyEvmLocks, AllHandled
  <1>9. QED  BY <1>5, <1>6, <1>7, <1>8 DEF CosmosNext

LEMMA NextRests ==
    ASSUME IInv, PacedInv, RestInv, ~Faulty, ~LateIndex, [PacedNext]_vars
    PROVE  RestInv'
  <1>1. CASE PacedNext
    <2>1. ASSUME OthersNext
          PROVE  RestInv'
      BY <2>1, OthersFrame DEF cosmosVars, relayerVars, RestInv, Heard, OnlyEvmLocks, AllHandled,
                               Handled, Cared, MintsCount
    <2>2. QED  BY <2>1, <1>1, CosmosRests, RelayerRests, MineRests DEF PacedNext
  <1>2. CASE UNCHANGED vars
    BY <1>2 DEF vars, cosmosVars, relayerVars, ethVars, RestInv, Heard, OnlyEvmLocks, AllHandled,
                Handled, Cared, MintsCount
  <1>3. QED  BY <1>1, <1>2

(* What is handled and not on its way any more has been minted for.        *)
LEMMA RestIsMinted ==
    ASSUME IInv, PacedInv, SubmittedInv, RestInv
    PROVE  AtRestAllMinted
  <1> SUFFICES ASSUME Idle, NEW t \in Tx, Locked(t), t \notin Topicless
               PROVE  t \in processedTxs
    BY DEF AtRestAllMinted, Readable
  <1>1. PICK r \in Relayer \ Stoppable : Handled(r, t)
    BY DEF Locked, RestInv, AllHandled
  <1>2. inbox[r] = <<>> /\ Active(r) = {} /\ pool[r] = <<>>
    BY DEF Idle
  <1>3. jobs[r][t].pc = "complete"
    <2>1. inbox[r] # <<t>>
      BY <1>2
    <2>2. jobs[r][t].pc \notin Running
      BY <1>2 DEF Active
    <2>3. receipts[t] # <<>>
      BY DEF Locked
    <2>4. QED  BY <1>1, <2>1, <2>2, <2>3 DEF Handled, Cared
  <1>4. PICK i \in DOMAIN mined[r] : mined[r][i].kind = "mint" /\ mined[r][i].job = t
    BY <1>2, <1>3 DEF SubmittedInv, CompleteIsSubmitted
  <1>5. mined[r][i].ok \/ mined[r][i].job \in processedTxs
    BY <1>4 DEF PacedInv, NoMintReverts
  <1>6. QED  BY <1>4, <1>5 DEF RestInv, MintsCount

(* When locks are made one at a time while a relayer listens that is not   *)
(* going to stop, calls do not fail, the pool replaces nothing and the     *)
(* index is not too late, then the relayer loses no lock whose receipt it  *)
(* can read: whenever nothing is on its way any more, every such lock that *)
(* can be paid has been minted for.  A receipt with a log without topics   *)
(* ahead of its Lock event is the exception: it ends the process.          *)
THEOREM RestMeansMinted ==
    ASSUME ~Faulty, ~LateIndex, ~Repricing
    PROVE  PacedSpec => []AtRestAllMinted
  <1>1. Init => PacedInv /\ SubmittedInv /\ RestInv
    <2> SUFFICES ASSUME Init PROVE PacedInv /\ SubmittedInv /\ RestInv
      OBVIOUS
    <2>1. PacedInv
      BY InitPaced
    <2>2. SubmittedInv
      BY DEF Init, At, SubmittedInv, WaitsForSent, CompleteIsSubmitted
    <2>3. RestInv
      BY DEF Init, RestInv, Heard, OnlyEvmLocks, AllHandled, MintsCount
    <2>4. QED  BY <2>1, <2>2, <2>3
  <1>2. IInv /\ PacedInv /\ [PacedNext]_vars => PacedInv'
    BY NextPaced
  <1>3. IInv /\ SubmittedInv /\ [Next]_vars => SubmittedInv'
    BY SubmittedStep
  <1>4. IInv /\ PacedInv /\ RestInv /\ [PacedNext]_vars => RestInv'
    BY NextRests
  <1>5. [PacedNext]_vars => [Next]_vars
    BY DEF PacedNext, Next
  <1>6. IInv /\ PacedInv /\ SubmittedInv /\ RestInv => AtRestAllMinted
    BY RestIsMinted
  <1>7. Init => IInv
    BY InitIInv
  <1>8. IInv /\ [Next]_vars => IInv'
    BY NextIInv
  <1>9. QED  BY <1>1, <1>2, <1>3, <1>4, <1>5, <1>6, <1>7, <1>8, PTL DEF PacedSpec
=============================================================================
