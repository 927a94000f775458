------------------------------ MODULE EvmdApp ------------------------------
(***************************************************************************)
(* The life of an evmd node's application (evmd/app.go, upgrades.go,       *)
(* cmd/evmd/cmd/root.go): it is put together, loads the last height, is    *)
(* given a genesis or blocks, goes through an upgrade with the next        *)
(* binary, may fail or crash at any moment and is started again.           *)
(*                                                                         *)
(* CometBFT, the operator and the SDK's modules are external: of a module  *)
(* there is what its place in the order of modules matters for.            *)
(***************************************************************************)
EXTENDS Naturals, Sequences

CONSTANTS
    PlanHeight,     \* the height the upgrade is planned for
    MaxHeight,      \* bound on the heights of the chain
    MaxCrashes,     \* bound on the crashes of the node
    TxGas, GovGas,  \* gas of a block's transactions, and of its proposals
    None

ASSUME EvmdAppAssumption ==
    /\ PlanHeight \in Nat /\ PlanHeight > 1
    /\ MaxHeight \in Nat /\ MaxCrashes \in Nat
    /\ TxGas \subseteq Nat /\ GovGas \subseteq Nat
    /\ None \notin Nat

VARIABLES
    skipped,        \* --unsafe-skip-upgrades has the height of the plan
    genesisOK,      \* the genesis file of a new chain is well formed
    migrates,       \* the state can be migrated: the handler of the upgrade returns no error
    binary,         \* "old" or "new", the one with the handler
    phase, j,       \* what the application is doing, and at which module
    work,           \* the state that is being changed
    coinInfo,       \* what the EVM module knows of its coin, in memory
    meter,          \* the gas of the block so far
    evmFee,         \* the base fee the EVM works with in this block
    store,          \* on disk: the states that were committed
    info,           \* on disk: upgrade-info.json
    blocks, saved,  \* CometBFT's: the blocks decided, and the next height's result
    crashes

process == <<binary, phase, j, work, coinInfo, meter, evmFee>>
given == <<skipped, genesisOK, migrates>>
outside == <<store, info, blocks, saved, crashes>>
vars == <<given, process, outside>>

\* The state, of which vm is the version map, and evm what its transactions met.
Genesis == [vm |-> "none", coin |-> "missing", plan |-> FALSE, upgraded |-> FALSE,
            fees |-> 0, gas |-> 0, baseFee |-> 0, evm |-> [coin |-> "unset", fee |-> 0]]

\* A chain of the old binary, with the upgrade planned.
OldChain == [Genesis EXCEPT !.vm = "old", !.plan = TRUE]

Init ==
    /\ skipped \in BOOLEAN /\ genesisOK \in BOOLEAN /\ migrates \in BOOLEAN
    /\ \/ store = <<>> /\ blocks = <<>> /\ binary = "new" /\ skipped = FALSE
       \/ store = <<OldChain>> /\ blocks = <<[tx |-> 0, gov |-> 0]>> /\ binary = "old"
    /\ phase = "off" /\ j = 1
    /\ work = Genesis
    /\ coinInfo = "unset" /\ meter = 0 /\ evmFee = 0
    /\ info = "none" /\ saved = None /\ crashes = 0

BeganNew == store = <<>> \/ store[1].vm = "new"
Height == Len(store) + 1        \* of the block that is next, or being executed

-----------------------------------------------------------------------------
(* From the start to the loaded application                                *)

\* Nothing is left of a process.
Ended ==
    /\ phase' = "off" /\ j' = 1
    /\ work' = Genesis
    /\ coinInfo' = "unset" /\ meter' = 0 /\ evmFee' = 0

(* The operator starts either binary at any time (external).  It is        *)
(* assumed that who skips the upgrade keeps the old one, though nothing    *)
(* refuses the new one then (upgrades.go:76 even tells that case apart):   *)
(* it would work on a state that was never migrated.  For a chain that     *)
(* began with the new binary there is no old one.                          *)
MayStart(b) ==
    /\ phase = "off"
    /\ skipped => b = "old"
    /\ BeganNew => b = "new"

\* newApp: NewExampleApp puts the application together and loads the last height.
NewApp(b) ==
    /\ MayStart(b)
    /\ info # "empty"
    /\ binary' = b
    /\ phase' = IF store = <<>> THEN "genesis" ELSE "ready"
    /\ work' = IF store = <<>> THEN Genesis ELSE store[Len(store)]
    /\ UNCHANGED <<given, j, coinInfo, meter, evmFee, outside>>

\* RegisterUpgradeHandlers panics on an upgrade-info.json that is no JSON.
RefuseInfo(b) ==
    /\ MayStart(b)
    /\ info = "empty"
    /\ binary' = b
    /\ phase' = "panicked"
    /\ UNCHANGED <<given, j, work, coinInfo, meter, evmFee, outside>>

(* Anything else that ends the process before there is an application:     *)
(* newApp and NewExampleApp panic or exit for an option, a service, the    *)
(* mempool, a handler, or a store that is not loaded.                      *)
FailApp(b) ==
    /\ MayStart(b)
    /\ binary' = b
    /\ phase' = "unbuilt"
    /\ UNCHANGED <<given, j, work, coinInfo, meter, evmFee, outside>>

\* The process ends: it panicked, a block has failed, or there is no application.
Exit ==
    /\ phase \in {"panicked", "failed", "unbuilt"}
    /\ Ended
    /\ UNCHANGED <<given, binary, outside>>

\* Close, by the server between two blocks: mempool and stores are closed.
Close ==
    /\ phase = "ready"
    /\ Ended
    /\ UNCHANGED <<given, binary, outside>>

\* The process ends at any point: it is killed, or panics because its store fails.
Crash ==
    /\ phase # "off"
    /\ crashes < MaxCrashes
    /\ crashes' = crashes + 1
    /\ Ended
    /\ UNCHANGED <<given, binary, store, info, blocks, saved>>

\* The operator removes a file that was not written whole (external).
RemoveInfo ==
    /\ phase = "off" /\ info = "empty"
    /\ info' = "none"
    /\ UNCHANGED <<given, process, store, blocks, saved, crashes>>

-----------------------------------------------------------------------------
(* The orders of the modules, without those that do nothing                *)

PreBlockersEVMFirst == <<"evm", "upgrade">>
PreBlockers == <<"upgrade", "evm">>

BeginBlockersSlashingFirst == <<"mint", "feemarket", "evm", "slashing", "distribution">>
BeginBlockersMintLast == <<"feemarket", "evm", "distribution", "slashing", "mint">>
BeginBlockers == <<"mint", "feemarket", "evm", "distribution", "slashing">>

EndBlockersFeeMarketFirst == <<"feemarket", "gov", "staking">>
EndBlockers == <<"gov", "staking", "feemarket">>

GenesisOrderGenutilEarly == <<"auth", "bank", "distribution", "staking", "slashing", "gov", "mint", "ibc",
    "genutil", "evm", "feemarket", "erc20", "precisebank", "transfer", "evidence">>
GenesisOrder == <<"auth", "bank", "distribution", "staking", "slashing", "gov", "mint", "ibc",
    "evm", "feemarket", "erc20", "precisebank", "transfer", "genutil", "evidence">>

\* One module more.
NextModuleOneMore(order, next) ==
    IF j <= Len(order) THEN j' = j + 1 /\ UNCHANGED phase ELSE j' = 1 /\ phase' = next

NextModule(order, next) ==
    IF j < Len(order) THEN j' = j + 1 /\ UNCHANGED phase ELSE j' = 1 /\ phase' = next

(* What a module's genesis uses of others': the pools and the parameters   *)
(* that the transactions of the genesis meet.                              *)
GenesisNeeds(m) ==
    CASE m = "staking" -> {"auth", "bank"}
      [] m = "genutil" -> {"auth", "staking", "feemarket"}
      [] OTHER -> {}

\* InitChainer sets the version map before the modules are initialized.
InitChainer ==
    /\ phase = "genesis"
    /\ genesisOK
    /\ phase' = "initgenesis"
    /\ work' = [work EXCEPT !.vm = binary]
    /\ UNCHANGED <<given, binary, j, coinInfo, meter, evmFee, outside>>

\* InitChainer panics on a genesis that is no JSON, and a module on one it cannot use.
RefuseGenesis ==
    /\ phase = "genesis"
    /\ ~genesisOK
    /\ phase' = "panicked"
    /\ UNCHANGED <<given, binary, j, work, coinInfo, meter, evmFee, outside>>

InitGenesis ==
    /\ phase = "initgenesis"
    /\ IF \A m \in GenesisNeeds(GenesisOrder[j]) : \E k \in 1..j - 1 : GenesisOrder[k] = m
       THEN /\ work' = IF GenesisOrder[j] = "evm" THEN [work EXCEPT !.coin = "known"] ELSE work
            /\ NextModule(GenesisOrder, "ready")
       ELSE phase' = "panicked" /\ UNCHANGED <<j, work>>
    /\ UNCHANGED <<given, binary, coinInfo, meter, evmFee, outside>>

-----------------------------------------------------------------------------
(* Blocks                                                                  *)

\* A block that the network agrees on (external).
Decide(tx, gov) ==
    /\ phase = "ready"
    /\ Len(blocks) < Height /\ Height <= MaxHeight
    /\ blocks' = Append(blocks, [tx |-> tx, gov |-> gov])
    /\ UNCHANGED <<given, process, store, info, saved, crashes>>

FinalizeBlock ==
    /\ phase = "ready"
    /\ Len(blocks) = Height
    /\ phase' = "pre"
    /\ UNCHANGED <<given, binary, j, work, coinInfo, meter, evmFee, outside>>

HasNoHandler == FALSE
HasHandler == binary = "new"

PlanDue == work.plan /\ PlanHeight <= Height

\* The handler of the upgrade without RunMigrations.
UpgradeHandlerNoMigration(state) ==
    [state EXCEPT !.coin = "known", !.plan = FALSE, !.upgraded = TRUE]

\* The handler of the upgrade when none of its steps fails: the coin's data, then RunMigrations.
UpgradeHandler(state) ==
    [state EXCEPT !.coin = "known", !.vm = binary, !.plan = FALSE, !.upgraded = TRUE]

AtUpgrade == phase = "pre" /\ PreBlockers[j] = "upgrade"

\* x/upgrade stops a binary that is too old, or too new (external).
WrongBinary ==
    \/ work.upgraded /\ ~HasHandler
    \/ work.plan /\ ~PlanDue /\ HasHandler

PreBlockUpgrade ==
    /\ AtUpgrade
    /\ ~WrongBinary
    /\ PlanDue => skipped \/ (HasHandler /\ migrates)
    /\ work' = CASE PlanDue /\ skipped -> [work EXCEPT !.plan = FALSE]
                 [] PlanDue /\ ~skipped -> UpgradeHandler(work)
                 [] OTHER -> work
    /\ NextModule(PreBlockers, "begin")
    /\ UNCHANGED <<given, binary, coinInfo, meter, evmFee, outside>>

(* SetParams, InitEvmCoinInfo or RunMigrations returns an error, and with  *)
(* it FinalizeBlock: nothing of the block is kept, and it is the next one  *)
(* again after every restart.                                              *)
UpgradeFails ==
    /\ AtUpgrade
    /\ ~WrongBinary /\ PlanDue /\ ~skipped /\ HasHandler
    /\ ~migrates
    /\ phase' = "failed"
    /\ UNCHANGED <<given, binary, j, work, coinInfo, meter, evmFee, outside>>

RefuseBinary ==
    /\ AtUpgrade
    /\ WrongBinary
    /\ phase' = "panicked"
    /\ UNCHANGED <<given, binary, j, work, coinInfo, meter, evmFee, outside>>

\* Without a handler the plan is written to upgrade-info.json, which is emptied first.
BeginDump ==
    /\ AtUpgrade
    /\ ~WrongBinary /\ PlanDue /\ ~skipped /\ ~HasHandler
    /\ phase' = "dumping"
    /\ info' = "empty"
    /\ UNCHANGED <<given, binary, j, work, coinInfo, meter, evmFee,
                   store, blocks, saved, crashes>>

Dump ==
    /\ phase = "dumping"
    /\ phase' = "panicked"
    /\ info' = "written"
    /\ UNCHANGED <<given, binary, j, work, coinInfo, meter, evmFee,
                   store, blocks, saved, crashes>>

\* The EVM module reads its coin once in a process's life; the old one has it built in.
PreBlockEVM ==
    /\ phase = "pre" /\ PreBlockers[j] = "evm"
    /\ coinInfo' = IF binary = "new" /\ coinInfo = "unset" THEN work.coin ELSE coinInfo
    /\ NextModule(PreBlockers, "begin")
    /\ UNCHANGED <<given, binary, work, meter, evmFee, outside>>

\* Minted coins and fees are paid out one block later; the base fee follows the last gas.
BeginBlocker(m, state) ==
    CASE m = "mint" -> [state EXCEPT !.fees = @ + 1]
      [] m = "feemarket" -> [state EXCEPT !.baseFee = state.gas]
      [] m = "distribution" /\ Height > 1 -> [state EXCEPT !.fees = 0]
      [] OTHER -> state

BeginBlock ==
    /\ phase = "begin"
    /\ work' = BeginBlocker(BeginBlockers[j], work)
    /\ evmFee' = IF BeginBlockers[j] = "evm" THEN work.baseFee ELSE evmFee
    /\ NextModule(BeginBlockers, "txs")
    /\ UNCHANGED <<given, binary, coinInfo, meter, outside>>

DeliverTxs ==
    /\ phase = "txs"
    /\ phase' = "end"
    /\ meter' = blocks[Height].tx
    /\ work' = [work EXCEPT !.fees = @ + blocks[Height].tx, !.evm = [coin |-> coinInfo, fee |-> evmFee]]
    /\ UNCHANGED <<given, binary, j, coinInfo, evmFee, outside>>

\* Proposals that have passed are executed, and use gas.
EndBlock ==
    /\ phase = "end"
    /\ meter' = IF EndBlockers[j] = "gov" THEN meter + blocks[Height].gov ELSE meter
    /\ work' = IF EndBlockers[j] = "feemarket" THEN [work EXCEPT !.gas = meter] ELSE work
    /\ NextModule(EndBlockers, "finalizing")
    /\ UNCHANGED <<given, binary, coinInfo, evmFee, outside>>

\* CometBFT keeps the result, unless it has it from before a crash (external).
Finalized ==
    /\ phase = "finalizing"
    /\ phase' = "finalized"
    /\ saved' = IF saved = None THEN work ELSE saved
    /\ UNCHANGED <<given, binary, j, work, coinInfo, meter, evmFee,
                   store, info, blocks, crashes>>

Commit ==
    /\ phase = "finalized"
    /\ phase' = "ready"
    /\ store' = Append(store, work)
    /\ saved' = None
    /\ meter' = 0 /\ evmFee' = 0
    /\ UNCHANGED <<given, binary, j, work, coinInfo, info, blocks, crashes>>

-----------------------------------------------------------------------------
\* What goes on by itself once the process runs.
Step ==
    \/ Exit
    \/ InitChainer \/ RefuseGenesis \/ InitGenesis
    \/ PreBlockUpgrade \/ UpgradeFails \/ RefuseBinary \/ BeginDump \/ Dump \/ PreBlockEVM
    \/ BeginBlock \/ DeliverTxs \/ EndBlock \/ Finalized \/ Commit

Next ==
    \/ \E b \in {"old", "new"} : NewApp(b) \/ RefuseInfo(b) \/ FailApp(b)
    \/ \E tx \in TxGas, gov \in GovGas : Decide(tx, gov)
    \/ Step \/ FinalizeBlock
    \/ Close \/ Crash \/ RemoveInfo

\* The binary that the next block is for.
RightBinary ==
    IF BeganNew \/ (Height >= PlanHeight /\ ~skipped) THEN "new" ELSE "old"

(* What runs goes on; the operator starts the right binary again and again *)
(* until it comes up, whatever else is tried in between, and removes a file that is in the    *)
(* way; the network does not stop, and the right binary is not always      *)
(* closed before a block comes.                                            *)
Fairness ==
    /\ WF_vars(Step)
    /\ SF_vars(NewApp(RightBinary)) /\ SF_vars(RemoveInfo)
    /\ SF_vars(\E tx \in TxGas, gov \in GovGas : Decide(tx, gov))
    /\ WF_vars(FinalizeBlock) /\ SF_vars(FinalizeBlock /\ binary = RightBinary)

Spec == Init /\ [][Next]_vars /\ Fairness

-----------------------------------------------------------------------------
(* Properties                                                              *)

StateType == [vm : {"none", "old", "new"}, coin : {"missing", "known"}, plan : BOOLEAN,
              upgraded : BOOLEAN, fees : Nat, gas : Nat, baseFee : Nat,
              evm : [coin : {"unset", "missing", "known"}, fee : Nat]]

\* How many modules there are to go through in a phase.
Modules == CASE phase = "initgenesis" -> Len(GenesisOrder)
             [] phase = "pre" -> Len(PreBlockers)
             [] phase = "begin" -> Len(BeginBlockers)
             [] phase = "end" -> Len(EndBlockers)
             [] OTHER -> Len(GenesisOrder)

(* Every variable has its type: no order of modules is left half way or    *)
(* run past its end.                                                       *)
TypeOK ==
    /\ skipped \in BOOLEAN /\ genesisOK \in BOOLEAN /\ migrates \in BOOLEAN
    /\ binary \in {"old", "new"}
    /\ phase \in {"off", "unbuilt", "failed", "panicked", "dumping",
                  "genesis", "initgenesis", "ready", "pre", "begin", "txs", "end", "finalizing", "finalized"}
    /\ j \in 1..Modules
    /\ work \in StateType
    /\ coinInfo \in {"unset", "missing", "known"}
    /\ meter \in Nat /\ evmFee \in Nat
    /\ store \in Seq(StateType)
    /\ info \in {"none", "empty", "written"}
    /\ blocks \in Seq([tx : Nat, gov : Nat])
    /\ saved \in StateType \cup {None}
    /\ crashes \in 0..MaxCrashes

(* No transaction is executed by modules of another version than the state *)
(* has, nor by an EVM that does not know the coin of the state - whenever  *)
(* the binary is exchanged, and whenever it crashes.                       *)
VersionsMatch ==
    phase = "txs" => /\ work.vm = binary
                     /\ binary = "new" => coinInfo = "known" /\ work.coin = "known"

(* The chain is upgraded at the planned height and at no other, and not at *)
(* all if that is skipped.                                                 *)
UpgradedAtPlan ==
    \A h \in DOMAIN store :
        store[h].vm = IF BeganNew \/ (h >= PlanHeight /\ ~skipped) THEN "new" ELSE "old"

(* A block that is executed again after a crash has the result that the    *)
(* network knows.                                                          *)
SameOnReplay == phase = "finalized" => work = saved

(* The EVM charges in each block the base fee that follows from all the    *)
(* gas of the block before, that of its proposals included.                *)
BaseFeeFollowsGas ==
    \A h \in 2..Len(store) : store[h].evm.fee = blocks[h - 1].tx + blocks[h - 1].gov

(* When validators are slashed nothing is left in the pool of their fees,  *)
(* from the first block on that pays them out.                             *)
NoFeesLeftAtSlashing ==
    phase = "begin" /\ BeginBlockers[j] = "slashing" /\ Height > 1 => work.fees = 0

(* An application that was put together panics only with a binary that is  *)
(* not for the height, at an upgrade file that a crash has left empty or   *)
(* at a genesis that is not well formed - never because of the order in    *)
(* which the modules are given it; and a block fails only at the planned   *)
(* height, with a state that cannot be migrated.                           *)
StopsForAReason ==
    /\ phase = "panicked" => \/ binary # RightBinary
                             \/ info = "empty" /\ crashes > 0
                             \/ store = <<>> /\ ~genesisOK
    /\ phase = "failed" => ~migrates /\ ~skipped /\ ~BeganNew /\ Height = PlanHeight

(* The node keeps the promise of EvmdChain: whatever is done in pieces,    *)
(* lost in a crash, executed again or started with another binary, it      *)
(* shows nothing but blocks that are each executed once and as a whole.    *)
Chain == INSTANCE EvmdChain WITH states <- store
KeepsChain == Chain!Spec

\* What the chain was given lets it go on: the genesis, or the state to be migrated.
Sound == IF BeganNew THEN genesisOK ELSE skipped \/ migrates

(* The chain gets past the upgrade if it can: no crash, no wrong binary    *)
(* and no start that fails, in whatever order, leaves it stuck.            *)
ChainGoesOn == Sound => <>(Len(store) = MaxHeight)
=============================================================================
