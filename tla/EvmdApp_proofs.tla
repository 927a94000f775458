---------------------------- MODULE EvmdApp_proofs ----------------------------
(***************************************************************************)
(* The upgrade of the chain: for a plan at any height, blocks of any gas   *)
(* and any number of crashes, every block is executed by the version it is *)
(* for, and has the same result whenever it is executed again.             *)
(*                                                                         *)
(* The proof is one induction.  What a block leaves is a function of the   *)
(* state before it, of the block and of the plan (Stage and Outcome);      *)
(* PhaseOK says how much of it is there at each module of each phase.      *)
(***************************************************************************)
EXTENDS EvmdApp, SequenceTheorems, TLAPS

USE EvmdAppAssumption DEF given

-----------------------------------------------------------------------------
(* The inductive invariant                                                 *)

\* The version that block h is for.
Version(h) == IF BeganNew \/ (h >= PlanHeight /\ ~skipped) THEN "new" ELSE "old"

\* What the plan makes of the state after block h.
Stage(s, h) ==
    /\ s.vm = Version(h)
    /\ s.coin = IF Version(h) = "new" THEN "known" ELSE "missing"
    /\ s.plan <=> ~BeganNew /\ h < PlanHeight
    /\ s.upgraded <=> ~BeganNew /\ h >= PlanHeight /\ ~skipped

\* The state when the genesis is through, and that before the next block.
Started == [vm |-> "new", coin |-> "known", plan |-> FALSE, upgraded |-> FALSE,
            fees |-> 0, gas |-> 0, baseFee |-> 0, evm |-> [coin |-> "unset", fee |-> 0]]
Before == IF store = <<>> THEN Started ELSE store[Len(store)]

\* What is in the pool of fees when a block's transactions are executed.
FeesLeft == IF Height > 1 THEN 0 ELSE Before.fees + 1

\* What the next block makes of the rest of the state.
Outcome(s) ==
    /\ s.fees = FeesLeft + blocks[Height].tx
    /\ s.gas = blocks[Height].tx + blocks[Height].gov
    /\ s.baseFee = Before.gas
    /\ s.evm = [coin |-> IF Version(Height) = "new" THEN "known" ELSE "unset", fee |-> Before.gas]

\* The pieces of work that are left of the state before the block.
Kept(fields) == \A f \in fields : work[f] = Before[f]

Executing == {"begin", "txs", "end", "finalizing", "finalized"}

\* A binary that runs is one the operator may start.
BinaryOK == phase # "off" => (skipped => binary = "old") /\ (BeganNew => binary = "new")

\* CometBFT has the blocks of the states in store, and at most one more.
ChainOK ==
    /\ Len(store) <= Len(blocks) /\ Len(blocks) <= Height
    /\ \A h \in 1..Len(store) : /\ Stage(store[h], h)
                                /\ store[h].gas = blocks[h].tx + blocks[h].gov
                                /\ h > 1 => store[h].evm.fee = blocks[h - 1].tx + blocks[h - 1].gov

SavedOK == saved # None => /\ Len(blocks) = Height
                           /\ Stage(saved, Height)
                           /\ Outcome(saved)

\* Between two orders of modules nothing is left of the last one.
AtFirst == phase \in {"off", "genesis", "ready", "txs", "finalizing", "finalized"} => j = 1

\* What is known of work, and of what is kept in memory, in each phase.
PhaseOK ==
    /\ phase \in {"genesis", "initgenesis"} => store = <<>>
    /\ phase \in {"off", "genesis", "initgenesis"} => coinInfo = "unset"
    /\ phase = "genesis" => work = Genesis
    /\ phase = "initgenesis" =>
          work = [Started EXCEPT !.coin = IF j > 9 THEN "known" ELSE "missing"]
    /\ binary = "old" => coinInfo = "unset"
    /\ binary = "new" => coinInfo \in {"unset", "known"}
    /\ phase = "ready" => work = Before
    /\ phase = "pre" => Len(blocks) = Height
    /\ phase = "pre" /\ j = 1 => work = Before
    /\ phase = "pre" /\ j = 2 => /\ Stage(work, Height) /\ binary = Version(Height)
                                 /\ Kept({"fees", "gas", "baseFee", "evm"})
    /\ phase = "dumping" => binary # RightBinary
    /\ phase \in Executing => /\ Len(blocks) = Height
                              /\ Stage(work, Height) /\ binary = Version(Height)
                              /\ binary = "new" => coinInfo = "known"
    /\ phase = "begin" =>
          /\ Kept({"gas", "evm"})
          /\ work.fees = IF j = 1 THEN Before.fees
                         ELSE IF j < 5 THEN Before.fees + 1 ELSE FeesLeft
          /\ work.baseFee = IF j < 3 THEN Before.baseFee ELSE Before.gas
          /\ j > 3 => evmFee = Before.gas
    /\ phase = "txs" => /\ Kept({"gas"})
                        /\ work.fees = FeesLeft
                        /\ work.baseFee = Before.gas /\ evmFee = Before.gas
    /\ phase = "end" =>
          /\ work.fees = FeesLeft + blocks[Height].tx
          /\ work.baseFee = Before.gas
          /\ work.evm = [coin |-> IF Version(Height) = "new" THEN "known" ELSE "unset",
                         fee |-> Before.gas]
          /\ meter = blocks[Height].tx + (IF j = 1 THEN 0 ELSE blocks[Height].gov)
    /\ phase \in {"finalizing", "finalized"} => Outcome(work)

\* An upgrade file is empty only while it is being written, or after a crash.
InfoOK == info = "empty" => phase = "dumping" \/ crashes > 0

IInv == TypeOK /\ AtFirst /\ BinaryOK /\ ChainOK /\ SavedOK /\ PhaseOK /\ InfoOK
            /\ SameOnReplay /\ StopsForAReason

-----------------------------------------------------------------------------
(* The orders                                                              *)

LEMMA Orders ==
    /\ Len(PreBlockers) = 2 /\ PreBlockers[1] = "upgrade" /\ PreBlockers[2] = "evm"
    /\ Len(BeginBlockers) = 5 /\ BeginBlockers[1] = "mint" /\ BeginBlockers[2] = "feemarket"
    /\ BeginBlockers[3] = "evm" /\ BeginBlockers[4] = "distribution"
    /\ BeginBlockers[5] = "slashing"
    /\ Len(EndBlockers) = 3 /\ EndBlockers[1] = "gov" /\ EndBlockers[2] = "staking"
    /\ EndBlockers[3] = "feemarket"
    /\ Len(GenesisOrder) = 15
  BY DEF PreBlockers, BeginBlockers, EndBlockers, GenesisOrder

(* Whatever the genesis of a module uses has been initialized before it;   *)
(* the coin is known once the EVM's, the ninth, is through.                *)
LEMMA GenesisInOrder ==
    ASSUME NEW n \in 1..15
    PROVE  /\ \A m \in GenesisNeeds(GenesisOrder[n]) : \E k \in 1..n - 1 : GenesisOrder[k] = m
           /\ GenesisOrder[n] = "evm" <=> n = 9
  <1>1. /\ GenesisOrder[1] = "auth" /\ GenesisOrder[2] = "bank" /\ GenesisOrder[4] = "staking"
        /\ GenesisOrder[10] = "feemarket"
    BY DEF GenesisOrder
  <1>2. /\ GenesisOrder[n] = "evm" <=> n = 9
        /\ GenesisOrder[n] = "staking" <=> n = 4
        /\ GenesisOrder[n] = "genutil" <=> n = 14
    BY DEF GenesisOrder
  <1>3. \A m \in GenesisNeeds(GenesisOrder[n]) : \E k \in 1..n - 1 : GenesisOrder[k] = m
    <2>1. CASE n = 4
      <3>1. GenesisNeeds(GenesisOrder[n]) = {"auth", "bank"}
        BY <2>1, <1>1 DEF GenesisNeeds
      <3>2. 1 \in 1..n - 1 /\ 2 \in 1..n - 1
        BY <2>1
      <3>3. QED  BY <3>1, <3>2, <1>1
    <2>2. CASE n = 14
      <3>1. GenesisOrder[n] = "genutil"
        BY <2>2, <1>2
      <3>2. GenesisNeeds(GenesisOrder[n]) = {"auth", "staking", "feemarket"}
        BY <3>1 DEF GenesisNeeds
      <3>3. 1 \in 1..n - 1 /\ 4 \in 1..n - 1 /\ 10 \in 1..n - 1
        BY <2>2
      <3>4. QED  BY <3>2, <3>3, <1>1
    <2>3. CASE n # 4 /\ n # 14
      <3>1. GenesisNeeds(GenesisOrder[n]) = {}
        BY <2>3, <1>2 DEF GenesisNeeds
      <3>2. QED  BY <3>1
    <2>4. QED  BY <2>1, <2>2, <2>3
  <1>4. QED  BY <1>2, <1>3

-----------------------------------------------------------------------------
(* Types                                                                   *)

LEMMA GenesisType == Genesis \in StateType /\ Started \in StateType /\ OldChain \in StateType
  BY DEF Genesis, Started, OldChain, StateType

(* A state is what its fields are.                                         *)
LEMMA SameState ==
    ASSUME NEW s \in StateType, NEW t \in StateType,
           s.vm = t.vm, s.coin = t.coin, s.plan = t.plan, s.upgraded = t.upgraded,
           s.fees = t.fees, s.gas = t.gas, s.baseFee = t.baseFee, s.evm = t.evm
    PROVE  s = t
  BY DEF StateType

LEMMA StoreType ==
    ASSUME store \in Seq(StateType)
    PROVE  /\ Len(store) \in Nat /\ Height \in Nat \ {0}
           /\ \A h \in 1..Len(store) : store[h] \in StateType
           /\ store # <<>> <=> Len(store) > 0
  BY DEF Height

LEMMA InitInv == Init => IInv
  <1> SUFFICES ASSUME Init PROVE IInv
    OBVIOUS
  <1>1. TypeOK
    <2>1. store \in Seq(StateType) /\ blocks \in Seq([tx : Nat, gov : Nat])
      <3>1. CASE store = <<>> /\ blocks = <<>>
        BY <3>1
      <3>2. CASE store = <<OldChain>> /\ blocks = <<[tx |-> 0, gov |-> 0]>>
        BY <3>2, GenesisType
      <3>3. QED  BY <3>1, <3>2 DEF Init
    <2>2. j \in 1..Modules
      BY Orders DEF Init, Modules
    <2>3. QED  BY <2>1, <2>2, GenesisType DEF Init, TypeOK
  <1>2. AtFirst /\ BinaryOK /\ InfoOK /\ SameOnReplay /\ StopsForAReason
    BY DEF Init, AtFirst, BinaryOK, InfoOK, SameOnReplay, StopsForAReason
  <1>3. ChainOK /\ SavedOK
    <2>1. CASE store = <<>>
      BY <2>1 DEF Init, ChainOK, SavedOK, Height
    <2>2. CASE store = <<OldChain>> /\ blocks = <<[tx |-> 0, gov |-> 0]>>
      <3>1. Len(store) = 1 /\ store[1] = OldChain /\ Len(blocks) = 1 /\ blocks[1].tx = 0
            /\ blocks[1].gov = 0 /\ saved = None
        BY <2>2 DEF Init
      <3>2. OldChain.vm = "old" /\ OldChain.coin = "missing" /\ OldChain.plan /\ ~OldChain.upgraded
            /\ OldChain.gas = 0
        BY DEF OldChain, Genesis
      <3>3. ~BeganNew
        BY <3>1, <3>2, <2>2 DEF BeganNew
      <3>4. Stage(store[1], 1)
        BY <3>1, <3>2, <3>3 DEF Stage, Version
      <3>5. QED  BY <3>1, <3>2, <3>4 DEF ChainOK, SavedOK, Height
    <2>3. QED  BY <2>1, <2>2 DEF Init
  <1>4. PhaseOK
    BY DEF Init, PhaseOK, Executing
  <1>5. QED  BY <1>1, <1>2, <1>3, <1>4 DEF IInv

-----------------------------------------------------------------------------
(* Steps that leave the chain alone                                        *)

LEMMA SameChain ==
    ASSUME ChainOK, SavedOK, UNCHANGED <<skipped, store, blocks, saved>>
    PROVE  ChainOK' /\ SavedOK'
  BY DEF ChainOK, SavedOK, Stage, Outcome, Version, BeganNew, Height, Before, FeesLeft

(* What a module's part in the beginning of a block leaves of the state.   *)
LEMMA BeginBlockerChanges ==
    ASSUME NEW s \in StateType, NEW m
    PROVE  LET t == BeginBlocker(m, s) IN
           /\ t \in StateType
           /\ t.gas = s.gas /\ t.evm = s.evm /\ t.vm = s.vm /\ t.coin = s.coin
           /\ t.plan = s.plan /\ t.upgraded = s.upgraded
           /\ t.baseFee = IF m = "feemarket" THEN s.gas ELSE s.baseFee
           /\ t.fees = IF m = "mint" THEN s.fees + 1
                       ELSE IF m = "distribution" /\ Height > 1 THEN 0 ELSE s.fees
  <1>1. CASE m = "mint"
    BY <1>1 DEF BeginBlocker, StateType
  <1>2. CASE m = "feemarket"
    BY <1>2 DEF BeginBlocker, StateType
  <1>3. CASE m = "distribution" /\ Height > 1
    BY <1>3 DEF BeginBlocker, StateType
  <1>4. CASE m \notin {"mint", "feemarket"} /\ ~(m = "distribution" /\ Height > 1)
    <2>1. BeginBlocker(m, s) = s
      BY <1>4 DEF BeginBlocker
    <2>2. QED  BY <2>1, <1>4
  <1>5. QED  BY <1>1, <1>2, <1>3, <1>4

LEMMA BeginBlockStep == ASSUME IInv, BeginBlock PROVE IInv'
  <1> USE DEF IInv
  <1>1. UNCHANGED <<given, binary, coinInfo, meter, store, info, blocks, saved, crashes>>
    BY DEF BeginBlock, outside
  <1>2. Len(store) \in Nat /\ Height = Len(store) + 1 /\ Height' = Height
    BY <1>1 DEF TypeOK, Height
  <1>3. Before \in StateType /\ Before' = Before /\ FeesLeft' = FeesLeft
    BY <1>1, <1>2, StoreType, GenesisType DEF TypeOK, Before, FeesLeft
  <1>4. TypeOK' /\ AtFirst'
    <2>1. work' \in StateType /\ evmFee' \in Nat
      <3>1. work' \in StateType
        BY BeginBlockerChanges DEF TypeOK, BeginBlock
      <3>2. QED  BY <3>1 DEF TypeOK, BeginBlock, StateType
    <2>2. j' \in 1..Modules' /\ phase' \in {"begin", "txs"} /\ AtFirst'
      BY Orders DEF TypeOK, BeginBlock, NextModule, Modules, AtFirst
    <2>3. QED  BY <1>1, <2>1, <2>2 DEF TypeOK
  <1>5. ChainOK' /\ SavedOK'
    BY <1>1, SameChain
  <1>6. BinaryOK' /\ InfoOK' /\ SameOnReplay' /\ StopsForAReason'
    BY <1>1, Orders DEF BeginBlock, NextModule, BinaryOK, BeganNew, InfoOK, SameOnReplay, StopsForAReason
  <1>7. PhaseOK'
    <2>1. phase = "begin" /\ j \in 1..5
      BY Orders DEF TypeOK, BeginBlock, Modules
    <2>2. /\ work'.gas = work.gas /\ work'.evm = work.evm /\ work'.vm = work.vm
          /\ work'.coin = work.coin /\ work'.plan = work.plan /\ work'.upgraded = work.upgraded
          /\ work'.baseFee = IF j = 2 THEN work.gas ELSE work.baseFee
          /\ work'.fees = IF j = 1 THEN work.fees + 1
                          ELSE IF j = 4 /\ Height > 1 THEN 0 ELSE work.fees
      <3>1. /\ BeginBlockers[j] = "mint" <=> j = 1
            /\ BeginBlockers[j] = "feemarket" <=> j = 2
            /\ BeginBlockers[j] = "distribution" <=> j = 4
        BY <2>1, Orders
      <3>2. work' = BeginBlocker(BeginBlockers[j], work) /\ work \in StateType
        BY DEF BeginBlock, TypeOK
      <3>3. QED  BY <3>1, <3>2, BeginBlockerChanges
    <2>3. /\ Len(blocks') = Height'
          /\ Stage(work, Height)' /\ binary' = Version(Height)'
          /\ binary' = "new" => coinInfo' = "known"
          /\ binary' = "old" => coinInfo' = "unset"
          /\ work'.gas = Before.gas /\ work'.evm = Before.evm
      BY <1>1, <1>2, <2>1, <2>2 DEF PhaseOK, Executing, Kept, Stage, Version, BeganNew
    <2>4. CASE j < 5
      <3>1. phase' = "begin" /\ j' = j + 1
        BY <2>1, <2>4, Orders DEF BeginBlock, NextModule
      <3>2. /\ work'.fees = IF j' < 5 THEN Before.fees + 1 ELSE FeesLeft
            /\ work'.baseFee = IF j' < 3 THEN Before.baseFee ELSE Before.gas
        BY <2>1, <2>2, <2>4, <3>1, <1>2 DEF PhaseOK, Kept, FeesLeft
      <3>3. j' > 3 => evmFee' = Before.gas
        BY <2>1, <2>4, <3>1, Orders DEF PhaseOK, BeginBlock
      <3>4. QED  BY <1>1, <1>3, <2>1, <2>3, <3>1, <3>2, <3>3 DEF PhaseOK, Kept, Executing
    <2>5. CASE j = 5
      <3>1. phase' = "txs" /\ j' = 1
        BY <2>5, Orders DEF BeginBlock, NextModule, PhaseOK
      <3>2. evmFee' = evmFee
        BY <2>5, Orders DEF BeginBlock
      <3>3. QED  BY <1>1, <1>3, <2>1, <2>2, <2>3, <2>5, <3>1, <3>2 DEF PhaseOK, Kept, Executing
    <2>6. QED  BY <2>1, <2>4, <2>5
  <1>8. QED  BY <1>4, <1>5, <1>6, <1>7

(* The block that is next, and what is known of it, stay as they are.      *)
LEMMA SameBlock ==
    ASSUME IInv, UNCHANGED <<skipped, store>>
    PROVE  /\ Len(store) \in Nat /\ Height = Len(store) + 1 /\ Height' = Height
           /\ Before \in StateType /\ Before' = Before
           /\ FeesLeft \in Nat /\ FeesLeft' = FeesLeft
           /\ BeganNew' <=> BeganNew
           /\ RightBinary' = RightBinary
           /\ Version(Height)' = Version(Height)
  <1>1. Len(store) \in Nat /\ Height = Len(store) + 1 /\ Height' = Height
    BY DEF IInv, TypeOK, Height
  <1>2. Before \in StateType /\ Before' = Before
    BY <1>1, StoreType, GenesisType DEF IInv, TypeOK, Before
  <1>3. FeesLeft \in Nat /\ FeesLeft' = FeesLeft
    BY <1>1, <1>2 DEF FeesLeft, StateType
  <1>4. BeganNew' <=> BeganNew
    BY DEF BeganNew
  <1>5. QED  BY <1>1, <1>2, <1>3, <1>4 DEF RightBinary, Version

(* Of a process that ends only what is on disk is left.                    *)
LEMMA EndedStep ==
    ASSUME IInv, Ended, InfoOK', crashes' \in 0..MaxCrashes,
           UNCHANGED <<given, binary, store, info, blocks, saved>>
    PROVE  IInv'
  <1> USE DEF IInv, Ended
  <1>1. TypeOK'
    <2>1. j' \in 1..Modules'
      BY Orders DEF Modules
    <2>2. QED  BY <2>1, GenesisType DEF TypeOK
  <1>2. ChainOK' /\ SavedOK'
    BY SameChain
  <1>3. AtFirst' /\ BinaryOK' /\ SameOnReplay' /\ StopsForAReason'
    BY DEF AtFirst, BinaryOK, SameOnReplay, StopsForAReason
  <1>4. PhaseOK'
    BY DEF PhaseOK, Executing, TypeOK
  <1>5. QED  BY <1>1, <1>2, <1>3, <1>4

LEMMA EndSteps == ASSUME IInv, Exit \/ Close \/ Crash PROVE IInv'
  <1>1. CASE Exit
    BY <1>1, EndedStep DEF Exit, outside, IInv, TypeOK, InfoOK
  <1>2. CASE Close
    BY <1>2, EndedStep DEF Close, outside, IInv, TypeOK, InfoOK
  <1>3. CASE Crash
    <2>1. crashes' \in 0..MaxCrashes /\ crashes' > 0
      BY <1>3 DEF Crash, IInv, TypeOK
    <2>2. QED  BY <1>3, <2>1, EndedStep DEF Crash, InfoOK
  <1>4. QED  BY <1>1, <1>2, <1>3

LEMMA RemoveInfoStep == ASSUME IInv, RemoveInfo PROVE IInv'
  <1> USE DEF IInv, RemoveInfo, process
  <1>1. TypeOK'
    BY DEF TypeOK, Modules
  <1>2. ChainOK' /\ SavedOK'
    BY SameChain
  <1>3. AtFirst' /\ BinaryOK' /\ InfoOK' /\ SameOnReplay' /\ StopsForAReason'
    BY DEF AtFirst, BinaryOK, BeganNew, InfoOK, SameOnReplay, StopsForAReason
  <1>4. PhaseOK'
    BY DEF PhaseOK, Executing
  <1>5. QED  BY <1>1, <1>2, <1>3, <1>4

LEMMA NewAppStep == ASSUME IInv, NEW b \in {"old", "new"}, NewApp(b) PROVE IInv'
  <1> USE DEF IInv
  <1>1. UNCHANGED <<given, j, coinInfo, meter, evmFee, store, info, blocks, saved, crashes>>
    BY DEF NewApp, outside
  <1>2. phase = "off" /\ j = 1 /\ coinInfo = "unset" /\ binary' = b
    <2>1. phase = "off" /\ binary' = b
      BY DEF NewApp, MayStart
    <2>2. QED  BY <2>1 DEF AtFirst, PhaseOK
  <1>3. phase' = (IF store = <<>> THEN "genesis" ELSE "ready")
        /\ work' = (IF store = <<>> THEN Genesis ELSE store[Len(store)])
    BY DEF NewApp
  <1>4. TypeOK'
    <2>1. j' \in 1..Modules'
      BY <1>1, <1>2, <1>3, Orders DEF Modules
    <2>2. work' \in StateType
      BY <1>3, GenesisType, StoreType DEF TypeOK
    <2>3. QED  BY <1>1, <1>2, <1>3, <2>1, <2>2 DEF TypeOK
  <1>5. ChainOK' /\ SavedOK'
    BY <1>1, SameChain
  <1>6. BinaryOK'
    BY <1>1, <1>2 DEF NewApp, MayStart, BinaryOK, BeganNew
  <1>7. AtFirst' /\ InfoOK' /\ SameOnReplay' /\ StopsForAReason'
    BY <1>1, <1>2, <1>3 DEF NewApp, AtFirst, InfoOK, SameOnReplay, StopsForAReason
  <1>8. PhaseOK'
    <2>1. Before' = Before
      BY <1>1, SameBlock
    <2>2. store # <<>> => work' = Before
      BY <1>3 DEF Before
    <2>3. QED  BY <1>1, <1>2, <1>3, <2>1, <2>2 DEF PhaseOK, Executing
  <1>9. QED  BY <1>4, <1>5, <1>6, <1>7, <1>8

(* A start that comes to nothing leaves the process to end.                *)
LEMMA NoAppStep ==
    ASSUME IInv, NEW b \in {"old", "new"}, RefuseInfo(b) \/ FailApp(b)
    PROVE  IInv'
  <1> USE DEF IInv
  <1>1. UNCHANGED <<given, j, work, coinInfo, meter, evmFee, store, info, blocks, saved, crashes>>
    BY DEF RefuseInfo, FailApp, outside
  <1>2. /\ phase = "off" /\ binary' = b
        /\ phase' \in {"panicked", "unbuilt"} /\ (phase' = "panicked" => info = "empty")
    BY DEF RefuseInfo, FailApp, MayStart
  <1>3. j = 1 /\ coinInfo = "unset"
    BY <1>2 DEF AtFirst, PhaseOK
  <1>4. TypeOK'
    <2>1. j' \in 1..Modules'
      BY <1>1, <1>2, <1>3, Orders DEF Modules
    <2>2. QED  BY <1>1, <1>2, <2>1 DEF TypeOK
  <1>5. ChainOK' /\ SavedOK'
    BY <1>1, SameChain
  <1>6. BinaryOK'
    BY <1>1, <1>2 DEF RefuseInfo, FailApp, MayStart, BinaryOK, BeganNew
  <1>7. AtFirst' /\ InfoOK' /\ SameOnReplay' /\ StopsForAReason'
    BY <1>1, <1>2, <1>3 DEF AtFirst, InfoOK, SameOnReplay, StopsForAReason, TypeOK
  <1>8. PhaseOK'
    BY <1>1, <1>2, <1>3 DEF PhaseOK, Executing
  <1>9. QED  BY <1>4, <1>5, <1>6, <1>7, <1>8

LEMMA RefuseGenesisStep == ASSUME IInv, RefuseGenesis PROVE IInv'
  <1> USE DEF IInv
  <1>1. UNCHANGED <<given, binary, j, work, coinInfo, meter, evmFee,
                    store, info, blocks, saved, crashes>>
        /\ phase = "genesis" /\ phase' = "panicked" /\ ~genesisOK
    BY DEF RefuseGenesis, outside
  <1>2. store = <<>> /\ coinInfo = "unset" /\ j = 1
    BY <1>1 DEF PhaseOK, AtFirst
  <1>3. TypeOK'
    <2>1. j' \in 1..Modules'
      BY <1>1, <1>2, Orders DEF Modules
    <2>2. QED  BY <1>1, <2>1 DEF TypeOK
  <1>4. ChainOK' /\ SavedOK'
    BY <1>1, SameChain
  <1>5. AtFirst' /\ BinaryOK' /\ InfoOK' /\ SameOnReplay' /\ StopsForAReason'
    BY <1>1, <1>2 DEF AtFirst, BinaryOK, BeganNew, InfoOK, SameOnReplay, StopsForAReason
  <1>6. PhaseOK'
    BY <1>1, <1>2 DEF PhaseOK, Executing
  <1>7. QED  BY <1>3, <1>4, <1>5, <1>6

LEMMA InitChainerMakes == [Genesis EXCEPT !.vm = "new"] = [Started EXCEPT !.coin = "missing"]
  <1>1. [Genesis EXCEPT !.vm = "new"] \in StateType
    BY DEF Genesis, StateType
  <1>2. [Started EXCEPT !.coin = "missing"] \in StateType
    BY DEF Started, StateType
  <1>3. QED  BY <1>1, <1>2, SameState DEF Genesis, Started

LEMMA InitChainerStep == ASSUME IInv, InitChainer PROVE IInv'
  <1> USE DEF IInv
  <1>1. UNCHANGED <<given, binary, j, coinInfo, meter, evmFee,
                    store, info, blocks, saved, crashes>>
    BY DEF InitChainer, outside
  <1>2. phase = "genesis" /\ phase' = "initgenesis" /\ store = <<>> /\ binary = "new" /\ j = 1
    BY DEF InitChainer, PhaseOK, BinaryOK, BeganNew, AtFirst
  <1>3. work' = [Started EXCEPT !.coin = "missing"]
    <2>1. work = Genesis /\ work' = [work EXCEPT !.vm = "new"]
      BY <1>2 DEF InitChainer, PhaseOK
    <2>2. [Genesis EXCEPT !.vm = "new"] = [Started EXCEPT !.coin = "missing"]
      BY InitChainerMakes
    <2>3. QED  BY <2>1, <2>2
  <1>4. TypeOK'
    <2>1. work' \in StateType
      BY <1>3, GenesisType DEF StateType
    <2>2. j' \in 1..Modules'
      BY <1>1, <1>2, Orders DEF Modules
    <2>3. QED  BY <1>1, <1>2, <2>1, <2>2 DEF TypeOK
  <1>5. ChainOK' /\ SavedOK'
    BY <1>1, SameChain
  <1>6. AtFirst' /\ BinaryOK' /\ InfoOK' /\ SameOnReplay' /\ StopsForAReason'
    BY <1>1, <1>2 DEF AtFirst, BinaryOK, BeganNew, InfoOK, SameOnReplay, StopsForAReason
  <1>7. PhaseOK'
    BY <1>1, <1>2, <1>3 DEF PhaseOK, Executing
  <1>8. QED  BY <1>4, <1>5, <1>6, <1>7

LEMMA InitGenesisStep == ASSUME IInv, InitGenesis PROVE IInv'
  <1> USE DEF IInv
  <1>1. UNCHANGED <<given, binary, coinInfo, meter, evmFee,
                    store, info, blocks, saved, crashes>>
    BY DEF InitGenesis, outside
  <1>2. phase = "initgenesis" /\ j \in 1..15 /\ store = <<>> /\ binary = "new"
    BY Orders DEF InitGenesis, PhaseOK, BinaryOK, BeganNew, TypeOK, Modules
  <1>3. /\ work' = IF j = 9 THEN [work EXCEPT !.coin = "known"] ELSE work
        /\ NextModule(GenesisOrder, "ready")
    BY <1>2, GenesisInOrder DEF InitGenesis
  <1>4. work' = [Started EXCEPT !.coin = IF j + 1 > 9 THEN "known" ELSE "missing"]
    <2>1. work = [Started EXCEPT !.coin = IF j > 9 THEN "known" ELSE "missing"]
      BY <1>2 DEF PhaseOK
    <2>2. CASE j = 9
      <3>1. work' = [[Started EXCEPT !.coin = "missing"] EXCEPT !.coin = "known"]
        BY <1>3, <2>1, <2>2
      <3>2. [[Started EXCEPT !.coin = "missing"] EXCEPT !.coin = "known"]
                = [Started EXCEPT !.coin = "known"]
        BY DEF Started
      <3>3. QED  BY <2>2, <3>1, <3>2
    <2>3. CASE j # 9
      <3>1. j > 9 <=> j + 1 > 9
        BY <1>2, <2>3
      <3>2. QED  BY <1>3, <2>1, <2>3, <3>1
    <2>4. QED  BY <2>2, <2>3
  <1>5. \/ j < 15 /\ j' = j + 1 /\ phase' = "initgenesis"
        \/ j = 15 /\ j' = 1 /\ phase' = "ready"
    BY <1>2, <1>3, Orders DEF NextModule
  <1>6. TypeOK'
    <2>1. work' \in StateType
      BY <1>4, GenesisType DEF StateType
    <2>2. j' \in 1..Modules' /\ phase' \in {"initgenesis", "ready"}
      BY <1>2, <1>5, Orders DEF Modules
    <2>3. QED  BY <1>1, <2>1, <2>2 DEF TypeOK
  <1>7. ChainOK' /\ SavedOK'
    BY <1>1, SameChain
  <1>8. AtFirst' /\ BinaryOK' /\ InfoOK' /\ SameOnReplay' /\ StopsForAReason'
    BY <1>1, <1>2, <1>5 DEF AtFirst, BinaryOK, BeganNew, InfoOK, SameOnReplay, StopsForAReason
  <1>9. PhaseOK'
    <2>1. CASE phase' = "initgenesis"
      BY <1>1, <1>2, <1>4, <1>5, <2>1 DEF PhaseOK, Executing
    <2>2. CASE phase' = "ready"
      <3>1. work' = Started /\ Before' = Started
        BY <1>1, <1>2, <1>4, <1>5, <2>2 DEF Started, Before
      <3>2. QED  BY <1>1, <1>2, <2>2, <3>1 DEF PhaseOK, Executing
    <2>3. QED  BY <1>5, <2>1, <2>2
  <1>10. QED  BY <1>6, <1>7, <1>8, <1>9

LEMMA DecideStep == ASSUME IInv, NEW tx \in TxGas, NEW gov \in GovGas, Decide(tx, gov) PROVE IInv'
  <1> USE DEF IInv
  <1>1. UNCHANGED <<given, process, store, info, saved, crashes>> /\ phase = "ready"
    BY DEF Decide
  <1>2. [tx |-> tx, gov |-> gov] \in [tx : Nat, gov : Nat] /\ blocks \in Seq([tx : Nat, gov : Nat])
    BY DEF TypeOK
  <1>3. /\ blocks' \in Seq([tx : Nat, gov : Nat]) /\ Len(blocks') = Len(blocks) + 1
        /\ \A k \in 1..Len(blocks) : blocks'[k] = blocks[k]
        /\ Len(blocks) \in Nat
    BY <1>2 DEF Decide
  <1>4. TypeOK'
    BY <1>1, <1>3 DEF TypeOK, Modules, process
  <1>5. Len(store) \in Nat /\ Height = Len(store) + 1 /\ Height' = Height /\ Len(blocks) < Height
    BY <1>1, SameBlock DEF Decide
  <1>6. ChainOK'
    <2>1. Len(store') <= Len(blocks') /\ Len(blocks') <= Height'
      BY <1>1, <1>3, <1>5 DEF ChainOK
    <2>2. ASSUME NEW h \in 1..Len(store')
          PROVE  /\ Stage(store[h], h)'
                 /\ store'[h].gas = blocks'[h].tx + blocks'[h].gov
                 /\ h > 1 => store'[h].evm.fee = blocks'[h - 1].tx + blocks'[h - 1].gov
      <3>1. h \in 1..Len(blocks) /\ (h > 1 => h - 1 \in 1..Len(blocks))
        BY <1>1, <1>3, <1>5 DEF ChainOK
      <3>2. Stage(store[h], h)'
        BY <1>1, <1>5 DEF ChainOK, Stage, Version, BeganNew
      <3>3. QED  BY <1>1, <1>3, <1>5, <3>1, <3>2 DEF ChainOK
    <2>3. QED  BY <2>1, <2>2 DEF ChainOK
  <1>7. SavedOK'
    BY <1>1, <1>5 DEF SavedOK
  <1>8. AtFirst' /\ BinaryOK' /\ InfoOK' /\ SameOnReplay' /\ StopsForAReason'
    BY <1>1 DEF AtFirst, BinaryOK, BeganNew, InfoOK, SameOnReplay, StopsForAReason, process
  <1>9. PhaseOK'
    BY <1>1, SameBlock DEF PhaseOK, Executing, process
  <1>10. QED  BY <1>4, <1>6, <1>7, <1>8, <1>9

LEMMA FinalizeBlockStep == ASSUME IInv, FinalizeBlock PROVE IInv'
  <1> USE DEF IInv
  <1>1. UNCHANGED <<given, binary, j, work, coinInfo, meter, evmFee,
                    store, info, blocks, saved, crashes>>
        /\ phase = "ready" /\ phase' = "pre" /\ j = 1 /\ Len(blocks) = Height
    BY DEF FinalizeBlock, outside, AtFirst
  <1>2. TypeOK'
    <2>1. j' \in 1..Modules'
      BY <1>1, Orders DEF Modules
    <2>2. QED  BY <1>1, <2>1 DEF TypeOK
  <1>3. ChainOK' /\ SavedOK'
    BY <1>1, SameChain
  <1>4. AtFirst' /\ BinaryOK' /\ InfoOK' /\ SameOnReplay' /\ StopsForAReason'
    BY <1>1 DEF AtFirst, BinaryOK, BeganNew, InfoOK, SameOnReplay, StopsForAReason
  <1>5. PhaseOK'
    BY <1>1, SameBlock DEF PhaseOK, Executing
  <1>6. QED  BY <1>2, <1>3, <1>4, <1>5

-----------------------------------------------------------------------------
(* The modules before a block                                              *)

(* What the plan makes of the state before a block.                        *)
LEMMA BeforeBlock ==
    ASSUME IInv
    PROVE  /\ Before.plan <=> ~BeganNew /\ Len(store) < PlanHeight
           /\ Before.upgraded <=> ~BeganNew /\ Len(store) >= PlanHeight /\ ~skipped
           /\ Before.vm = Version(Len(store))
           /\ Before.coin = IF Version(Len(store)) = "new" THEN "known" ELSE "missing"
           /\ Version(Len(store)) \in {"old", "new"}
           /\ RightBinary = Version(Height)
  <1>1. Len(store) \in Nat /\ (store # <<>> => Len(store) \in 1..Len(store))
    BY StoreType DEF IInv, TypeOK
  <1>2. CASE store = <<>>
    BY <1>2 DEF Before, Started, BeganNew, Version, RightBinary
  <1>3. CASE store # <<>>
    BY <1>1, <1>3 DEF IInv, ChainOK, Before, Stage, Version, RightBinary
  <1>4. QED  BY <1>2, <1>3

(* The state a block is executed on: the plan of it is as it was, has been *)
(* dropped, or has been carried out.                                       *)
LEMMA UpgradeOutcome ==
    ASSUME NEW s \in StateType, binary \in {"old", "new"}
    PROVE  /\ [s EXCEPT !.plan = FALSE] \in StateType
           /\ UpgradeHandler(s) \in StateType
           /\ UpgradeHandler(s).vm = binary /\ UpgradeHandler(s).coin = "known"
           /\ UpgradeHandler(s).plan = FALSE /\ UpgradeHandler(s).upgraded = TRUE
           /\ UpgradeHandler(s).fees = s.fees /\ UpgradeHandler(s).gas = s.gas
           /\ UpgradeHandler(s).baseFee = s.baseFee /\ UpgradeHandler(s).evm = s.evm
  BY DEF UpgradeHandler, StateType

LEMMA PreBlockUpgradeStep == ASSUME IInv, PreBlockUpgrade PROVE IInv'
  <1> USE DEF IInv
  <1>1. UNCHANGED <<given, binary, coinInfo, meter, evmFee,
                    store, info, blocks, saved, crashes>>
    BY DEF PreBlockUpgrade, outside
  <1>2. phase = "pre" /\ j = 1 /\ phase' = "pre" /\ j' = 2
    <2>1. phase = "pre" /\ j \in 1..2
      BY Orders DEF PreBlockUpgrade, AtUpgrade, TypeOK, Modules
    <2>2. QED  BY <2>1, Orders DEF PreBlockUpgrade, AtUpgrade, NextModule
  <1>3. work = Before /\ Before \in StateType /\ Len(store) \in Nat /\ Height = Len(store) + 1
    BY <1>2, SameBlock, StoreType, GenesisType DEF PhaseOK, TypeOK, Before, Height
  <1>4. work' \in StateType /\ Stage(work', Height) /\ binary = Version(Height)
        /\ work'.fees = Before.fees /\ work'.gas = Before.gas
        /\ work'.baseFee = Before.baseFee /\ work'.evm = Before.evm
    <2>1. binary \in {"old", "new"} /\ (skipped => binary = "old") /\ (BeganNew => binary = "new")
      BY <1>2 DEF TypeOK, BinaryOK
    <2>2. CASE PlanDue /\ skipped
      <3>1. work' = [Before EXCEPT !.plan = FALSE]
        BY <1>3, <2>2 DEF PreBlockUpgrade
      <3>2. /\ work'.vm = Before.vm /\ work'.coin = Before.coin /\ work'.plan = FALSE
            /\ work'.upgraded = Before.upgraded
            /\ work'.fees = Before.fees /\ work'.gas = Before.gas
            /\ work'.baseFee = Before.baseFee /\ work'.evm = Before.evm
        BY <1>3, <3>1 DEF StateType
      <3>3. ~BeganNew /\ Height >= PlanHeight /\ binary = "old"
        BY <1>3, <2>1, <2>2, BeforeBlock DEF PlanDue
      <3>4. Version(Height) = "old" /\ Version(Len(store)) = "old"
        BY <2>2, <3>3 DEF Version
      <3>5. ~(Height < PlanHeight) /\ ~Before.upgraded
        BY <1>3, <2>2, <3>3, BeforeBlock
      <3>6. Stage(work', Height)
        BY <2>2, <3>2, <3>3, <3>4, <3>5, BeforeBlock DEF Stage
      <3>7. work' \in StateType
        BY <1>3, <2>1, <3>1, UpgradeOutcome
      <3>8. QED  BY <3>2, <3>3, <3>4, <3>6, <3>7
    <2>3. CASE PlanDue /\ ~skipped
      <3>1. work' = UpgradeHandler(Before) /\ binary = "new"
        BY <1>3, <2>3 DEF PreBlockUpgrade, HasHandler
      <3>2. ~BeganNew /\ Height >= PlanHeight
        BY <1>3, <2>3, BeforeBlock DEF PlanDue
      <3>3. Version(Height) = "new"
        BY <2>3, <3>2 DEF Version
      <3>4. ~(Height < PlanHeight)
        BY <1>3, <3>2
      <3>5. /\ work'.vm = "new" /\ work'.coin = "known" /\ work'.plan = FALSE /\ work'.upgraded = TRUE
            /\ work'.fees = Before.fees /\ work'.gas = Before.gas
            /\ work'.baseFee = Before.baseFee /\ work'.evm = Before.evm
            /\ work' \in StateType
        BY <1>3, <2>1, <3>1, UpgradeOutcome
      <3>6. Stage(work', Height)
        BY <2>3, <3>2, <3>3, <3>4, <3>5 DEF Stage
      <3>7. QED  BY <3>1, <3>3, <3>5, <3>6
    <2>4. CASE ~PlanDue
      <3>1. work' = Before
        BY <1>3, <2>4 DEF PreBlockUpgrade
      <3>2. ~(Before.upgraded /\ binary = "old") /\ ~(Before.plan /\ binary = "new")
        BY <1>3, <2>1, <2>4 DEF PreBlockUpgrade, WrongBinary, HasHandler
      <3>3. Before.plan <=> ~BeganNew /\ Height < PlanHeight
        BY <1>3, <2>4, BeforeBlock DEF PlanDue
      <3>4. Before.upgraded <=> ~BeganNew /\ Height >= PlanHeight /\ ~skipped
        BY <1>3, <3>3, BeforeBlock
      <3>5. Version(Height) = Version(Len(store)) /\ binary = Version(Height)
        BY <1>3, <2>1, <3>2, <3>3, <3>4, BeforeBlock DEF Version
      <3>6. Stage(work', Height)
        BY <3>1, <3>3, <3>4, <3>5, BeforeBlock DEF Stage
      <3>7. QED  BY <1>3, <3>1, <3>5, <3>6
    <2>5. QED  BY <2>2, <2>3, <2>4
  <1>5. TypeOK'
    <2>1. j' \in 1..Modules'
      BY <1>2, Orders DEF Modules
    <2>2. QED  BY <1>1, <1>2, <1>4, <2>1 DEF TypeOK
  <1>6. ChainOK' /\ SavedOK'
    BY <1>1, SameChain
  <1>7. AtFirst' /\ BinaryOK' /\ InfoOK' /\ SameOnReplay' /\ StopsForAReason'
    BY <1>1, <1>2 DEF AtFirst, BinaryOK, BeganNew, InfoOK, SameOnReplay, StopsForAReason
  <1>8. PhaseOK'
    <2>1. Height' = Height /\ Before' = Before
      BY <1>1, SameBlock
    <2>2. Stage(work, Height)' /\ binary' = Version(Height)'
      BY <1>1, <1>4, <2>1 DEF Stage, Version, BeganNew
    <2>3. Kept({"fees", "gas", "baseFee", "evm"})'
      BY <1>4, <2>1 DEF Kept
    <2>4. Len(blocks') = Height'
      BY <1>1, <1>2, <2>1 DEF PhaseOK
    <2>5. QED  BY <1>1, <1>2, <2>2, <2>3, <2>4 DEF PhaseOK, Executing
  <1>9. QED  BY <1>5, <1>6, <1>7, <1>8

(* A binary that the upgrade module stops is not the one for the block.    *)
LEMMA RefusedForAReason ==
    ASSUME IInv, AtUpgrade, WrongBinary \/ (PlanDue /\ ~skipped /\ ~HasHandler)
    PROVE  binary # RightBinary
  <1> USE DEF IInv
  <1>1. phase = "pre" /\ j = 1
    <2>1. phase = "pre" /\ j \in 1..2
      BY Orders DEF AtUpgrade, TypeOK, Modules
    <2>2. QED  BY <2>1, Orders DEF AtUpgrade
  <1>2. work = Before /\ Len(store) \in Nat /\ Height = Len(store) + 1 /\ binary \in {"old", "new"}
    BY <1>1, SameBlock, StoreType DEF PhaseOK, TypeOK, Height
  <1>3. CASE work.upgraded /\ ~HasHandler
    BY <1>2, <1>3, BeforeBlock DEF HasHandler, RightBinary
  <1>4. CASE work.plan /\ ~PlanDue /\ HasHandler
    BY <1>2, <1>4, BeforeBlock DEF PlanDue, HasHandler, RightBinary
  <1>5. CASE PlanDue /\ ~skipped /\ ~HasHandler
    BY <1>2, <1>5, BeforeBlock DEF PlanDue, HasHandler, RightBinary
  <1>6. QED  BY <1>3, <1>4, <1>5 DEF WrongBinary

(* The handler fails at the planned height only: the plan is not of before *)
(* the last block any more.                                                *)
LEMMA UpgradeFailsStep == ASSUME IInv, UpgradeFails PROVE IInv'
  <1> USE DEF IInv
  <1>1. UNCHANGED <<given, binary, j, work, coinInfo, meter, evmFee,
                    store, info, blocks, saved, crashes>>
        /\ phase = "pre" /\ phase' = "failed" /\ PlanDue /\ ~skipped /\ ~migrates
    BY DEF UpgradeFails, AtUpgrade, outside
  <1>2. j = 1
    <2>1. j \in 1..2
      BY <1>1, Orders DEF TypeOK, Modules
    <2>2. QED  BY <2>1, Orders DEF UpgradeFails, AtUpgrade
  <1>3. work = Before /\ Len(store) \in Nat /\ Height = Len(store) + 1 /\ Height' = Height
        /\ (BeganNew' <=> BeganNew)
    BY <1>1, <1>2, SameBlock DEF PhaseOK
  <1>4. ~BeganNew /\ Height = PlanHeight
    <2>1. Before.plan /\ PlanHeight <= Height
      BY <1>1, <1>3 DEF PlanDue
    <2>2. ~BeganNew /\ Len(store) < PlanHeight
      BY <2>1, BeforeBlock
    <2>3. QED  BY <1>3, <2>1, <2>2 DEF EvmdAppAssumption
  <1>5. TypeOK'
    <2>1. j' \in 1..Modules'
      BY <1>1, <1>2, Orders DEF Modules
    <2>2. QED  BY <1>1, <2>1 DEF TypeOK
  <1>6. ChainOK' /\ SavedOK'
    BY <1>1, SameChain
  <1>7. AtFirst' /\ BinaryOK' /\ InfoOK' /\ SameOnReplay'
    BY <1>1, <1>3 DEF AtFirst, BinaryOK, InfoOK, SameOnReplay
  <1>8. StopsForAReason'
    BY <1>1, <1>3, <1>4 DEF StopsForAReason
  <1>9. PhaseOK'
    BY <1>1 DEF PhaseOK, Executing
  <1>10. QED  BY <1>5, <1>6, <1>7, <1>8, <1>9

LEMMA RefuseBinaryStep == ASSUME IInv, RefuseBinary PROVE IInv'
  <1> USE DEF IInv
  <1>1. UNCHANGED <<given, binary, j, work, coinInfo, meter, evmFee,
                    store, info, blocks, saved, crashes>>
        /\ phase = "pre" /\ phase' = "panicked"
    BY DEF RefuseBinary, AtUpgrade, outside
  <1>2. binary # RightBinary /\ RightBinary' = RightBinary
    BY <1>1, RefusedForAReason, SameBlock DEF RefuseBinary
  <1>3. TypeOK'
    <2>1. j' \in 1..Modules'
      BY <1>1, Orders DEF TypeOK, Modules
    <2>2. QED  BY <1>1, <2>1 DEF TypeOK
  <1>4. ChainOK' /\ SavedOK'
    BY <1>1, SameChain
  <1>5. AtFirst' /\ BinaryOK' /\ InfoOK' /\ SameOnReplay' /\ StopsForAReason'
    BY <1>1, <1>2 DEF AtFirst, BinaryOK, BeganNew, InfoOK, SameOnReplay, StopsForAReason
  <1>6. PhaseOK'
    BY <1>1 DEF PhaseOK, Executing
  <1>7. QED  BY <1>3, <1>4, <1>5, <1>6

LEMMA BeginDumpStep == ASSUME IInv, BeginDump PROVE IInv'
  <1> USE DEF IInv
  <1>1. UNCHANGED <<given, binary, j, work, coinInfo, meter, evmFee,
                    store, blocks, saved, crashes>>
        /\ phase = "pre" /\ phase' = "dumping" /\ info' = "empty"
    BY DEF BeginDump, AtUpgrade
  <1>2. binary # RightBinary /\ RightBinary' = RightBinary
    BY <1>1, RefusedForAReason, SameBlock DEF BeginDump
  <1>3. TypeOK'
    <2>1. j' \in 1..Modules'
      BY <1>1, Orders DEF TypeOK, Modules
    <2>2. QED  BY <1>1, <2>1 DEF TypeOK
  <1>4. ChainOK' /\ SavedOK'
    BY <1>1, SameChain
  <1>5. AtFirst' /\ BinaryOK' /\ InfoOK' /\ SameOnReplay' /\ StopsForAReason'
    BY <1>1 DEF AtFirst, BinaryOK, BeganNew, InfoOK, SameOnReplay, StopsForAReason
  <1>6. PhaseOK'
    BY <1>1, <1>2 DEF PhaseOK, Executing
  <1>7. QED  BY <1>3, <1>4, <1>5, <1>6

LEMMA DumpStep == ASSUME IInv, Dump PROVE IInv'
  <1> USE DEF IInv
  <1>1. UNCHANGED <<given, binary, j, work, coinInfo, meter, evmFee,
                    store, blocks, saved, crashes>>
        /\ phase = "dumping" /\ phase' = "panicked" /\ info' = "written"
    BY DEF Dump
  <1>2. binary # RightBinary /\ RightBinary' = RightBinary
    BY <1>1, SameBlock DEF PhaseOK
  <1>3. TypeOK'
    <2>1. j' \in 1..Modules'
      BY <1>1, Orders DEF TypeOK, Modules
    <2>2. QED  BY <1>1, <2>1 DEF TypeOK
  <1>4. ChainOK' /\ SavedOK'
    BY <1>1, SameChain
  <1>5. AtFirst' /\ BinaryOK' /\ InfoOK' /\ SameOnReplay' /\ StopsForAReason'
    BY <1>1, <1>2 DEF AtFirst, BinaryOK, BeganNew, InfoOK, SameOnReplay, StopsForAReason
  <1>6. PhaseOK'
    BY <1>1 DEF PhaseOK, Executing
  <1>7. QED  BY <1>3, <1>4, <1>5, <1>6

LEMMA PreBlockEVMStep == ASSUME IInv, PreBlockEVM PROVE IInv'
  <1> USE DEF IInv
  <1>1. UNCHANGED <<given, binary, work, meter, evmFee,
                    store, info, blocks, saved, crashes>>
    BY DEF PreBlockEVM, outside
  <1>2. phase = "pre" /\ j = 2 /\ phase' = "begin" /\ j' = 1
    <2>1. phase = "pre" /\ j \in 1..2
      BY Orders DEF PreBlockEVM, TypeOK, Modules
    <2>2. QED  BY <2>1, Orders DEF PreBlockEVM, NextModule
  <1>3. /\ Stage(work, Height) /\ binary = Version(Height) /\ Len(blocks) = Height
        /\ work.fees = Before.fees /\ work.gas = Before.gas
        /\ work.baseFee = Before.baseFee /\ work.evm = Before.evm
        /\ binary \in {"old", "new"}
    BY <1>2 DEF PhaseOK, Kept, TypeOK
  <1>4. coinInfo' \in {"unset", "known"} /\ (binary = "new" => coinInfo' = "known")
        /\ (binary = "old" => coinInfo' = "unset")
    BY <1>3 DEF PreBlockEVM, PhaseOK, Stage
  <1>5. TypeOK'
    <2>1. j' \in 1..Modules'
      BY <1>2, Orders DEF Modules
    <2>2. QED  BY <1>1, <1>2, <1>4, <2>1 DEF TypeOK
  <1>6. ChainOK' /\ SavedOK'
    BY <1>1, SameChain
  <1>7. AtFirst' /\ BinaryOK' /\ InfoOK' /\ SameOnReplay' /\ StopsForAReason'
    BY <1>1, <1>2 DEF AtFirst, BinaryOK, BeganNew, InfoOK, SameOnReplay, StopsForAReason
  <1>8. PhaseOK'
    <2>1. Height' = Height /\ Before' = Before
      BY <1>1, SameBlock
    <2>2. Stage(work, Height)' /\ binary' = Version(Height)'
      BY <1>1, <1>3, <2>1 DEF Stage, Version, BeganNew
    <2>3. QED  BY <1>1, <1>2, <1>3, <1>4, <2>1, <2>2 DEF PhaseOK, Executing, Kept
  <1>9. QED  BY <1>5, <1>6, <1>7, <1>8

-----------------------------------------------------------------------------
(* The block, its end, and what is kept of it                              *)

LEMMA ChainTypes ==
    ASSUME IInv, Len(blocks) = Height
    PROVE  /\ blocks[Height] \in [tx : Nat, gov : Nat]
           /\ blocks[Height].tx \in Nat /\ blocks[Height].gov \in Nat
  <1>1. blocks \in Seq([tx : Nat, gov : Nat]) /\ store \in Seq(StateType)
    BY DEF IInv, TypeOK
  <1>2. blocks[Height] \in [tx : Nat, gov : Nat]
    <2>1. Height \in 1..Len(blocks)
      BY <1>1, StoreType
    <2>2. QED  BY <1>1, <2>1, ElementOfSeq
  <1>3. QED  BY <1>2

\* The state after transactions that pay n, with the EVM's coin and base fee.
Delivery(s, n, c, f) == [s EXCEPT !.fees = @ + n, !.evm = [coin |-> c, fee |-> f]]

LEMMA Delivered ==
    ASSUME NEW s \in StateType, NEW n \in Nat, NEW f \in Nat,
           NEW c \in {"unset", "missing", "known"}
    PROVE  Delivery(s, n, c, f) \in StateType
  <1>1. [coin |-> c, fee |-> f] \in [coin : {"unset", "missing", "known"}, fee : Nat]
    OBVIOUS
  <1>2. s.fees + n \in Nat
    BY DEF StateType
  <1>3. QED  BY <1>1, <1>2 DEF Delivery, StateType

LEMMA DeliverTxsStep == ASSUME IInv, DeliverTxs PROVE IInv'
  <1> USE DEF IInv
  <1>1. UNCHANGED <<given, binary, j, coinInfo, evmFee,
                    store, info, blocks, saved, crashes>>
        /\ phase = "txs" /\ phase' = "end" /\ meter' = blocks[Height].tx /\ j = 1
    BY DEF DeliverTxs, outside, AtFirst
  <1>2. /\ Len(blocks) = Height /\ Stage(work, Height) /\ binary = Version(Height)
        /\ binary = "new" => coinInfo = "known"
        /\ binary = "old" => coinInfo = "unset"
        /\ work.gas = Before.gas /\ work.fees = FeesLeft
        /\ work.baseFee = Before.gas /\ evmFee = Before.gas
        /\ binary \in {"old", "new"} /\ evmFee \in Nat
        /\ coinInfo \in {"unset", "missing", "known"} /\ work \in StateType
    BY <1>1 DEF PhaseOK, Executing, Kept, TypeOK
  <1>3. blocks[Height].tx \in Nat
    BY <1>2, ChainTypes
  <1>4. /\ work' \in StateType
        /\ work'.vm = work.vm /\ work'.coin = work.coin /\ work'.plan = work.plan
        /\ work'.upgraded = work.upgraded
        /\ work'.fees = work.fees + blocks[Height].tx /\ work'.baseFee = work.baseFee
        /\ work'.evm = [coin |-> coinInfo, fee |-> evmFee]
    <2>1. work' = Delivery(work, blocks[Height].tx, coinInfo, evmFee)
      BY DEF DeliverTxs, Delivery
    <2>2. /\ work \in StateType /\ blocks[Height].tx \in Nat /\ evmFee \in Nat
          /\ coinInfo \in {"unset", "missing", "known"}
      BY <1>2, <1>3
    <2>3. /\ work'.vm = work.vm /\ work'.coin = work.coin /\ work'.plan = work.plan
          /\ work'.upgraded = work.upgraded
      BY <2>1, <2>2 DEF Delivery, StateType
    <2>4. work'.fees = work.fees + blocks[Height].tx /\ work'.baseFee = work.baseFee
      BY <2>1, <2>2 DEF Delivery, StateType
    <2>5. work'.evm = [coin |-> coinInfo, fee |-> evmFee]
      BY <2>1, <2>2 DEF Delivery, StateType
    <2>6. Delivery(work, blocks[Height].tx, coinInfo, evmFee) \in StateType
      BY <2>2, Delivered
    <2>7. QED  BY <2>1, <2>3, <2>4, <2>5, <2>6
  <1>5. TypeOK'
    <2>1. j' \in 1..Modules'
      BY <1>1, Orders DEF Modules
    <2>2. QED  BY <1>1, <1>3, <1>4, <2>1 DEF TypeOK
  <1>6. ChainOK' /\ SavedOK'
    BY <1>1, SameChain
  <1>7. AtFirst' /\ BinaryOK' /\ InfoOK' /\ SameOnReplay' /\ StopsForAReason'
    BY <1>1 DEF AtFirst, BinaryOK, BeganNew, InfoOK, SameOnReplay, StopsForAReason
  <1>8. PhaseOK'
    <2>1. Height' = Height /\ Before' = Before /\ FeesLeft' = FeesLeft
          /\ Version(Height)' = Version(Height)
      BY <1>1, SameBlock
    <2>2. Stage(work, Height)' /\ binary' = Version(Height)'
      BY <1>1, <1>2, <1>4, <2>1 DEF Stage, Version, BeganNew
    <2>3. work'.evm = [coin |-> IF Version(Height) = "new" THEN "known" ELSE "unset",
                       fee |-> Before.gas]
      BY <1>2, <1>4
    <2>4. meter' = blocks[Height].tx + 0
      BY <1>1, <1>3
    <2>5. QED  BY <1>1, <1>2, <1>4, <2>1, <2>2, <2>3, <2>4 DEF PhaseOK, Executing
  <1>9. QED  BY <1>5, <1>6, <1>7, <1>8

LEMMA EndBlockStep == ASSUME IInv, EndBlock PROVE IInv'
  <1> USE DEF IInv
  <1>1. UNCHANGED <<given, binary, coinInfo, evmFee,
                    store, info, blocks, saved, crashes>>
    BY DEF EndBlock, outside
  <1>2. phase = "end" /\ j \in 1..3
    BY Orders DEF EndBlock, TypeOK, Modules
  <1>3. /\ Len(blocks) = Height /\ Stage(work, Height) /\ binary = Version(Height)
        /\ binary = "new" => coinInfo = "known"
        /\ binary = "old" => coinInfo = "unset"
        /\ work.fees = FeesLeft + blocks[Height].tx
        /\ work.baseFee = Before.gas
        /\ work.evm = [coin |-> IF Version(Height) = "new" THEN "known" ELSE "unset",
                       fee |-> Before.gas]
        /\ meter = blocks[Height].tx + (IF j = 1 THEN 0 ELSE blocks[Height].gov)
        /\ work \in StateType /\ meter \in Nat
    BY <1>2 DEF PhaseOK, Executing, TypeOK
  <1>4. blocks[Height].tx \in Nat /\ blocks[Height].gov \in Nat
    BY <1>3, ChainTypes
  <1>5. meter' = blocks[Height].tx + blocks[Height].gov /\ meter' \in Nat
    <2>1. EndBlockers[j] = "gov" <=> j = 1
      BY <1>2, Orders
    <2>2. QED  BY <1>3, <1>4, <2>1 DEF EndBlock
  <1>6. /\ work' \in StateType
        /\ work'.vm = work.vm /\ work'.coin = work.coin /\ work'.plan = work.plan
        /\ work'.upgraded = work.upgraded /\ work'.fees = work.fees
        /\ work'.baseFee = work.baseFee /\ work'.evm = work.evm
        /\ j = 3 => work'.gas = meter
    <2>1. EndBlockers[j] = "feemarket" <=> j = 3
      BY <1>2, Orders
    <2>2. CASE j = 3
      BY <1>3, <2>1, <2>2 DEF EndBlock, StateType
    <2>3. CASE j # 3
      BY <1>3, <2>1, <2>3 DEF EndBlock
    <2>4. QED  BY <2>2, <2>3
  <1>7. \/ j < 3 /\ j' = j + 1 /\ phase' = "end"
        \/ j = 3 /\ j' = 1 /\ phase' = "finalizing"
    BY <1>2, Orders DEF EndBlock, NextModule
  <1>8. TypeOK'
    <2>1. j' \in 1..Modules' /\ phase' \in {"end", "finalizing"}
      BY <1>2, <1>7, Orders DEF Modules
    <2>2. QED  BY <1>1, <1>5, <1>6, <2>1 DEF TypeOK
  <1>9. ChainOK' /\ SavedOK'
    BY <1>1, SameChain
  <1>10. AtFirst' /\ BinaryOK' /\ InfoOK' /\ SameOnReplay' /\ StopsForAReason'
    BY <1>1, <1>2, <1>7 DEF AtFirst, BinaryOK, BeganNew, InfoOK, SameOnReplay, StopsForAReason
  <1>11. PhaseOK'
    <2>1. Height' = Height /\ Before' = Before /\ FeesLeft' = FeesLeft
          /\ Version(Height)' = Version(Height)
      BY <1>1, SameBlock
    <2>2. Stage(work, Height)' /\ binary' = Version(Height)'
      BY <1>1, <1>3, <1>6, <2>1 DEF Stage, Version, BeganNew
    <2>3. CASE phase' = "end"
      <3>1. j' # 1
        BY <1>2, <1>7, <2>3
      <3>2. QED  BY <1>1, <1>3, <1>5, <1>6, <2>1, <2>2, <2>3, <3>1 DEF PhaseOK, Executing
    <2>4. CASE phase' = "finalizing"
      <3>1. work'.gas = blocks[Height].tx + blocks[Height].gov
        BY <1>2, <1>3, <1>6, <1>7, <2>4
      <3>2. Outcome(work)'
        BY <1>1, <1>3, <1>6, <2>1, <3>1 DEF Outcome
      <3>3. QED  BY <1>1, <1>3, <2>1, <2>2, <2>4, <3>2 DEF PhaseOK, Executing
    <2>5. QED  BY <1>7, <2>3, <2>4
  <1>12. QED  BY <1>8, <1>9, <1>10, <1>11

(* What a block leaves is determined by what was before it.                *)
LEMMA OneOutcome ==
    ASSUME NEW s \in StateType, NEW t \in StateType, NEW h,
           Stage(s, h), Stage(t, h), Outcome(s), Outcome(t)
    PROVE  s = t
  <1>1. s.vm = t.vm /\ s.coin = t.coin
    BY DEF Stage
  <1>2. s.plan = t.plan /\ s.upgraded = t.upgraded
    BY DEF Stage, StateType
  <1>3. s.fees = t.fees /\ s.gas = t.gas /\ s.baseFee = t.baseFee /\ s.evm = t.evm
    BY DEF Outcome
  <1>4. QED  BY <1>1, <1>2, <1>3, SameState

LEMMA FinalizedStep == ASSUME IInv, Finalized PROVE IInv'
  <1> USE DEF IInv
  <1>1. UNCHANGED <<given, binary, j, work, coinInfo, meter, evmFee,
                    store, info, blocks, crashes>>
        /\ phase = "finalizing" /\ phase' = "finalized" /\ j = 1
        /\ saved' = IF saved = None THEN work ELSE saved
    BY DEF Finalized, AtFirst
  <1>2. Len(blocks) = Height /\ Stage(work, Height) /\ Outcome(work) /\ work \in StateType
    BY <1>1 DEF PhaseOK, Executing, TypeOK
  <1>3. saved' = work
    <2>1. CASE saved = None
      BY <1>1, <2>1
    <2>2. CASE saved # None
      <3>1. saved \in StateType /\ Stage(saved, Height) /\ Outcome(saved)
        BY <2>2 DEF TypeOK, SavedOK
      <3>2. saved = work
        BY <1>2, <3>1, OneOutcome
      <3>3. QED  BY <1>1, <2>2, <3>2
    <2>3. QED  BY <2>1, <2>2
  <1>4. TypeOK'
    <2>1. j' \in 1..Modules'
      BY <1>1, Orders DEF Modules
    <2>2. QED  BY <1>1, <1>2, <1>3, <2>1 DEF TypeOK
  <1>5. Height' = Height /\ Before' = Before /\ FeesLeft' = FeesLeft
        /\ Version(Height)' = Version(Height)
    BY <1>1, SameBlock
  <1>6. Stage(work, Height)' /\ Outcome(work)'
    BY <1>1, <1>2, <1>5 DEF Stage, Outcome, Version, BeganNew
  <1>7. ChainOK'
    BY <1>1 DEF ChainOK, Stage, Version, BeganNew, Height
  <1>8. SavedOK'
    BY <1>1, <1>2, <1>3, <1>5, <1>6 DEF SavedOK, Stage, Outcome
  <1>9. AtFirst' /\ BinaryOK' /\ InfoOK' /\ SameOnReplay' /\ StopsForAReason'
    BY <1>1, <1>3 DEF AtFirst, BinaryOK, BeganNew, InfoOK, SameOnReplay, StopsForAReason
  <1>10. PhaseOK'
    BY <1>1, <1>5, <1>6 DEF PhaseOK, Executing
  <1>11. QED  BY <1>4, <1>7, <1>8, <1>9, <1>10

LEMMA CommitStep == ASSUME IInv, Commit PROVE IInv'
  <1> USE DEF IInv
  <1>1. UNCHANGED <<given, binary, j, work, coinInfo, info, blocks, crashes>>
        /\ phase = "finalized" /\ phase' = "ready" /\ j = 1
        /\ saved' = None /\ meter' = 0 /\ evmFee' = 0
    BY DEF Commit, AtFirst
  <1>2. Len(blocks) = Height /\ Stage(work, Height) /\ Outcome(work) /\ work \in StateType
    BY <1>1 DEF PhaseOK, Executing, TypeOK
  <1>3. store \in Seq(StateType) /\ Len(store) \in Nat /\ Height = Len(store) + 1
    BY StoreType DEF TypeOK, Height
  <1>4. /\ store' \in Seq(StateType) /\ Len(store') = Height /\ Height' = Height + 1
        /\ \A h \in 1..Len(store) : store'[h] = store[h]
        /\ store'[Height] = work /\ store' # <<>>
    BY <1>2, <1>3 DEF Commit, Height
  <1>5. BeganNew' <=> BeganNew
    <2>1. CASE store = <<>>
      <3>1. Height = 1 /\ store'[1] = work /\ BeganNew
        BY <1>3, <1>4, <2>1 DEF BeganNew
      <3>2. work.vm = "new"
        BY <1>2, <3>1 DEF Stage, Version
      <3>3. QED  BY <3>1, <3>2 DEF BeganNew
    <2>2. CASE store # <<>>
      <3>1. store'[1] = store[1]
        BY <1>3, <1>4, <2>2, StoreType
      <3>2. QED  BY <1>4, <2>2, <3>1 DEF BeganNew
    <2>3. QED  BY <2>1, <2>2
  <1>6. TypeOK'
    <2>1. j' \in 1..Modules'
      BY <1>1, Orders DEF Modules
    <2>2. QED  BY <1>1, <1>4, <2>1 DEF TypeOK
  <1>7. ChainOK'
    <2>1. Len(store') <= Len(blocks') /\ Len(blocks') <= Height'
      BY <1>1, <1>2, <1>3, <1>4
    <2>2. ASSUME NEW h \in 1..Len(store')
          PROVE  /\ Stage(store[h], h)'
                 /\ store'[h].gas = blocks'[h].tx + blocks'[h].gov
                 /\ h > 1 => store'[h].evm.fee = blocks'[h - 1].tx + blocks'[h - 1].gov
      <3>1. CASE h \in 1..Len(store)
        <4>1. store'[h] = store[h] /\ blocks' = blocks
          BY <1>1, <1>4, <3>1
        <4>2. Stage(store[h], h)'
          BY <1>1, <1>5, <3>1, <4>1 DEF ChainOK, Stage, Version
        <4>3. QED  BY <3>1, <4>1, <4>2 DEF ChainOK
      <3>2. CASE h = Height
        <4>1. store'[h] = work /\ blocks' = blocks
          BY <1>1, <1>4, <3>2
        <4>2. Stage(store[h], h)'
          BY <1>1, <1>2, <1>5, <3>2, <4>1 DEF Stage, Version
        <4>3. work.gas = blocks[h].tx + blocks[h].gov /\ work.evm.fee = Before.gas
          BY <1>2, <3>2 DEF Outcome
        <4>4. h > 1 => Before.gas = blocks[h - 1].tx + blocks[h - 1].gov
          <5>1. h > 1 => h - 1 = Len(store) /\ h - 1 \in 1..Len(store) /\ store # <<>>
            BY <1>3, <3>2
          <5>2. QED  BY <5>1 DEF ChainOK, Before
        <4>5. QED  BY <4>1, <4>2, <4>3, <4>4
      <3>3. QED  BY <1>3, <1>4, <3>1, <3>2
    <2>3. QED  BY <2>1, <2>2 DEF ChainOK
  <1>8. AtFirst' /\ BinaryOK' /\ SavedOK' /\ InfoOK' /\ SameOnReplay' /\ StopsForAReason'
    BY <1>1, <1>5 DEF AtFirst, BinaryOK, SavedOK, InfoOK, SameOnReplay, StopsForAReason
  <1>9. PhaseOK'
    <2>1. work' = Before'
      BY <1>1, <1>4 DEF Before
    <2>2. QED  BY <1>1, <2>1 DEF PhaseOK, Executing
  <1>10. QED  BY <1>6, <1>7, <1>8, <1>9

-----------------------------------------------------------------------------
(* The invariant, and what follows from it                                 *)

LEMMA Stutter == ASSUME IInv, UNCHANGED vars PROVE IInv'
  <1> USE DEF IInv, vars, process, outside
  <1>1. TypeOK'
    BY DEF TypeOK, Modules
  <1>2. ChainOK' /\ SavedOK'
    BY SameChain
  <1>3. AtFirst' /\ BinaryOK' /\ InfoOK' /\ SameOnReplay' /\ StopsForAReason'
    BY SameBlock DEF AtFirst, BinaryOK, InfoOK, SameOnReplay, StopsForAReason
  <1>4. PhaseOK'
    BY SameBlock DEF PhaseOK, Executing, Kept, Stage, Outcome, Version
  <1>5. QED  BY <1>1, <1>2, <1>3, <1>4

(* Every step of the application, of CometBFT and of the operator keeps    *)
(* the invariant, for any plan, any gas and any bound on the crashes.      *)
THEOREM Invariance == Spec => []IInv
  <1>1. IInv /\ [Next]_vars => IInv'
    <2> SUFFICES ASSUME IInv, [Next]_vars PROVE IInv'
      OBVIOUS
    <2>1. CASE \E b \in {"old", "new"} : NewApp(b) \/ RefuseInfo(b) \/ FailApp(b)
      BY <2>1, NewAppStep, NoAppStep
    <2>2. CASE \E tx \in TxGas, gov \in GovGas : Decide(tx, gov)
      BY <2>2, DecideStep
    <2>3. CASE Step
      <3>1. CASE Exit
        BY <3>1, EndSteps
      <3>2. CASE InitChainer \/ RefuseGenesis \/ InitGenesis
        BY <3>2, InitChainerStep, RefuseGenesisStep, InitGenesisStep
      <3>3. CASE PreBlockUpgrade \/ UpgradeFails \/ RefuseBinary \/ BeginDump \/ Dump \/ PreBlockEVM
        BY <3>3, PreBlockUpgradeStep, UpgradeFailsStep, RefuseBinaryStep, BeginDumpStep, DumpStep, PreBlockEVMStep
      <3>4. CASE BeginBlock \/ DeliverTxs \/ EndBlock \/ Finalized \/ Commit
        BY <3>4, BeginBlockStep, DeliverTxsStep, EndBlockStep, FinalizedStep, CommitStep
      <3>5. QED  BY <2>3, <3>1, <3>2, <3>3, <3>4 DEF Step
    <2>4. CASE FinalizeBlock
      BY <2>4, FinalizeBlockStep
    <2>5. CASE Close \/ Crash \/ RemoveInfo
      BY <2>5, EndSteps, RemoveInfoStep
    <2>6. CASE UNCHANGED vars
      BY <2>6, Stutter
    <2>7. QED  BY <2>1, <2>2, <2>3, <2>4, <2>5, <2>6 DEF Next
  <1>2. QED  BY <1>1, InitInv, PTL DEF Spec

(* No order of modules is left half way or run past its end, and every     *)
(* other variable has its type.                                            *)
THEOREM TypeCorrect == Spec => []TypeOK
  <1>1. IInv => TypeOK
    BY DEF IInv
  <1>2. QED  BY <1>1, Invariance, PTL

(* No transaction is executed by modules of another version than the state *)
(* has, nor by an EVM that does not know the coin of the state.            *)
THEOREM VersionsAlwaysMatch == Spec => []VersionsMatch
  <1>1. IInv => VersionsMatch
    BY DEF IInv, PhaseOK, Executing, Stage, VersionsMatch
  <1>2. QED  BY <1>1, Invariance, PTL

(* The chain is upgraded at the planned height and at no other, and not at *)
(* all if that is skipped.                                                 *)
THEOREM UpgradesAtPlanOnly == Spec => []UpgradedAtPlan
  <1>1. IInv => UpgradedAtPlan
    <2> SUFFICES ASSUME IInv PROVE UpgradedAtPlan
      OBVIOUS
    <2>1. DOMAIN store = 1..Len(store)
      BY DEF IInv, TypeOK
    <2>2. QED  BY <2>1 DEF IInv, ChainOK, Stage, Version, UpgradedAtPlan
  <1>2. QED  BY <1>1, Invariance, PTL

(* A block executed again after a crash, by the same binary or by the next *)
(* one, has the result that the network knows.                             *)
THEOREM ReplayAgrees == Spec => []SameOnReplay
  <1>1. IInv => SameOnReplay
    BY DEF IInv
  <1>2. QED  BY <1>1, Invariance, PTL

(* The base fee of each block follows from all the gas of the one before.  *)
THEOREM BaseFeeIsOfLastBlock == Spec => []BaseFeeFollowsGas
  <1>1. IInv => BaseFeeFollowsGas
    <2> SUFFICES ASSUME IInv PROVE BaseFeeFollowsGas
      OBVIOUS
    <2>1. Len(store) \in Nat /\ \A h \in 2..Len(store) : h \in 1..Len(store) /\ h > 1
      BY StoreType DEF IInv, TypeOK
    <2>2. QED  BY <2>1 DEF IInv, ChainOK, BaseFeeFollowsGas
  <1>2. QED  BY <1>1, Invariance, PTL

(* Fees are paid out before anyone is slashed.                             *)
THEOREM PaidBeforeSlashing == Spec => []NoFeesLeftAtSlashing
  <1>1. IInv => NoFeesLeftAtSlashing
    <2> SUFFICES ASSUME IInv, phase = "begin", BeginBlockers[j] = "slashing", Height > 1
                 PROVE  work.fees = 0
      BY DEF NoFeesLeftAtSlashing
    <2>1. j \in 1..5
      BY Orders DEF IInv, TypeOK, Modules
    <2>2. j = 5
      BY <2>1, Orders
    <2>3. QED  BY <2>2 DEF IInv, PhaseOK, FeesLeft
  <1>2. QED  BY <1>1, Invariance, PTL

(* Once it is put together the application panics only with a binary that  *)
(* is not for the height, at an upgrade file that a crash has left empty   *)
(* or at a genesis that is not well formed, and fails only at the planned  *)
(* height, with a state that cannot be migrated.                           *)
THEOREM NoStopWithoutReason == Spec => []StopsForAReason
  <1>1. IInv => StopsForAReason
    BY DEF IInv
  <1>2. QED  BY <1>1, Invariance, PTL

-----------------------------------------------------------------------------
(* The chain that the node shows                                           *)

LEMMA ChainInit == Init => Chain!Init
  <1>1. OldChain = Chain!Planned
    <2>1. Chain!Fresh \in StateType /\ Chain!Planned \in StateType
      BY DEF StateType, Chain!Fresh, Chain!Planned
    <2>2. OldChain \in StateType
      BY GenesisType
    <2>3. /\ Chain!Planned.vm = "old" /\ Chain!Planned.coin = "missing"
          /\ Chain!Planned.plan = TRUE /\ Chain!Planned.upgraded = FALSE
          /\ Chain!Planned.fees = 0 /\ Chain!Planned.gas = 0 /\ Chain!Planned.baseFee = 0
          /\ Chain!Planned.evm = [coin |-> "unset", fee |-> 0]
      BY DEF Chain!Fresh, Chain!Planned
    <2>4. /\ OldChain.vm = "old" /\ OldChain.coin = "missing"
          /\ OldChain.plan = TRUE /\ OldChain.upgraded = FALSE
          /\ OldChain.fees = 0 /\ OldChain.gas = 0 /\ OldChain.baseFee = 0
          /\ OldChain.evm = [coin |-> "unset", fee |-> 0]
      BY DEF OldChain, Genesis
    <2>5. QED  BY <2>1, <2>2, <2>3, <2>4, SameState
  <1>2. QED  BY <1>1 DEF Init, Chain!Init

LEMMA ChainDecide ==
    ASSUME IInv, NEW tx \in TxGas, NEW gov \in GovGas, Decide(tx, gov)
    PROVE  Chain!Decide
  <1>1. /\ Len(store) <= Len(blocks) /\ Len(blocks) < Height /\ Height <= MaxHeight
        /\ blocks' = Append(blocks, [tx |-> tx, gov |-> gov])
        /\ UNCHANGED <<skipped, store>>
    BY DEF IInv, ChainOK, Decide
  <1>2. Len(store) \in Nat /\ Len(blocks) \in Nat /\ Height = Len(store) + 1
    BY SameBlock DEF IInv, TypeOK, Height
  <1>3. Len(blocks) = Len(store) /\ Len(blocks) < MaxHeight
    <2>1. MaxHeight \in Nat
      BY DEF EvmdAppAssumption
    <2>2. QED  BY <1>1, <1>2, <2>1
  <1>4. QED  BY <1>1, <1>3 DEF Chain!Decide

(* What the plan makes of the state before a block has the stage of the    *)
(* block's height, and is what it was in all the rest.                     *)
LEMMA ChainUpgrades ==
    ASSUME IInv
    PROVE  LET s == Chain!Upgrade(Before, Height) IN
           /\ s \in StateType
           /\ Stage(s, Height)
           /\ s.fees = Before.fees /\ s.gas = Before.gas
  <1> DEFINE s == Chain!Upgrade(Before, Height)
  <1>1. Before \in StateType /\ Len(store) \in Nat /\ Height = Len(store) + 1
    BY StoreType, GenesisType DEF IInv, TypeOK, Before, Height
  <1>2. PlanHeight \in Nat
    BY DEF EvmdAppAssumption
  <1>3. s \in StateType /\ s.fees = Before.fees /\ s.gas = Before.gas
    BY <1>1 DEF Chain!Upgrade, StateType
  <1>4. CASE Before.plan /\ Height >= PlanHeight
    <2>1. ~BeganNew /\ Len(store) < PlanHeight /\ Height = PlanHeight
      BY <1>1, <1>2, <1>4, BeforeBlock
    <2>2. CASE skipped
      <3>1. s = [Before EXCEPT !.plan = FALSE]
        BY <1>4, <2>2 DEF Chain!Upgrade
      <3>2. s.vm = Before.vm /\ s.coin = Before.coin /\ s.plan = FALSE /\ s.upgraded = Before.upgraded
        BY <1>1, <3>1 DEF StateType
      <3>3. QED  BY <1>1, <1>2, <1>3, <2>1, <2>2, <3>2, BeforeBlock DEF Stage, Version
    <2>3. CASE ~skipped
      <3>1. s = [Before EXCEPT !.vm = "new", !.coin = "known", !.plan = FALSE, !.upgraded = TRUE]
        BY <1>4, <2>3 DEF Chain!Upgrade
      <3>2. s.vm = "new" /\ s.coin = "known" /\ s.plan = FALSE /\ s.upgraded = TRUE
        BY <1>1, <3>1 DEF StateType
      <3>3. QED  BY <1>1, <1>2, <1>3, <2>1, <2>3, <3>2 DEF Stage, Version
    <2>4. QED  BY <2>2, <2>3
  <1>5. CASE ~(Before.plan /\ Height >= PlanHeight)
    <2>1. s = Before
      BY <1>5 DEF Chain!Upgrade
    <2>2. Version(Len(store)) = Version(Height)
      BY <1>1, <1>2, <1>5, BeforeBlock DEF Version
    <2>3. QED  BY <1>1, <1>2, <1>3, <1>5, <2>1, <2>2, BeforeBlock DEF Stage
  <1>6. QED  BY <1>3, <1>4, <1>5

(* What is committed is what the chain makes of the block at once.         *)
LEMMA ChainResult ==
    ASSUME IInv, phase = "finalized"
    PROVE  work = Chain!Charge(Chain!Upgrade(Before, Height), Height, blocks[Height])
  <1> DEFINE s == Chain!Upgrade(Before, Height)
             t == Chain!Charge(s, Height, blocks[Height])
  <1>1. /\ Len(blocks) = Height /\ Stage(work, Height) /\ Outcome(work) /\ work \in StateType
    BY DEF IInv, PhaseOK, Executing, TypeOK
  <1>2. s \in StateType /\ Stage(s, Height) /\ s.fees = Before.fees /\ s.gas = Before.gas
    BY ChainUpgrades
  <1>3. blocks[Height].tx \in Nat /\ blocks[Height].gov \in Nat
    BY <1>1, ChainTypes
  <1> HIDE DEF s
  <1>4. [coin |-> IF s.vm = "new" THEN s.coin ELSE "unset", fee |-> s.gas]
            \in [coin : {"unset", "missing", "known"}, fee : Nat]
    BY <1>2 DEF StateType
  <1>5. /\ t \in StateType
        /\ t.vm = s.vm /\ t.coin = s.coin /\ t.plan = s.plan /\ t.upgraded = s.upgraded
        /\ t.fees = (IF Height > 1 THEN 0 ELSE s.fees + 1) + blocks[Height].tx
        /\ t.gas = blocks[Height].tx + blocks[Height].gov
        /\ t.baseFee = s.gas
        /\ t.evm = [coin |-> IF s.vm = "new" THEN s.coin ELSE "unset", fee |-> s.gas]
    <2> DEFINE fees == (IF Height > 1 THEN 0 ELSE s.fees + 1) + blocks[Height].tx
               gas == blocks[Height].tx + blocks[Height].gov
               evm == [coin |-> IF s.vm = "new" THEN s.coin ELSE "unset", fee |-> s.gas]
    <2>1. t = [s EXCEPT !.fees = fees, !.gas = gas, !.baseFee = s.gas, !.evm = evm]
      BY DEF Chain!Charge
    <2>2. fees \in Nat /\ gas \in Nat /\ s.gas \in Nat
      BY <1>2, <1>3 DEF StateType
    <2>3. evm \in [coin : {"unset", "missing", "known"}, fee : Nat]
      BY <1>4
    <2> HIDE DEF t, fees, gas, evm
    <2>4. /\ t \in StateType
          /\ t.vm = s.vm /\ t.coin = s.coin /\ t.plan = s.plan /\ t.upgraded = s.upgraded
          /\ t.fees = fees /\ t.gas = gas /\ t.baseFee = s.gas /\ t.evm = evm
      BY <1>2, <2>1, <2>2, <2>3 DEF StateType
    <2>5. QED  BY <2>4 DEF fees, gas, evm
  <1> HIDE DEF t
  <1>6. Stage(t, Height) /\ Outcome(t)
    BY <1>2, <1>5 DEF Stage, Outcome, FeesLeft
  <1>7. work = t
    BY <1>1, <1>5, <1>6, OneOutcome
  <1>8. QED  BY <1>7 DEF s, t

LEMMA ChainExecute == ASSUME IInv, Commit PROVE Chain!Execute
  <1>1. phase = "finalized" /\ store' = Append(store, work) /\ UNCHANGED <<skipped, blocks>>
    BY DEF Commit
  <1>2. Len(blocks) = Height /\ Height = Len(store) + 1 /\ Len(store) \in Nat
    BY <1>1, StoreType DEF IInv, PhaseOK, Executing, TypeOK, Height
  <1>3. Before = IF store = <<>> THEN Chain!Fresh ELSE store[Len(store)]
    BY DEF Before, Started, Chain!Fresh
  <1>4. work = Chain!Charge(Chain!Upgrade(Before, Len(store) + 1), Len(store) + 1,
                            blocks[Len(store) + 1])
    BY <1>1, <1>2, ChainResult
  <1>5. QED  BY <1>1, <1>2, <1>3, <1>4 DEF Chain!Execute

LEMMA ChainStep == IInv /\ [Next]_vars => [Chain!Next]_(Chain!chainVars)
  <1> SUFFICES ASSUME IInv, [Next]_vars
               PROVE  Chain!Decide \/ Chain!Execute \/ UNCHANGED Chain!chainVars
    BY DEF Chain!Next
  <1> USE DEF Chain!chainVars, outside
  <1>1. CASE \E b \in {"old", "new"} : NewApp(b) \/ RefuseInfo(b) \/ FailApp(b)
    BY <1>1 DEF NewApp, RefuseInfo, FailApp
  <1>2. CASE \E tx \in TxGas, gov \in GovGas : Decide(tx, gov)
    BY <1>2, ChainDecide
  <1>3. CASE Commit
    BY <1>3, ChainExecute
  <1>4. CASE Exit \/ InitChainer \/ RefuseGenesis \/ InitGenesis
    BY <1>4 DEF Exit, InitChainer, RefuseGenesis, InitGenesis
  <1>5. CASE PreBlockUpgrade \/ UpgradeFails \/ RefuseBinary \/ BeginDump \/ Dump \/ PreBlockEVM
    BY <1>5 DEF PreBlockUpgrade, UpgradeFails, RefuseBinary, BeginDump, Dump, PreBlockEVM
  <1>6. CASE BeginBlock \/ DeliverTxs \/ EndBlock \/ Finalized
    BY <1>6 DEF BeginBlock, DeliverTxs, EndBlock, Finalized
  <1>7. CASE FinalizeBlock \/ Close \/ Crash \/ RemoveInfo
    BY <1>7 DEF FinalizeBlock, Close, Crash, RemoveInfo
  <1>8. CASE UNCHANGED vars
    BY <1>8 DEF vars
  <1>9. QED  BY <1>1, <1>2, <1>3, <1>4, <1>5, <1>6, <1>7, <1>8 DEF Next, Step

(* The node implements the chain: whatever it does in pieces, loses in a   *)
(* crash, executes again or goes on with in another binary, every block is *)
(* executed once and as a whole, with the result that only its height and  *)
(* the state before it decide.                                             *)
THEOREM ImplementsChain == Spec => KeepsChain
  BY ChainInit, ChainStep, Invariance, PTL DEF Spec, KeepsChain, Chain!Spec
=============================================================================
