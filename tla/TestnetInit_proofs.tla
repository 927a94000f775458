---------------------------- MODULE TestnetInit_proofs ----------------------------
(***************************************************************************)
(* What a run of init-files leaves, for any number of runs over the same   *)
(* directory, any validators, powers and changes, with failures and kills. *)
(*                                                                         *)
(* The invariant says what each of the three loops has done for the        *)
(* validators it is through with; of what earlier runs have left it needs  *)
(* only that a gentx is in its own validator's file, and that accounts are *)
(* of runs that have been.                                                 *)
(***************************************************************************)
EXTENDS TestnetInit, SumLemmas, TLAPS

USE TestnetInitAssumption, NoFileAssumption

-----------------------------------------------------------------------------
(* The inductive invariant                                                 *)

Types ==
    /\ run \in 0..MaxRuns /\ args \in Args /\ i \in Validators
    /\ pc \in {"idle", "done", "failed"} \cup Running
    /\ DOMAIN nodeConfig = Field /\ DOMAIN configToml = Node /\ DOMAIN appToml = Node
    /\ account \in [Node -> 0..MaxRuns] /\ dirs \subseteq Node
    /\ gentxs \in [Node -> GentxType \cup {NoFile}]
    /\ genesis \in [Node -> GenesisType \cup {NoFile}]
    /\ appState \in GenesisType \cup {NoFile}

\* A run that goes on has powers, and then an address, that can be.
RunOK ==
    /\ pc \in Running \cup {"done"} => run > 0 /\ PowersOK(args.powers)
    /\ pc \in {"key", "gentx", "genesis", "collect", "done"} => AddressOK

\* Whoever wrote it, a gentx is of the validator whose file it is.
GentxOK == \A n \in Node : gentxs[n] # NoFile => gentxs[n].node = n

\* No file has an account of a run to come; nor of this one, if they go elsewhere.
AccountsOK ==
    \A n, m \in Node, r \in 1..MaxRuns :
        genesis[n] # NoFile /\ <<m, r>> \in genesis[n].accounts =>
            r <= run /\ (pc \in Running /\ Changed("home") => r < run)

\* The validators that each of the three loops is through with.
SetUp(n) == pc \in {"genesis", "collect", "done"} \/ (pc \in {"prepare", "key", "gentx"} /\ n < i)
HasGenesis(n) == pc \in {"collect", "done"} \/ (pc = "genesis" /\ n < i)
IsCollected(n) == pc = "done" \/ (pc = "collect" /\ n < i)

SetUpOK ==
    \A n \in Validators : SetUp(n) => /\ n \in dirs /\ account[n] = run
                                      /\ gentxs[n] = Gentx(n) /\ appToml[n] = AppPorts(n)

\* The validator that the first loop is at.
SettingUpOK ==
    /\ pc \in {"key", "gentx"} => i \in dirs
    /\ pc = "gentx" => account[i] = run

HasGenesisOK ==
    \A n \in Validators :
        HasGenesis(n) /\ ~IsCollected(n) /\ ~Changed("home") => genesis[n] = NewGenesis

\* A node's configuration file, when it has been collected.
TomlIs(n) ==
    /\ configToml[n].peers = {t.memo : t \in {u \in Files : u.node # n}}
    /\ SingleMachine => configToml[n].rpc = 26657 + n /\ configToml[n].p2p = 16656 + n
    /\ ~SingleMachine /\ ~Changed("p2p") => configToml[n].p2p = args.homePort

IsCollectedOK ==
    \A n \in Validators :
        IsCollected(n) => /\ Collected(NewGenesis)
                          /\ appState # NoFile /\ appState.accounts = NewGenesis.accounts
                          /\ appState.gentxs = Files
                          /\ genesis[n] = appState
                          /\ TomlIs(n)

\* There is no canonical state before the first has been collected.
AppStateOK == pc \in Running /\ ~(pc = "collect" /\ i > 0) => appState = NoFile

\* The port of the peers is the caller's own until somebody changes it.
PortOK == pc \in Running /\ ~SingleMachine /\ ~Changed("p2p") => nodeConfig.p2p = args.homePort

IInv == Types /\ RunOK /\ GentxOK /\ AccountsOK /\ SetUpOK /\ SettingUpOK /\ HasGenesisOK
            /\ IsCollectedOK /\ AppStateOK /\ PortOK /\ FailsForAReason

-----------------------------------------------------------------------------
(* Types                                                                   *)

LEMMA ArgsType ==
    ASSUME args \in Args
    PROVE  /\ args.numValidators \in 1..MaxValidators /\ args.powers \in Seq(Int)
           /\ args.place \in Place /\ args.homePort \in Nat
           /\ Validators \subseteq Node /\ 0 \in Validators
           /\ \A n \in Validators : n \in Nat /\ n < args.numValidators
  <1>1. args.numValidators \in 1..MaxValidators /\ args.powers \in Seq(Int)
        /\ args.place \in Place /\ args.homePort \in Nat
    BY DEF Args
  <1>2. QED  BY <1>1 DEF Validators, Node

LEMMA MemoOfType ==
    ASSUME args \in Args, AddressOK, NEW n \in Nat
    PROVE  Memo(n) \in MemoType
  <1>1. IP(n) \in (0..255) \cup {NoIP, SingleHost}
    <2>1. CASE args.place \in {NoIP, SingleHost}
      BY <2>1 DEF IP
    <2>2. CASE args.place \notin {NoIP, SingleHost}
      <3>1. args.place \in 0..255
        BY <2>2, ArgsType DEF Place, AddressOK
      <3>2. \A b \in 0..255 : (b + n) % 256 \in 0..255
        OBVIOUS
      <3>3. QED  BY <2>2, <3>1, <3>2 DEF IP
    <2>3. QED  BY <2>1, <2>2
  <1>2. P2PPortStart + PortOffset(n) \in Nat
    BY DEF P2PPortStart, PortOffset
  <1>3. QED  BY <1>1, <1>2 DEF Memo, MemoType

LEMMA PowerOfType ==
    ASSUME args \in Args, PowersOK(args.powers), NEW n \in Nat
    PROVE  ValidatorPower(n) \in Nat \ {0}
  <1>1. args.powers \in Seq(Int) /\ Len(args.powers) \in Nat
    BY ArgsType
  <1>2. CASE args.powers = <<>>
    BY <1>2 DEF ValidatorPower, DefaultPower
  <1>3. CASE args.powers # <<>>
    <2>1. Len(args.powers) \in DOMAIN args.powers
          /\ (n < Len(args.powers) => n + 1 \in DOMAIN args.powers)
      BY <1>1, <1>3
    <2>2. \A k \in DOMAIN args.powers : args.powers[k] \in Nat \ {0}
      BY <1>1 DEF PowersOK
    <2>3. QED  BY <1>3, <2>1, <2>2 DEF ValidatorPower
  <1>4. QED  BY <1>2, <1>3

LEMMA GentxOfType ==
    ASSUME args \in Args, PowersOK(args.powers), AddressOK,
           NEW n \in Validators, account[n] \in 1..MaxRuns
    PROVE  /\ Gentx(n) \in GentxType /\ Gentx(n) # NoFile
           /\ Gentx(n).node = n /\ Gentx(n).account = account[n]
           /\ Gentx(n).power = ValidatorPower(n) /\ Gentx(n).memo = Memo(n)
  <1>1. n \in Node /\ n \in Nat
    BY ArgsType
  <1>2. ValidatorPower(n) \in Nat \ {0} /\ Memo(n) \in MemoType
    BY <1>1, MemoOfType, PowerOfType
  <1>3. QED  BY <1>1, <1>2 DEF Gentx, GentxType

LEMMA NewGenesisOfType ==
    ASSUME Types, RunOK, SetUpOK, pc \in {"genesis", "collect", "done"}
    PROVE  /\ run \in 1..MaxRuns
           /\ NewGenesis \in GenesisType /\ NewGenesis # NoFile
           /\ NewGenesis.gentxs = {}
           /\ NewGenesis.accounts = {<<n, run>> : n \in Validators}
           /\ \A n \in Validators : /\ Gentx(n) \in GentxType /\ Gentx(n) # NoFile
                                    /\ gentxs[n] = Gentx(n) /\ Gentx(n) \in Files
                                    /\ Gentx(n).node = n /\ Gentx(n).account = run
                                    /\ Gentx(n).power = ValidatorPower(n)
                                    /\ Gentx(n).memo = Memo(n)
  <1>1. run \in 1..MaxRuns /\ PowersOK(args.powers) /\ AddressOK
    BY DEF Types, RunOK, Running
  <1>2. \A n \in Validators : account[n] = run /\ gentxs[n] = Gentx(n) /\ n \in Node
    BY ArgsType DEF SetUpOK, SetUp, Types
  <1>3. {<<n, account[n]>> : n \in Validators} = {<<n, run>> : n \in Validators}
    BY <1>2
  <1>4. {<<n, run>> : n \in Validators} \in SUBSET (Node \X (1..MaxRuns))
    BY <1>1, <1>2
  <1>5. /\ NewGenesis \in GenesisType /\ NewGenesis.gentxs = {}
        /\ NewGenesis.accounts = {<<n, run>> : n \in Validators}
    BY <1>3, <1>4 DEF NewGenesis, GenesisType
  <1>6. ASSUME NEW n \in Validators
        PROVE  /\ Gentx(n) \in GentxType /\ Gentx(n) # NoFile
               /\ gentxs[n] = Gentx(n) /\ Gentx(n) \in Files
               /\ Gentx(n).node = n /\ Gentx(n).account = run
               /\ Gentx(n).power = ValidatorPower(n)
               /\ Gentx(n).memo = Memo(n)
    <2>1. account[n] \in 1..MaxRuns
      BY <1>1, <1>2
    <2>2. /\ Gentx(n) \in GentxType /\ Gentx(n) # NoFile
          /\ Gentx(n).node = n /\ Gentx(n).account = account[n]
          /\ Gentx(n).power = ValidatorPower(n) /\ Gentx(n).memo = Memo(n)
      BY <1>1, <2>1, GentxOfType DEF Types
    <2>3. Gentx(n) \in Files
      BY <1>2, <2>2 DEF Files
    <2>4. QED  BY <1>2, <2>2, <2>3
  <1>7. QED  BY <1>1, <1>5, <1>6

LEMMA FilesOfType ==
    ASSUME Types
    PROVE  /\ Files \subseteq GentxType
           /\ \A t \in Files : \E n \in Node : gentxs[n] = t /\ gentxs[n] # NoFile
  BY DEF Types, Files

(* The gentxs that genutil accepts are those of the run's validators.      *)
LEMMA CollectedFiles ==
    ASSUME Types, RunOK, SetUpOK, pc \in {"genesis", "collect", "done"}, GentxOK, Collected(NewGenesis)
    PROVE  /\ Files = {Gentx(n) : n \in Validators}
           /\ \A n \in Validators : ValidatorPower(n) <= StakingTokens
  <1>1. ASSUME NEW t \in Files PROVE \E n \in Validators : t = Gentx(n)
    <2>1. PICK n \in Node : gentxs[n] = t /\ gentxs[n] # NoFile
      BY FilesOfType
    <2>2. t.node = n /\ <<t.node, t.account>> \in {<<m, run>> : m \in Validators}
      BY <2>1, NewGenesisOfType DEF GentxOK, Collected
    <2>3. n \in Validators
      BY <2>2
    <2>4. QED  BY <2>1, <2>3, NewGenesisOfType
  <1>2. ASSUME NEW n \in Validators PROVE Gentx(n) \in Files /\ ValidatorPower(n) <= StakingTokens
    <2>1. Gentx(n) \in Files /\ Gentx(n).power = ValidatorPower(n)
      BY NewGenesisOfType
    <2>2. \A t \in Files : t.power <= StakingTokens
      BY DEF Collected
    <2>3. QED  BY <2>1, <2>2
  <1>3. QED  BY <1>1, <1>2

LEMMA InitInv == Init => IInv
  <1> SUFFICES ASSUME Init PROVE IInv
    OBVIOUS
  <1>1. 0 \in Validators
    BY ArgsType DEF Init
  <1>2. Types
    BY <1>1 DEF Init, Types, HomeConfig, Field
  <1>3. RunOK /\ GentxOK /\ AccountsOK /\ SettingUpOK /\ AppStateOK /\ PortOK /\ FailsForAReason
    BY DEF Init, RunOK, GentxOK, AccountsOK, SettingUpOK, AppStateOK, PortOK, FailsForAReason, Running
  <1>4. SetUpOK /\ HasGenesisOK /\ IsCollectedOK
    BY DEF Init, SetUpOK, HasGenesisOK, IsCollectedOK, SetUp, HasGenesis, IsCollected
  <1>5. QED  BY <1>2, <1>3, <1>4 DEF IInv

-----------------------------------------------------------------------------
(* A run that begins, or ends before its time                              *)

LEMMA BeginStep == ASSUME IInv, NEW a \in Args, Begin(a) PROVE IInv'
  <1> USE DEF IInv, Begin, disk
  <1>1. run' = run + 1 /\ run' \in 1..MaxRuns /\ args' = a /\ i' = 0
        /\ pc' \in {"prepare", "failed"} /\ (pc' = "prepare" <=> PowersOK(a.powers))
    BY DEF Types
  <1>2. 0 \in Validators'
    BY <1>1, ArgsType DEF Validators, Args
  <1>3. Types'
    BY <1>1, <1>2 DEF Types, Running, HomeConfig, Field
  <1>4. RunOK' /\ GentxOK' /\ SettingUpOK' /\ AppStateOK' /\ FailsForAReason'
    BY <1>1 DEF RunOK, GentxOK, SettingUpOK, AppStateOK, FailsForAReason, Running
  <1>5. AccountsOK'
    BY <1>1 DEF AccountsOK, Types
  <1>6. PortOK'
    BY <1>1 DEF PortOK, HomeConfig
  <1>7. SetUpOK' /\ HasGenesisOK' /\ IsCollectedOK'
    <2>1. \A n \in Validators' : ~(n < 0)
      BY <1>1, <1>3 DEF Validators
    <2>2. QED  BY <1>1, <2>1 DEF SetUpOK, HasGenesisOK, IsCollectedOK, SetUp, HasGenesis, IsCollected
  <1>8. QED  BY <1>3, <1>4, <1>5, <1>6, <1>7

\* What is the same for as long as the arguments are.
LEMMA SameArgs ==
    ASSUME args' = args
    PROVE  /\ Validators' = Validators /\ SingleMachine' = SingleMachine
           /\ (\A f : Changed(f)' = Changed(f)) /\ AddressOK' = AddressOK /\ KeyTypeOK' = KeyTypeOK
           /\ \A n : ValidatorPower(n)' = ValidatorPower(n) /\ Memo(n)' = Memo(n)
                     /\ AppPorts(n)' = AppPorts(n)
  BY DEF Validators, SingleMachine, Changed, AddressOK, KeyTypeOK, ValidatorPower, Memo, IP, P2PPortStart,
         PortOffset, AppPorts

(* An error, with or without the removal of the directory.                 *)
LEMMA FailSteps ==
    ASSUME IInv, RefuseChanges \/ RefuseKeyType \/ FailAndRemove \/ Fail
    PROVE  IInv'
  <1> USE DEF IInv
  <1>1. UNCHANGED <<run, args, i, appState, config>> /\ pc' = "failed" /\ Validators' = Validators
        /\ AddressOK' = AddressOK /\ KeyTypeOK' = KeyTypeOK
    BY SameArgs DEF RefuseChanges, RefuseKeyType, FailAndRemove, Fail
  <1>2. \/ UNCHANGED disk
        \/ Removed
    BY DEF RefuseChanges, RefuseKeyType, FailAndRemove, Fail
  <1>3. Types'
    BY <1>1, <1>2 DEF Types, disk, config, Removed
  <1>4. RunOK' /\ SettingUpOK' /\ AppStateOK' /\ PortOK'
    BY <1>1 DEF RunOK, SettingUpOK, AppStateOK, PortOK, Running
  <1>5. GentxOK' /\ AccountsOK'
    BY <1>1, <1>2 DEF GentxOK, AccountsOK, disk, Removed, Running
  <1>6. SetUpOK' /\ HasGenesisOK' /\ IsCollectedOK'
    BY <1>1 DEF SetUpOK, HasGenesisOK, IsCollectedOK, SetUp, HasGenesis, IsCollected
  <1>7. FailsForAReason'
    BY <1>1 DEF RefuseChanges, RefuseKeyType, FailAndRemove, Fail, FailsForAReason
  <1>8. QED  BY <1>3, <1>4, <1>5, <1>6, <1>7

-----------------------------------------------------------------------------
(* The first loop                                                          *)

(* A loop goes on with the next validator, or has been through them all.   *)
LEMMA NextNodeIs ==
    ASSUME Types, NEW again, NEW next, NextNode(again, next)
    PROVE  \/ i + 1 \in Validators /\ i' = i + 1 /\ pc' = again
           \/ i' = 0 /\ pc' = next /\ \A n \in Validators : n < i + 1
  BY ArgsType DEF Types, NextNode, Validators

LEMMA NodeConfigIs ==
    ASSUME NEW cfg, DOMAIN cfg = Field, NEW n
    PROVE  /\ DOMAIN NodeConfig(cfg, n) = Field
           /\ ~Changed("p2p") => NodeConfig(cfg, n).p2p = cfg.p2p
  <1> DEFINE own == [cfg EXCEPT !.home = n, !.moniker = n, !.rpc = 26657 + PortOffset(n)]
  <1>1. own.p2p = cfg.p2p /\ "p2p" \in Field
    BY DEF Field
  <1>2. NodeConfig(cfg, n) = Applied(own, args.changes)
    BY DEF NodeConfig
  <1> HIDE DEF own
  <1>3. /\ DOMAIN NodeConfig(cfg, n) = Field
        /\ ChangesOf("p2p", args.changes) = {} => NodeConfig(cfg, n).p2p = own.p2p
    BY <1>1, <1>2 DEF Applied
  <1>4. QED  BY <1>1, <1>3 DEF Changed

LEMMA PrepareNodeStep == ASSUME IInv, PrepareNode PROVE IInv'
  <1> USE DEF IInv
  <1>1. UNCHANGED <<run, args, i, appState, faulted, configToml, appToml, account, gentxs, genesis>>
        /\ pc = "prepare" /\ pc' = "key" /\ dirs' = dirs \cup {i} /\ AddressOK
        /\ nodeConfig' = NodeConfig(nodeConfig, i)
    BY DEF PrepareNode
  <1>2. Validators' = Validators /\ SingleMachine' = SingleMachine /\ (\A f : Changed(f)' = Changed(f))
        /\ AddressOK' = AddressOK /\ KeyTypeOK' = KeyTypeOK
    BY <1>1, SameArgs
  <1>3. DOMAIN nodeConfig' = Field
        /\ (~Changed("p2p") => nodeConfig'.p2p = nodeConfig.p2p)
    BY <1>1, NodeConfigIs DEF Types
  <1>4. Types'
    BY <1>1, <1>2, <1>3, ArgsType DEF Types, Running
  <1>5. RunOK' /\ GentxOK' /\ SettingUpOK' /\ AppStateOK' /\ PortOK' /\ FailsForAReason'
    BY <1>1, <1>2, <1>3
       DEF RunOK, GentxOK, SettingUpOK, AppStateOK, PortOK, FailsForAReason, Running
  <1>6. AccountsOK'
    BY <1>1, <1>2 DEF AccountsOK, Running
  <1>7. SetUpOK'
    <2>1. ASSUME NEW n \in Validators, n < i
          PROVE  /\ n \in dirs' /\ account'[n] = run'
                 /\ gentxs'[n] = Gentx(n)' /\ appToml'[n] = AppPorts(n)'
      BY <1>1, <2>1, SameArgs DEF SetUpOK, SetUp, Gentx
    <2>2. QED  BY <1>1, <1>2, <2>1 DEF SetUpOK, SetUp
  <1>8. HasGenesisOK' /\ IsCollectedOK'
    BY <1>1 DEF HasGenesisOK, IsCollectedOK, HasGenesis, IsCollected
  <1>9. QED  BY <1>4, <1>5, <1>6, <1>7, <1>8

LEMMA SaveKeyStep == ASSUME IInv, SaveKey PROVE IInv'
  <1> USE DEF IInv
  <1>1. UNCHANGED <<run, args, i, appState, faulted, nodeConfig, configToml, appToml,
                    dirs, gentxs, genesis>>
        /\ pc = "key" /\ pc' = "gentx" /\ account' = [account EXCEPT ![i] = run]
    BY DEF SaveKey, config
  <1>2. Validators' = Validators /\ SingleMachine' = SingleMachine /\ (\A f : Changed(f)' = Changed(f))
        /\ AddressOK' = AddressOK /\ KeyTypeOK' = KeyTypeOK
    BY <1>1, SameArgs
  <1>3. i \in Node /\ account'[i] = run /\ \A n \in Node : n # i => account'[n] = account[n]
    BY <1>1, ArgsType DEF Types
  <1>4. Types'
    BY <1>1, <1>2 DEF Types, Running
  <1>5. RunOK' /\ GentxOK' /\ SettingUpOK' /\ AppStateOK' /\ PortOK' /\ FailsForAReason'
    BY <1>1, <1>2, <1>3
       DEF RunOK, GentxOK, SettingUpOK, AppStateOK, PortOK, FailsForAReason, Running
  <1>6. AccountsOK'
    BY <1>1, <1>2 DEF AccountsOK, Running
  <1>7. SetUpOK'
    <2>1. ASSUME NEW n \in Validators, n < i
          PROVE  /\ n \in dirs' /\ account'[n] = run'
                 /\ gentxs'[n] = Gentx(n)' /\ appToml'[n] = AppPorts(n)'
      <3>1. n \in Node /\ n # i
        BY <2>1, ArgsType DEF Types
      <3>2. QED  BY <1>1, <1>3, <2>1, <3>1, SameArgs DEF SetUpOK, SetUp, Gentx
    <2>2. QED  BY <1>1, <1>2, <2>1 DEF SetUpOK, SetUp
  <1>8. HasGenesisOK' /\ IsCollectedOK'
    BY <1>1 DEF HasGenesisOK, IsCollectedOK, HasGenesis, IsCollected
  <1>9. QED  BY <1>4, <1>5, <1>6, <1>7, <1>8

LEMMA WriteGentxStep == ASSUME IInv, WriteGentx PROVE IInv'
  <1> USE DEF IInv
  <1>1. UNCHANGED <<run, args, appState, faulted, nodeConfig, configToml, dirs, account, genesis>>
        /\ pc = "gentx" /\ gentxs' = [gentxs EXCEPT ![i] = Gentx(i)]
        /\ appToml' = [appToml EXCEPT ![i] = AppPorts(i)]
        /\ NextNode("prepare", "genesis")
    BY DEF WriteGentx, Written
  <1>2. Validators' = Validators /\ SingleMachine' = SingleMachine /\ (\A f : Changed(f)' = Changed(f))
        /\ AddressOK' = AddressOK /\ KeyTypeOK' = KeyTypeOK
    BY <1>1, SameArgs
  <1>3. \/ i + 1 \in Validators /\ i' = i + 1 /\ pc' = "prepare"
        \/ i' = 0 /\ pc' = "genesis" /\ \A n \in Validators : n < i + 1
    BY <1>1, NextNodeIs
  <1>4. i \in Validators /\ i \in Node /\ i \in Nat /\ 0 \in Validators
    BY ArgsType DEF Types
  <1>5. Gentx(i) \in GentxType /\ Gentx(i) # NoFile /\ Gentx(i).node = i
        /\ \A n : Gentx(n)' = Gentx(n)
    <2>1. account[i] \in 1..MaxRuns /\ PowersOK(args.powers) /\ AddressOK
      BY <1>1, <1>4 DEF SettingUpOK, RunOK, Types, Running
    <2>2. \A n : Gentx(n)' = Gentx(n)
      BY <1>1, SameArgs DEF Gentx
    <2>3. QED  BY <1>4, <2>1, <2>2, GentxOfType DEF Types
  <1>6. Types'
    BY <1>1, <1>2, <1>3, <1>4, <1>5 DEF Types, Running
  <1>7. GentxOK'
    BY <1>1, <1>4, <1>5 DEF GentxOK, Types
  <1>8. RunOK' /\ SettingUpOK' /\ AppStateOK' /\ PortOK' /\ FailsForAReason'
    BY <1>1, <1>2, <1>3 DEF RunOK, SettingUpOK, AppStateOK, PortOK, FailsForAReason, Running
  <1>9. AccountsOK'
    BY <1>1, <1>2, <1>3 DEF AccountsOK, Running
  <1>10. SetUpOK'
    <2>1. ASSUME NEW n \in Validators, n < i + 1
          PROVE  /\ n \in dirs' /\ account'[n] = run'
                 /\ gentxs'[n] = Gentx(n)' /\ appToml'[n] = AppPorts(n)'
      <3>1. n \in Node /\ (n < i \/ n = i)
        BY <1>4, <2>1, ArgsType DEF Types
      <3>2. gentxs'[n] = Gentx(n) /\ appToml'[n] = AppPorts(n)
        <4>1. n < i => gentxs[n] = Gentx(n) /\ appToml[n] = AppPorts(n)
          BY <1>1, <2>1 DEF SetUpOK, SetUp
        <4>2. n # i => gentxs'[n] = gentxs[n] /\ appToml'[n] = appToml[n]
          BY <1>1, <3>1 DEF Types
        <4>3. gentxs'[i] = Gentx(i) /\ appToml'[i] = AppPorts(i)
          BY <1>1, <1>4 DEF Types
        <4>4. QED  BY <3>1, <4>1, <4>2, <4>3
      <3>3. n \in dirs /\ account[n] = run
        BY <1>1, <2>1, <3>1 DEF SetUpOK, SetUp, SettingUpOK
      <3>4. QED  BY <1>1, <1>5, <3>2, <3>3, SameArgs
    <2>2. \A n \in Validators : SetUp(n)' => n < i + 1
      BY <1>3, <1>4, ArgsType DEF SetUp, Types
    <2>3. QED  BY <1>2, <2>1, <2>2 DEF SetUpOK
  <1>11. HasGenesisOK' /\ IsCollectedOK'
    <2>1. \A n \in Validators' : ~HasGenesis(n)' /\ ~IsCollected(n)'
      BY <1>2, <1>3, ArgsType DEF HasGenesis, IsCollected, Types
    <2>2. QED  BY <2>1 DEF HasGenesisOK, IsCollectedOK
  <1>12. QED  BY <1>6, <1>7, <1>8, <1>9, <1>10, <1>11

-----------------------------------------------------------------------------
(* The second loop, and the third                                          *)

\* What a genesis of this run is made from, and the gentxs there are.
LEMMA SameFiles ==
    ASSUME UNCHANGED <<args, account, gentxs>>
    PROVE  Files' = Files /\ NewGenesis' = NewGenesis /\ \A n : Gentx(n)' = Gentx(n)
  BY SameArgs DEF Files, NewGenesis, Gentx

LEMMA SaveGenesisStep == ASSUME IInv, SaveGenesis PROVE IInv'
  <1> USE DEF IInv
  <1>1. UNCHANGED <<run, args, appState, faulted, nodeConfig, configToml, appToml,
                    dirs, account, gentxs>>
        /\ pc = "genesis" /\ genesis' = Saved(i) /\ NextNode("genesis", "collect")
    BY DEF SaveGenesis, config
  <1>2. Validators' = Validators /\ SingleMachine' = SingleMachine /\ (\A f : Changed(f)' = Changed(f))
        /\ AddressOK' = AddressOK /\ KeyTypeOK' = KeyTypeOK
    BY <1>1, SameArgs
  <1>3. \/ i + 1 \in Validators /\ i' = i + 1 /\ pc' = "genesis"
        \/ i' = 0 /\ pc' = "collect" /\ \A n \in Validators : n < i + 1
    BY <1>1, NextNodeIs
  <1>4. i \in Validators /\ i \in Node /\ i \in Nat /\ 0 \in Validators
        /\ \A n \in Validators : n \in Node /\ n \in Nat
    BY ArgsType DEF Types
  <1>5. /\ NewGenesis \in GenesisType /\ NewGenesis # NoFile
        /\ NewGenesis.accounts = {<<n, run>> : n \in Validators}
    BY <1>1, NewGenesisOfType
  <1>6. \A n \in Node : genesis'[n] = IF n = i /\ ~Changed("home") THEN NewGenesis ELSE genesis[n]
    BY <1>1, <1>4 DEF Saved, Types
  <1>7. Types'
    <2>1. genesis' \in [Node -> GenesisType \cup {NoFile}]
      BY <1>1, <1>5 DEF Saved, Types
    <2>2. QED  BY <1>1, <1>2, <1>3, <1>4, <2>1 DEF Types, Running
  <1>8. RunOK' /\ GentxOK' /\ SettingUpOK' /\ AppStateOK' /\ PortOK' /\ FailsForAReason'
    BY <1>1, <1>2, <1>3 DEF RunOK, GentxOK, SettingUpOK, AppStateOK, PortOK, FailsForAReason, Running
  <1>9. AccountsOK'
    <2> SUFFICES ASSUME NEW n \in Node, NEW m \in Node, NEW r \in 1..MaxRuns,
                        genesis'[n] # NoFile, <<m, r>> \in genesis'[n].accounts
                 PROVE  r <= run /\ (Changed("home") => r < run)
      BY <1>1, <1>2 DEF AccountsOK
    <2>1. CASE n = i /\ ~Changed("home")
      <3>1. <<m, r>> \in {<<k, run>> : k \in Validators}
        BY <1>5, <1>6, <2>1
      <3>2. r = run /\ run \in Nat
        BY <3>1 DEF Types
      <3>3. QED  BY <2>1, <3>2
    <2>2. CASE ~(n = i /\ ~Changed("home"))
      <3>1. genesis'[n] = genesis[n]
        BY <1>6, <2>2
      <3>2. QED  BY <1>1, <3>1 DEF AccountsOK, Running
    <2>3. QED  BY <2>1, <2>2
  <1>10. SetUpOK'
    BY <1>1, <1>2, <1>3, SameArgs, SameFiles DEF SetUpOK, SetUp
  <1>11. HasGenesisOK'
    <2>1. \A n \in Validators : HasGenesis(n)' => n < i + 1
      BY <1>3, <1>4 DEF HasGenesis
    <2>2. ASSUME NEW n \in Validators, n < i + 1, ~Changed("home")
          PROVE  genesis'[n] = NewGenesis
      <3>1. n = i \/ (n < i /\ n \in Node)
        BY <1>4, <2>2
      <3>2. n < i => genesis[n] = NewGenesis
        BY <1>1, <2>2 DEF HasGenesisOK, HasGenesis, IsCollected
      <3>3. QED  BY <1>4, <1>6, <2>2, <3>1, <3>2
    <2>3. NewGenesis' = NewGenesis
      BY <1>1, SameFiles
    <2>4. QED  BY <1>2, <2>1, <2>2, <2>3 DEF HasGenesisOK
  <1>12. IsCollectedOK'
    <2>1. ASSUME NEW n \in Validators PROVE ~IsCollected(n)'
      <3>1. n \in Nat /\ ~(n < 0)
        BY <1>4
      <3>2. QED  BY <1>3, <3>1 DEF IsCollected
    <2>2. QED  BY <1>2, <2>1 DEF IsCollectedOK
  <1>13. QED  BY <1>7, <1>8, <1>9, <1>10, <1>11, <1>12

(* With another home the first file is not this run's, and is refused.     *)
LEMMA OldGenesisRefused ==
    ASSUME IInv, pc = "collect", i = 0, Collected(genesis[0])
    PROVE  ~Changed("home") /\ genesis[0] = NewGenesis
  <1> USE DEF IInv
  <1>1. 0 \in Validators /\ 0 \in Node
    BY ArgsType DEF Types
  <1>2. run \in 1..MaxRuns /\ Gentx(0) \in Files /\ Gentx(0).node = 0 /\ Gentx(0).account = run
    BY <1>1, NewGenesisOfType
  <1>3. genesis[0] # NoFile /\ <<0, run>> \in genesis[0].accounts
    BY <1>2 DEF Collected
  <1>4. Changed("home") => run < run
    BY <1>1, <1>2, <1>3 DEF AccountsOK, Running
  <1>5. ~Changed("home")
    BY <1>2, <1>4
  <1>6. QED  BY <1>1, <1>5 DEF HasGenesisOK, HasGenesis, IsCollected

(* What a run cannot collect is there for a reason.                        *)
LEMMA RefusedForAReason ==
    ASSUME IInv, pc = "collect", ~Collected(genesis[i])
    PROVE  \/ Changed("home")
           \/ \E n \in Validators : ValidatorPower(n) > StakingTokens
           \/ \E n \in Node \ Validators : gentxs[n] # NoFile
  <1> USE DEF IInv
  <1> SUFFICES ASSUME ~Changed("home")
               PROVE  \/ \E n \in Validators : ValidatorPower(n) > StakingTokens
                      \/ \E n \in Node \ Validators : gentxs[n] # NoFile
    OBVIOUS
  <1>1. i \in Validators /\ i \in Nat
    BY ArgsType DEF Types
  <1>2. genesis[i] = NewGenesis
    BY <1>1 DEF HasGenesisOK, HasGenesis, IsCollected
  <1>3. NewGenesis # NoFile /\ NewGenesis.accounts = {<<n, run>> : n \in Validators}
    BY NewGenesisOfType
  <1>4. PICK t \in Files : ~(<<t.node, t.account>> \in NewGenesis.accounts /\ t.power <= StakingTokens)
    BY <1>2, <1>3 DEF Collected
  <1>5. PICK n \in Node : gentxs[n] = t /\ gentxs[n] # NoFile
    BY FilesOfType
  <1>6. CASE n \notin Validators
    BY <1>5, <1>6
  <1>7. CASE n \in Validators
    <2>1. t = Gentx(n) /\ t.node = n /\ t.account = run /\ t.power = ValidatorPower(n)
          /\ t \in GentxType
      BY <1>5, <1>7, NewGenesisOfType
    <2>2. ~(t.power <= StakingTokens)
      BY <1>3, <1>4, <1>7, <2>1
    <2>3. ValidatorPower(n) > StakingTokens
      BY <2>1, <2>2 DEF GentxType, StakingTokens
    <2>4. QED  BY <1>7, <2>3
  <1>8. QED  BY <1>6, <1>7

LEMMA FinalConfigIs ==
    ASSUME NEW cfg, DOMAIN cfg = Field, NEW n \in Nat
    PROVE  LET c == FinalConfig(cfg, n) IN
           /\ DOMAIN c = Field /\ c.moniker = n
           /\ SingleMachine => c.rpc = 26657 + n /\ c.p2p = 16656 + n
           /\ ~SingleMachine => c.p2p = cfg.p2p
  <1> DEFINE own == [cfg EXCEPT !.home = n, !.moniker = n]
  <1>1. DOMAIN own = Field /\ own.moniker = n /\ own.p2p = cfg.p2p
    BY DEF Field
  <1>2. FinalConfig(cfg, n) = IF SingleMachine
                              THEN [own EXCEPT !.rpc = 26657 + n, !.p2p = P2PPortStart + n] ELSE own
    BY DEF FinalConfig
  <1> HIDE DEF own
  <1>3. CASE SingleMachine
    BY <1>1, <1>2, <1>3 DEF P2PPortStart, Field
  <1>4. CASE ~SingleMachine
    BY <1>1, <1>2, <1>4
  <1>5. QED  BY <1>3, <1>4

LEMMA WithPeersIs ==
    ASSUME NEW c, DOMAIN c = Field
    PROVE  /\ WithPeers(c).peers = {t.memo : t \in {u \in Files : u.node # c.moniker}}
           /\ WithPeers(c).rpc = c.rpc /\ WithPeers(c).p2p = c.p2p
  BY DEF WithPeers, Field

LEMMA CollectRefusesStep == ASSUME IInv, Collect, ~Collected(genesis[i]) PROVE IInv'
  <1> USE DEF IInv
  <1>1. UNCHANGED <<run, args, i, appState, faulted, configToml, appToml, dirs, account, gentxs, genesis>>
        /\ pc = "collect" /\ pc' = "failed" /\ nodeConfig' = FinalConfig(nodeConfig, i)
    BY DEF Collect
  <1>2. Validators' = Validators /\ (\A f : Changed(f)' = Changed(f))
        /\ \A n : ValidatorPower(n)' = ValidatorPower(n)
    BY <1>1, SameArgs
  <1>3. Types'
    <2>1. DOMAIN nodeConfig' = Field
      <3>1. i \in Nat /\ DOMAIN nodeConfig = Field
        BY ArgsType DEF Types
      <3>2. QED  BY <1>1, <3>1, FinalConfigIs
    <2>2. QED  BY <1>1, <1>2, <2>1 DEF Types
  <1>4. RunOK' /\ GentxOK' /\ SettingUpOK' /\ AppStateOK' /\ PortOK'
    BY <1>1 DEF RunOK, GentxOK, SettingUpOK, AppStateOK, PortOK, Running
  <1>5. AccountsOK'
    BY <1>1 DEF AccountsOK, Running
  <1>6. SetUpOK' /\ HasGenesisOK' /\ IsCollectedOK'
    BY <1>1 DEF SetUpOK, HasGenesisOK, IsCollectedOK, SetUp, HasGenesis, IsCollected
  <1>7. FailsForAReason'
    BY <1>1, <1>2, RefusedForAReason DEF FailsForAReason
  <1>8. QED  BY <1>3, <1>4, <1>5, <1>6, <1>7

(* The canonical state, after the first as after any other.                *)
LEMMA CollectedState ==
    ASSUME IInv, Collect, Collected(genesis[i])
    PROVE  /\ appState' \in GenesisType /\ appState' # NoFile
           /\ appState'.accounts = NewGenesis.accounts /\ appState'.gentxs = Files
           /\ Collected(NewGenesis)
           /\ i > 0 => appState' = appState
           /\ i = 0 => ~Changed("home")
  <1> USE DEF IInv
  <1>1. pc = "collect" /\ i \in Validators /\ i \in Nat /\ i \in Node /\ 0 \in Validators
        /\ appState' = IF appState = NoFile THEN [genesis[i] EXCEPT !.gentxs = Files] ELSE appState
    BY ArgsType DEF Collect, Types
  <1>2. NewGenesis \in GenesisType /\ Files \subseteq GentxType
    BY <1>1, NewGenesisOfType, FilesOfType
  <1>3. CASE i = 0
    <2>1. appState = NoFile
      BY <1>1, <1>3 DEF AppStateOK, Running
    <2>2. ~Changed("home") /\ genesis[i] = NewGenesis
      BY <1>1, <1>3, OldGenesisRefused
    <2>3. appState' = [NewGenesis EXCEPT !.gentxs = Files]
      BY <1>1, <2>1, <2>2
    <2>4. appState' \in GenesisType /\ appState'.accounts = NewGenesis.accounts
          /\ appState'.gentxs = Files
      BY <1>2, <2>3 DEF GenesisType
    <2>5. QED  BY <1>3, <2>2, <2>4
  <1>4. CASE i > 0
    <2>1. IsCollected(0)
      BY <1>1, <1>4 DEF IsCollected
    <2>2. Collected(NewGenesis) /\ appState # NoFile
          /\ appState.accounts = NewGenesis.accounts /\ appState.gentxs = Files
      BY <1>1, <2>1 DEF IsCollectedOK
    <2>3. appState' = appState /\ appState \in GenesisType
      BY <1>1, <2>2 DEF Types
    <2>4. QED  BY <1>4, <2>2, <2>3
  <1>5. QED  BY <1>1, <1>3, <1>4

LEMMA CollectStep == ASSUME IInv, Collect, Collected(genesis[i]) PROVE IInv'
  <1> USE DEF IInv
  <1>1. UNCHANGED <<run, args, faulted, appToml, dirs, account, gentxs>> /\ pc = "collect"
        /\ nodeConfig' = FinalConfig(nodeConfig, i)
        /\ genesis' = [genesis EXCEPT ![i] = appState']
        /\ configToml' = [configToml EXCEPT ![i] = WithPeers(nodeConfig')]
        /\ NextNode("collect", "done")
    BY DEF Collect, Overwritten
  <1>2. Validators' = Validators /\ SingleMachine' = SingleMachine /\ (\A f : Changed(f)' = Changed(f))
        /\ AddressOK' = AddressOK /\ KeyTypeOK' = KeyTypeOK
    BY <1>1, SameArgs
  <1>3. \/ i + 1 \in Validators /\ i' = i + 1 /\ pc' = "collect"
        \/ i' = 0 /\ pc' = "done" /\ \A n \in Validators : n < i + 1
    BY <1>1, NextNodeIs
  <1>4. i \in Validators /\ i \in Node /\ i \in Nat /\ 0 \in Validators
        /\ \A n \in Validators : n \in Node /\ n \in Nat
    BY ArgsType DEF Types
  <1>5. /\ DOMAIN nodeConfig' = Field /\ nodeConfig'.moniker = i
        /\ SingleMachine => nodeConfig'.rpc = 26657 + i /\ nodeConfig'.p2p = 16656 + i
        /\ ~SingleMachine => nodeConfig'.p2p = nodeConfig.p2p
    <2>1. DOMAIN nodeConfig = Field
      BY DEF Types
    <2>2. /\ DOMAIN FinalConfig(nodeConfig, i) = Field /\ FinalConfig(nodeConfig, i).moniker = i
          /\ SingleMachine => /\ FinalConfig(nodeConfig, i).rpc = 26657 + i
                              /\ FinalConfig(nodeConfig, i).p2p = 16656 + i
          /\ ~SingleMachine => FinalConfig(nodeConfig, i).p2p = nodeConfig.p2p
      BY <1>4, <2>1, FinalConfigIs
    <2>3. QED  BY <1>1, <2>2
  <1>6. Types'
    <2>1. genesis' \in [Node -> GenesisType \cup {NoFile}]
      BY <1>1, CollectedState DEF Types
    <2>2. DOMAIN configToml' = Node
      BY <1>1 DEF Types
    <2>3. i' \in Validators' /\ pc' \in {"collect", "done"}
      BY <1>2, <1>3, <1>4
    <2>4. QED  BY <1>1, <1>2, <1>5, <2>1, <2>2, <2>3, CollectedState DEF Types, Running
  <1>7. RunOK' /\ GentxOK' /\ SettingUpOK' /\ FailsForAReason'
    BY <1>1, <1>2, <1>3 DEF RunOK, GentxOK, SettingUpOK, FailsForAReason, Running
  <1>8. AppStateOK' /\ PortOK'
    <2>1. AppStateOK'
      <3>1. pc' = "collect" => i' > 0
        BY <1>3, <1>4
      <3>2. QED  BY <1>3, <3>1 DEF AppStateOK, Running
    <2>2. PortOK'
      BY <1>1, <1>2, <1>5 DEF PortOK, Running
    <2>3. QED  BY <2>1, <2>2
  <1>9. AccountsOK'
    <2> SUFFICES ASSUME NEW n \in Node, NEW m \in Node, NEW r \in 1..MaxRuns,
                        genesis'[n] # NoFile, <<m, r>> \in genesis'[n].accounts
                 PROVE  r <= run /\ (pc' \in Running /\ Changed("home") => r < run)
      BY <1>1, <1>2 DEF AccountsOK
    <2>1. CASE n = i
      <3>1. <<m, r>> \in {<<k, run>> : k \in Validators}
        BY <1>1, <1>4, <2>1, CollectedState, NewGenesisOfType DEF Types
      <3>2. r = run /\ run \in Nat
        BY <3>1 DEF Types
      <3>3. ~Changed("home")
        <4>1. CASE i = 0
          BY <4>1, CollectedState
        <4>2. CASE i # 0
          <5>1. 0 \in Node /\ IsCollected(0)
            BY <1>1, <1>4, <4>2 DEF IsCollected
          <5>2. genesis[0] # NoFile /\ genesis[0].accounts = {<<k, run>> : k \in Validators}
            BY <1>1, <1>4, <5>1, NewGenesisOfType DEF IsCollectedOK
          <5>3. <<0, run>> \in genesis[0].accounts /\ run \in 1..MaxRuns
            BY <1>1, <1>4, <5>2, NewGenesisOfType
          <5>4. Changed("home") => run < run
            BY <1>1, <5>1, <5>2, <5>3 DEF AccountsOK, Running
          <5>5. QED  BY <5>3, <5>4
        <4>3. QED  BY <4>1, <4>2
      <3>4. QED  BY <3>2, <3>3
    <2>2. CASE n # i
      <3>1. genesis'[n] = genesis[n]
        BY <1>1, <2>2 DEF Types
      <3>2. QED  BY <1>1, <3>1 DEF AccountsOK, Running
    <2>3. QED  BY <2>1, <2>2
  <1>10. SetUpOK'
    BY <1>1, <1>2, <1>3, SameArgs, SameFiles DEF SetUpOK, SetUp
  <1>11. HasGenesisOK'
    <2> SUFFICES ASSUME NEW n \in Validators, HasGenesis(n)', ~IsCollected(n)', ~Changed("home")
                 PROVE  genesis'[n] = NewGenesis'
      BY <1>2 DEF HasGenesisOK
    <2>1. ~(n < i + 1) /\ n # i /\ n \in Node
      BY <1>3, <1>4 DEF IsCollected
    <2>2. genesis[n] = NewGenesis
      BY <1>1, <1>4, <2>1 DEF HasGenesisOK, HasGenesis, IsCollected
    <2>3. QED  BY <1>1, <2>1, <2>2, SameFiles DEF Types
  <1>12. IsCollectedOK'
    <2>1. Collected(NewGenesis)' /\ Files' = Files /\ NewGenesis' = NewGenesis
      BY <1>1, CollectedState, SameFiles DEF Collected
    <2>2. \A n \in Validators : IsCollected(n)' => n < i + 1
      BY <1>3, <1>4 DEF IsCollected
    <2>3. ASSUME NEW n \in Validators, n < i + 1
          PROVE  genesis'[n] = appState' /\ TomlIs(n)'
      <3>1. CASE n = i
        <4>1. genesis'[i] = appState' /\ configToml'[i] = WithPeers(nodeConfig')
          BY <1>1, <1>4 DEF Types
        <4>2. /\ WithPeers(nodeConfig').peers = {t.memo : t \in {u \in Files : u.node # i}}
              /\ WithPeers(nodeConfig').rpc = nodeConfig'.rpc
              /\ WithPeers(nodeConfig').p2p = nodeConfig'.p2p
          BY <1>5, WithPeersIs
        <4>3. ~SingleMachine /\ ~Changed("p2p") => nodeConfig'.p2p = args.homePort
          BY <1>1, <1>5 DEF PortOK, Running
        <4>4. QED  BY <1>1, <1>2, <1>5, <2>1, <3>1, <4>1, <4>2, <4>3 DEF TomlIs
      <3>2. CASE n # i
        <4>1. n < i /\ i > 0 /\ n \in Node
          BY <1>4, <2>3, <3>2
        <4>2. genesis'[n] = genesis[n] /\ configToml'[n] = configToml[n]
          BY <1>1, <3>2, <4>1 DEF Types
        <4>3. genesis[n] = appState /\ TomlIs(n)
          BY <1>1, <4>1 DEF IsCollectedOK, IsCollected
        <4>4. QED  BY <1>1, <1>2, <2>1, <4>1, <4>2, <4>3, CollectedState DEF TomlIs
      <3>3. QED  BY <3>1, <3>2
    <2>4. QED  BY <1>2, <2>1, <2>2, <2>3, CollectedState DEF IsCollectedOK
  <1>13. QED  BY <1>6, <1>7, <1>8, <1>9, <1>10, <1>11, <1>12

-----------------------------------------------------------------------------
(* The invariant, and what follows from it                                 *)

LEMMA Stutter == ASSUME IInv, UNCHANGED vars PROVE IInv'
  <1> USE DEF IInv, vars, disk, config
  <1>1. Validators' = Validators /\ SingleMachine' = SingleMachine /\ (\A f : Changed(f)' = Changed(f))
        /\ (\A n : ValidatorPower(n)' = ValidatorPower(n) /\ AppPorts(n)' = AppPorts(n))
        /\ Files' = Files /\ NewGenesis' = NewGenesis /\ (\A n : Gentx(n)' = Gentx(n))
        /\ AddressOK' = AddressOK /\ KeyTypeOK' = KeyTypeOK
    BY SameArgs, SameFiles
  <1>2. Types' /\ RunOK' /\ GentxOK' /\ SettingUpOK' /\ AppStateOK'
    BY <1>1 DEF Types, RunOK, GentxOK, SettingUpOK, AppStateOK
  <1>3. AccountsOK' /\ PortOK'
    BY <1>1 DEF AccountsOK, PortOK
  <1>4. SetUpOK' /\ HasGenesisOK'
    BY <1>1 DEF SetUpOK, HasGenesisOK, SetUp, HasGenesis, IsCollected
  <1>5. IsCollectedOK'
    BY <1>1 DEF IsCollectedOK, IsCollected, Collected, TomlIs
  <1>6. FailsForAReason'
    BY <1>1 DEF FailsForAReason
  <1>7. QED  BY <1>2, <1>3, <1>4, <1>5, <1>6

(* Every step of every run of init-files keeps the invariant, whatever the *)
(* arguments, failures and kills.                                          *)
THEOREM Invariance == Spec => []IInv
  <1>1. IInv /\ [Next]_vars => IInv'
    <2> SUFFICES ASSUME IInv, [Next]_vars PROVE IInv'
      OBVIOUS
    <2>1. CASE \E a \in Args : Begin(a)
      BY <2>1, BeginStep
    <2>2. CASE PrepareNode \/ SaveKey \/ WriteGentx
      BY <2>2, PrepareNodeStep, SaveKeyStep, WriteGentxStep
    <2>3. CASE SaveGenesis \/ Collect
      BY <2>3, SaveGenesisStep, CollectStep, CollectRefusesStep
    <2>4. CASE RefuseChanges \/ RefuseKeyType \/ FailAndRemove \/ Fail
      BY <2>4, FailSteps
    <2>5. CASE UNCHANGED vars
      BY <2>5, Stutter
    <2>6. QED  BY <2>1, <2>2, <2>3, <2>4, <2>5 DEF Next
  <1>2. QED  BY <1>1, InitInv, PTL DEF Spec

(* What is known of a run that has ended well.                             *)
LEMMA DoneIs ==
    ASSUME IInv, pc = "done"
    PROVE  /\ genesis[0] = appState /\ appState.gentxs = Files
           /\ appState.accounts = {<<n, run>> : n \in Validators}
           /\ Files = {Gentx(n) : n \in Validators}
           /\ \A n \in Validators :
                 /\ n \in Nat /\ n < MaxValidators
                 /\ n \in dirs /\ account[n] = run /\ genesis[n] = appState
                 /\ appToml[n] = AppPorts(n) /\ TomlIs(n)
                 /\ Gentx(n).node = n /\ Gentx(n).account = run /\ Gentx(n).memo = Memo(n)
                 /\ Gentx(n).power \in 1..StakingTokens
  <1> USE DEF IInv
  <1>1. 0 \in Validators /\ \A n \in Validators : n \in Nat /\ n < MaxValidators
    BY ArgsType DEF Types, Node
  <1>2. \A n \in Validators : SetUp(n) /\ IsCollected(n)
    BY DEF SetUp, IsCollected
  <1>3. Collected(NewGenesis)
    BY <1>1, <1>2 DEF IsCollectedOK
  <1>4. Files = {Gentx(n) : n \in Validators} /\ \A n \in Validators : ValidatorPower(n) <= StakingTokens
    BY <1>3, CollectedFiles
  <1>5. ASSUME NEW n \in Validators PROVE Gentx(n).power \in 1..StakingTokens
    <2>1. Gentx(n).power = ValidatorPower(n) /\ ValidatorPower(n) <= StakingTokens
      BY <1>4, NewGenesisOfType
    <2>2. ValidatorPower(n) \in Nat \ {0}
      BY <1>1, PowerOfType DEF Types, RunOK
    <2>3. \A p \in Nat \ {0} : p <= StakingTokens => p \in 1..StakingTokens
      BY DEF StakingTokens
    <2>4. QED  BY <2>1, <2>2, <2>3
  <1>6. QED  BY <1>1, <1>2, <1>4, <1>5, NewGenesisOfType DEF IsCollectedOK, SetUpOK

(* A command that ends well leaves one testnet, whatever earlier runs have *)
(* left in the directory.                                                  *)
THEOREM LeavesOneTestnet == Spec => []SuccessIsOneTestnet
  <1>1. IInv => SuccessIsOneTestnet
    <2> SUFFICES ASSUME IInv, pc = "done" PROVE SuccessIsOneTestnet
      BY DEF SuccessIsOneTestnet
    <2>1. \A n \in Validators : n \in dirs /\ genesis[n] = genesis[0]
      BY DoneIs
    <2>2. {t.node : t \in genesis[0].gentxs} = Validators
      BY DoneIs
    <2>3. ASSUME NEW t \in genesis[0].gentxs
          PROVE  /\ t.account = account[t.node]
                 /\ <<t.node, t.account>> \in genesis[0].accounts
                 /\ t.power \in 1..StakingTokens
      BY DoneIs
    <2>4. QED  BY <2>1, <2>2, <2>3 DEF SuccessIsOneTestnet
  <1>2. QED  BY <1>1, Invariance, PTL

(* A command in which nothing goes wrong fails only because of what it was *)
(* asked for, or of what it has found.                                     *)
THEOREM NoFailureWithoutReason == Spec => []FailsForAReason
  <1>1. IInv => FailsForAReason
    BY DEF IInv
  <1>2. QED  BY <1>1, Invariance, PTL

(* Up to 256 validators are told different addresses of each other.        *)
THEOREM AddressesDiffer ==
    ASSUME MaxValidators <= 256
    PROVE  Spec => []PeersDistinct
  <1>1. IInv => PeersDistinct
    <2> SUFFICES ASSUME IInv, pc = "done", args.place # NoIP,
                        NEW n \in Validators, NEW m \in Validators, Memo(n) = Memo(m)
                 PROVE  n = m
      BY DoneIs DEF PeersDistinct
    <2>1. n \in 0..255 /\ m \in 0..255
      <3>1. n \in Nat /\ n < MaxValidators /\ m \in Nat /\ m < MaxValidators
        BY DoneIs
      <3>2. QED  BY <3>1
    <2>2. IP(n) = IP(m) /\ P2PPortStart + PortOffset(n) = P2PPortStart + PortOffset(m)
      BY DEF Memo
    <2>3. CASE SingleMachine
      BY <2>1, <2>2, <2>3 DEF PortOffset, P2PPortStart
    <2>4. CASE ~SingleMachine
      <3>1. args.place \in 0..255 /\ args.place \notin {NoIP, SingleHost}
        BY <2>4, ArgsType DEF IInv, Types, Place, SingleMachine, RunOK, AddressOK
      <3>2. (args.place + n) % 256 = (args.place + m) % 256
        BY <2>2, <3>1 DEF IP
      <3>3. \A z \in 0..510 : z % 256 = IF z < 256 THEN z ELSE z - 256
        OBVIOUS
      <3>4. \A b, x, y \in 0..255 : (b + x) % 256 = (b + y) % 256 => x = y
        <4> SUFFICES ASSUME NEW b \in 0..255, NEW x \in 0..255, NEW y \in 0..255,
                            (b + x) % 256 = (b + y) % 256
                     PROVE  x = y
          OBVIOUS
        <4>1. b + x \in 0..510 /\ b + y \in 0..510
          OBVIOUS
        <4>2. /\ (b + x) % 256 = IF b + x < 256 THEN b + x ELSE b + x - 256
              /\ (b + y) % 256 = IF b + y < 256 THEN b + y ELSE b + y - 256
          BY <3>3, <4>1
        <4>3. QED  BY <4>2
      <3>5. QED  BY <2>1, <3>1, <3>2, <3>4
    <2>5. QED  BY <2>3, <2>4
  <1>2. QED  BY <1>1, Invariance, PTL

Server == {"api", "grpc", "jsonrpc", "ws", "metrics", "geth", "rpc", "p2p"}

\* Validator k's server x is at port p, on one host.
ListensAt(k, x, p) ==
    /\ x = "api" => p = 1317 + k
    /\ x = "grpc" => p = 9090 + k
    /\ x = "jsonrpc" => p = 8545 + 10 * k
    /\ x = "ws" => p = 8546 + 10 * k
    /\ x = "metrics" => p = 6065 + 10 * k
    /\ x = "geth" => p = 8100 + 10 * k
    /\ x = "rpc" => p = 26657 + k
    /\ x = "p2p" => p = 16656 + k

(* The eight series of ports have no number in common before the 56th.     *)
LEMMA SeriesApart ==
    ASSUME NEW n \in 0..54, NEW m \in 0..54, NEW s \in Server, NEW t \in Server,
           NEW p \in Nat, ListensAt(n, s, p), ListensAt(m, t, p)
    PROVE  n = m /\ s = t
  BY DEF Server, ListensAt

LEMMA ServersListen ==
    ASSUME IInv, pc = "done", SingleMachine, NEW k \in Validators
    PROVE  /\ DOMAIN Servers(k) = Server
           /\ \A x \in Server : Servers(k)[x] \in Nat /\ ListensAt(k, x, Servers(k)[x])
  <1>1. appToml[k] = AppPorts(k) /\ configToml[k].rpc = 26657 + k /\ configToml[k].p2p = 16656 + k
        /\ k \in Nat
    BY DoneIs DEF TomlIs
  <1>2. DOMAIN AppPorts(k) = {"api", "grpc", "jsonrpc", "ws", "metrics", "geth"}
    BY DEF AppPorts
  <1>3. DOMAIN Servers(k) = Server
    BY <1>1, <1>2 DEF Servers, Server
  <1>4. PortOffset(k) = k
    BY DEF PortOffset
  <1>5. /\ Servers(k)["api"] = 1317 + k /\ Servers(k)["grpc"] = 9090 + k
        /\ Servers(k)["jsonrpc"] = 8545 + 10 * k /\ Servers(k)["ws"] = 8546 + 10 * k
        /\ Servers(k)["metrics"] = 6065 + 10 * k /\ Servers(k)["geth"] = 8100 + 10 * k
    BY <1>1, <1>2, <1>4 DEF Servers, AppPorts
  <1>6. Servers(k)["rpc"] = 26657 + k /\ Servers(k)["p2p"] = 16656 + k
    BY <1>1, <1>2 DEF Servers
  <1>7. ASSUME NEW x \in Server PROVE Servers(k)[x] \in Nat /\ ListensAt(k, x, Servers(k)[x])
    BY <1>1, <1>5, <1>6 DEF Server, ListensAt
  <1>8. QED  BY <1>3, <1>7

(* Up to 55 validators on one host never listen on the same port; from the *)
(* 56th on the JSON-RPC ports, ten apart, meet the gRPC ports.             *)
THEOREM PortsNeverMeet ==
    ASSUME MaxValidators < 56
    PROVE  Spec => []PortsDistinct
  <1>1. IInv => PortsDistinct
    <2> SUFFICES ASSUME IInv, pc = "done", SingleMachine,
                        NEW n \in Validators, NEW m \in Validators,
                        NEW s \in DOMAIN Servers(n), NEW t \in DOMAIN Servers(m),
                        Servers(n)[s] = Servers(m)[t]
                 PROVE  n = m /\ s = t
      BY DEF PortsDistinct
    <2>1. n \in 0..54 /\ m \in 0..54
      <3>1. n \in Nat /\ n < MaxValidators /\ m \in Nat /\ m < MaxValidators
        BY DoneIs
      <3>2. QED  BY <3>1
    <2>2. s \in Server /\ t \in Server
      BY ServersListen
    <2>3. Servers(n)[s] \in Nat /\ ListensAt(n, s, Servers(n)[s]) /\ ListensAt(m, t, Servers(n)[s])
      BY <2>2, ServersListen
    <2>4. QED  BY <2>1, <2>2, <2>3, SeriesApart
  <1>2. QED  BY <1>1, Invariance, PTL

-----------------------------------------------------------------------------
(* The configuration files: their types, and what was asked to be changed. *)

\* The value that is asked for last, and the fields that the command sets after it.
Latest(f) == args.changes[Last(ChangesOf(f, args.changes))].value
OwnField(f) == f \in {"moniker", "home"} \/ (SingleMachine /\ f \in {"rpc", "p2p"})
HasChanges(cfg) == \A f \in Field : Changed(f) /\ ~OwnField(f) => cfg[f] = Latest(f)

\* The changes have been made to the common configuration.
Prepared == pc \in {"key", "gentx", "genesis", "collect"} \/ (pc = "prepare" /\ i > 0)

FilesTyped ==
    /\ faulted \in BOOLEAN /\ nodeConfig \in ConfigType
    /\ \A n \in Node : TomlOK(configToml[n])
    /\ appToml \in [Node -> AppType \cup {NoFile}]

ChangesMade ==
    /\ Prepared => ChangesOK(args.changes) /\ HasChanges(nodeConfig)
    /\ pc = "done" => ChangesOK(args.changes)
    /\ \A n \in Validators : IsCollected(n) => HasChanges(configToml[n])

ConfigInv == FilesTyped /\ ChangesMade

LEMMA ElementType == ASSUME NEW S, NEW s \in Seq(S), NEW k \in 1..Len(s) PROVE s[k] \in S
  OBVIOUS

(* The last of a sequence's indices with a property.                       *)
LEMMA LastIs ==
    ASSUME args \in Args, NEW f, Changed(f)
    PROVE  /\ Last(ChangesOf(f, args.changes)) \in ChangesOf(f, args.changes)
           /\ \A k \in ChangesOf(f, args.changes) : k <= Last(ChangesOf(f, args.changes))
           /\ Latest(f) \in Nat \cup {Unreadable}
  <1> DEFINE S == ChangesOf(f, args.changes)
  <1>1. args.changes \in Seq([path : STRING, value : Nat \cup {Unreadable}])
    BY DEF Args
  <1>2. Len(args.changes) \in Nat /\ S \in SUBSET (1..Len(args.changes)) /\ S # {}
    BY <1>1 DEF ChangesOf, Changed
  <1>3. \E m \in S : \A k \in S : k <= m
    <2>1. S \in SUBSET Nat /\ \A k \in S : k <= Len(args.changes)
      BY <1>2
    <2> HIDE DEF S
    <2>2. QED  BY <1>2, <2>1, Greatest
  <1>4. Last(S) \in S /\ \A k \in S : k <= Last(S)
    BY <1>3 DEF Last
  <1>5. Last(S) \in 1..Len(args.changes)
    BY <1>2, <1>4
  <1>6. Latest(f) = args.changes[Last(S)].value
    BY DEF Latest
  <1> HIDE DEF S
  <1>7. args.changes[Last(S)] \in [path : STRING, value : Nat \cup {Unreadable}]
    BY <1>1, <1>5, ElementType
  <1>8. Latest(f) \in Nat \cup {Unreadable}
    BY <1>6, <1>7
  <1>9. QED  BY <1>4, <1>8 DEF S

(* A configuration after the changes have been applied to it.              *)
LEMMA AppliedIs ==
    ASSUME args \in Args, NEW cfg \in ConfigType, NEW n \in Nat
    PROVE  NodeConfig(cfg, n) \in ConfigType /\ HasChanges(NodeConfig(cfg, n))
  <1> DEFINE own == [cfg EXCEPT !.home = n, !.moniker = n, !.rpc = 26657 + PortOffset(n)]
             new == NodeConfig(cfg, n)
  <1>1. own \in ConfigType
    <2>1. 26657 + PortOffset(n) \in Nat
      BY DEF PortOffset
    <2> DEFINE r == 26657 + PortOffset(n)
    <2>2. own = [cfg EXCEPT !.home = n, !.moniker = n, !.rpc = r]
      OBVIOUS
    <2> HIDE DEF r, own
    <2>3. r \in Nat
      BY <2>1 DEF r
    <2>4. QED  BY <2>2, <2>3, Zenon DEF ConfigType, Field
  <1>2. new = [f \in Field |-> IF Changed(f) THEN Latest(f) ELSE own[f]]
    BY DEF NodeConfig, Applied, Changed, Latest
  <1> HIDE DEF own, new
  <1>3. \A f \in Field : Changed(f) => Latest(f) \in Nat \cup {Unreadable}
    BY LastIs
  <1>4. new \in ConfigType
    BY <1>1, <1>2, <1>3 DEF ConfigType
  <1>5. HasChanges(new)
    BY <1>2 DEF HasChanges
  <1>6. QED  BY <1>4, <1>5 DEF new

\* The second loop over the configuration only sets what is the node's own.
LEMMA FinalConfigKeeps ==
    ASSUME NEW cfg \in ConfigType, NEW n \in Nat
    PROVE  /\ FinalConfig(cfg, n) \in ConfigType
           /\ HasChanges(cfg) => HasChanges(FinalConfig(cfg, n))
  <1> DEFINE own == [cfg EXCEPT !.home = n, !.moniker = n]
             new == FinalConfig(cfg, n)
  <1>1. own \in ConfigType /\ \A f \in Field : ~OwnField(f) => own[f] = cfg[f]
    BY DEF ConfigType, OwnField
  <1>2. 26657 + n \in Nat /\ P2PPortStart + n \in Nat
    BY DEF P2PPortStart
  <1>3. new = IF SingleMachine THEN [own EXCEPT !.rpc = 26657 + n, !.p2p = P2PPortStart + n] ELSE own
    BY DEF FinalConfig
  <1> HIDE DEF own, new
  <1>4. new \in ConfigType /\ \A f \in Field : ~OwnField(f) => new[f] = cfg[f]
    <2>1. CASE SingleMachine
      <3>1. new = [own EXCEPT !.rpc = 26657 + n, !.p2p = P2PPortStart + n]
        BY <2>1, <1>3
      <3> DEFINE a == 26657 + n
                 b == P2PPortStart + n
      <3>4. a \in Nat /\ b \in Nat /\ new = [own EXCEPT !.rpc = a, !.p2p = b]
        BY <1>2, <3>1
      <3> HIDE DEF a, b
      <3>2. new \in ConfigType /\ \A f \in Field \ {"rpc", "p2p"} : new[f] = own[f]
        BY <1>1, <3>4, Zenon DEF ConfigType, Field
      <3>3. QED  BY <1>1, <2>1, <3>2 DEF OwnField
    <2>2. CASE ~SingleMachine
      BY <1>1, <1>3, <2>2
    <2>3. QED  BY <2>1, <2>2
  <1>5. HasChanges(cfg) => HasChanges(new)
    BY <1>4 DEF HasChanges
  <1>6. QED  BY <1>4, <1>5 DEF new

\* What is written is the configuration, and the other nodes' addresses.
LEMMA TomlOfConfig ==
    ASSUME Types, NEW cfg \in ConfigType
    PROVE  /\ TomlOK(WithPeers(cfg))
           /\ HasChanges(cfg) => HasChanges(WithPeers(cfg))
  <1>1. /\ DOMAIN WithPeers(cfg) = Field \cup {"peers"}
        /\ \A f \in Field : WithPeers(cfg)[f] = cfg[f]
        /\ WithPeers(cfg).peers = {t.memo : t \in {u \in Files : u.node # cfg.moniker}}
    BY DEF WithPeers, Field
  <1>2. WithPeers(cfg).peers \subseteq MemoType
    BY <1>1, FilesOfType DEF GentxType
  <1>3. \A f \in Field : cfg[f] \in Nat \cup {Unreadable}
    BY DEF ConfigType
  <1>4. QED  BY <1>1, <1>2, <1>3 DEF TomlOK, HasChanges

LEMMA AppPortsType == ASSUME NEW n \in Nat PROVE AppPorts(n) \in AppType
  <1>1. PortOffset(n) \in Nat /\ 10 * PortOffset(n) \in Nat
    BY DEF PortOffset
  <1>2. /\ 1317 + PortOffset(n) \in Nat /\ 9090 + PortOffset(n) \in Nat
        /\ 8545 + 10 * PortOffset(n) \in Nat /\ 8546 + 10 * PortOffset(n) \in Nat
        /\ 6065 + 10 * PortOffset(n) \in Nat /\ 8100 + 10 * PortOffset(n) \in Nat
    BY <1>1
  <1>3. AppType = [api : Nat, grpc : Nat, jsonrpc : Nat, ws : Nat, metrics : Nat, geth : Nat]
    BY DEF AppType
  <1>4. QED  BY <1>2, <1>3 DEF AppPorts

LEMMA HomeConfigType == ASSUME NEW a \in Args PROVE HomeConfig(a) \in ConfigType
  <1>1. a.homePort \in Nat
    BY DEF Args
  <1> DEFINE port == a.homePort
  <1>2. HomeConfig(a) = [moniker |-> 0, home |-> 0, rpc |-> 26657, p2p |-> port, timeout |-> 5]
    BY DEF HomeConfig
  <1>3. port \in Nat
    BY <1>1
  <1> HIDE DEF port
  <1>4. QED  BY <1>2, <1>3 DEF ConfigType, Field

\* What a step keeps that leaves the arguments and the configuration alone.
LEMMA ConfigFrame ==
    ASSUME IInv, ConfigInv, UNCHANGED <<args, faulted, config>>,
           Prepared' => Prepared, pc' = "done" => pc = "done",
           \A n \in Validators : IsCollected(n)' => IsCollected(n)
    PROVE  ConfigInv'
  <1>1. Validators' = Validators /\ \A cfg : HasChanges(cfg)' <=> HasChanges(cfg)
    BY DEF Validators, HasChanges, Changed, OwnField, SingleMachine, Latest
  <1>2. FilesTyped'
    BY DEF ConfigInv, FilesTyped, config, TomlOK
  <1>3. ChangesMade'
    BY <1>1 DEF ConfigInv, ChangesMade, config, HasChanges
  <1>4. QED  BY <1>2, <1>3 DEF ConfigInv

LEMMA ConfigStep == ASSUME IInv, IInv', ConfigInv, [Next]_vars PROVE ConfigInv'
  <1> USE DEF IInv
  <1>0. i \in Nat /\ i \in Node /\ 0 \in Validators /\ \A n \in Validators : n \in Nat /\ n \in Node
    BY ArgsType DEF Types
  <1>1. ASSUME NEW a \in Args, Begin(a) PROVE ConfigInv'
    <2>1. FilesTyped'
      <3>1. HomeConfig(a) \in ConfigType
        BY HomeConfigType
      <3>2. TomlOK(NoFile)
        BY DEF TomlOK
      <3>3. QED  BY <1>1, <3>1, <3>2 DEF Begin, FilesTyped, TomlOK
    <2>2. ChangesMade'
      <3>1. pc' \in {"prepare", "failed"} /\ i' = 0
        BY <1>1 DEF Begin
      <3>2. QED  BY <3>1 DEF ChangesMade, Prepared, IsCollected
    <2>3. QED  BY <2>1, <2>2 DEF ConfigInv
  <1>2. CASE PrepareNode
    <2>1. /\ UNCHANGED <<args, faulted, configToml, appToml>> /\ pc' = "key" /\ ChangesOK(args.changes)
          /\ nodeConfig' = NodeConfig(nodeConfig, i)
      BY <1>2 DEF PrepareNode
    <2>2. nodeConfig' \in ConfigType /\ HasChanges(nodeConfig')
      BY <1>0, <2>1, AppliedIs DEF ConfigInv, FilesTyped, Types
    <2>3. FilesTyped'
      BY <2>1, <2>2 DEF ConfigInv, FilesTyped, TomlOK
    <2>4. HasChanges(nodeConfig)'
      BY <2>1, <2>2 DEF HasChanges, Changed, OwnField, SingleMachine, Latest
    <2>5. ChangesMade'
      BY <2>1, <2>4 DEF ChangesMade, IsCollected
    <2>6. QED  BY <2>3, <2>5 DEF ConfigInv
  <1>3. CASE SaveKey
    BY <1>3, ConfigFrame DEF SaveKey, Prepared, IsCollected
  <1>4. CASE WriteGentx
    <2>1. /\ UNCHANGED <<args, faulted, nodeConfig, configToml>> /\ pc = "gentx"
          /\ pc' \in {"prepare", "genesis"}
          /\ appToml' = [appToml EXCEPT ![i] = AppPorts(i)]
      BY <1>4 DEF WriteGentx, NextNode
    <2>2. FilesTyped'
      BY <1>0, <2>1, AppPortsType DEF ConfigInv, FilesTyped, TomlOK
    <2>3. HasChanges(nodeConfig)'
      BY <2>1 DEF HasChanges, Changed, OwnField, SingleMachine, Latest, ConfigInv, ChangesMade, Prepared
    <2>4. ChangesMade'
      BY <2>1, <2>3 DEF ConfigInv, ChangesMade, IsCollected, Prepared
    <2>5. QED  BY <2>2, <2>4 DEF ConfigInv
  <1>5. CASE SaveGenesis
    <2>1. UNCHANGED <<args, faulted, config>> /\ pc = "genesis" /\ pc' \in {"genesis", "collect"}
          /\ (pc' = "collect" => i' = 0)
      BY <1>5 DEF SaveGenesis, NextNode
    <2>2. \A n \in Validators : ~IsCollected(n)'
      BY <1>0, <2>1 DEF IsCollected
    <2>3. QED  BY <2>1, <2>2, ConfigFrame DEF Prepared
  <1>6. CASE Collect
    <2> DEFINE cfg == FinalConfig(nodeConfig, i)
    <2>1. /\ UNCHANGED <<args, faulted, appToml>> /\ pc = "collect" /\ nodeConfig' = cfg
      BY <1>6 DEF Collect
    <2>2. cfg \in ConfigType /\ HasChanges(cfg) /\ ChangesOK(args.changes)
      BY <1>0, <2>1, FinalConfigKeeps DEF ConfigInv, FilesTyped, ChangesMade, Prepared
    <2> HIDE DEF cfg
    <2>3. Validators' = Validators /\ \A c : (\A f \in Field : Changed(f)' <=> Changed(f))
                                         /\ (\A f \in Field : OwnField(f)' <=> OwnField(f))
                                         /\ (\A f \in Field : Latest(f)' = Latest(f))
      BY <2>1 DEF Validators, Changed, OwnField, SingleMachine, Latest
    <2>4. HasChanges(nodeConfig)'
      BY <2>1, <2>2, <2>3 DEF HasChanges
    <2>5. CASE Collected(genesis[i])
      <3>1. configToml' = [configToml EXCEPT ![i] = WithPeers(cfg)] /\ NextNode("collect", "done")
        BY <1>6, <2>1, <2>5 DEF Collect
      <3>2. TomlOK(WithPeers(cfg)) /\ HasChanges(WithPeers(cfg))
        BY <2>2, TomlOfConfig
      <3>3. /\ configToml'[i] = WithPeers(cfg)
            /\ \A n \in Node \ {i} : configToml'[n] = configToml[n]
        BY <1>0, <3>1 DEF Types
      <3>4. FilesTyped'
        BY <2>1, <2>2, <3>2, <3>3 DEF ConfigInv, FilesTyped, TomlOK
      <3>5. ASSUME NEW n \in Validators, IsCollected(n)'
            PROVE  HasChanges(configToml'[n])
        <4>1. n = i \/ IsCollected(n)
          BY <1>0, <2>1, <3>1, <3>5, NextNodeIs DEF IsCollected
        <4>2. CASE n = i
          BY <3>2, <3>3, <4>2
        <4>3. CASE n # i
          BY <1>0, <3>3, <4>1, <4>3 DEF ConfigInv, ChangesMade
        <4>4. QED  BY <4>2, <4>3
      <3>6. ASSUME NEW n \in Validators, IsCollected(n)'
            PROVE  HasChanges(configToml[n])'
        BY <2>3, <3>5, <3>6 DEF HasChanges
      <3>7. ChangesMade'
        BY <2>1, <2>2, <2>3, <2>4, <3>6 DEF ChangesMade
      <3>8. QED  BY <3>4, <3>7 DEF ConfigInv
    <2>6. CASE ~Collected(genesis[i])
      <3>1. pc' = "failed" /\ configToml' = configToml
        BY <1>6, <2>6 DEF Collect
      <3>2. FilesTyped'
        BY <2>1, <2>2, <3>1 DEF ConfigInv, FilesTyped, TomlOK
      <3>3. ChangesMade'
        BY <3>1 DEF ChangesMade, Prepared, IsCollected
      <3>4. QED  BY <3>2, <3>3 DEF ConfigInv
    <2>7. QED  BY <2>5, <2>6
  <1>7. CASE RefuseChanges \/ RefuseKeyType \/ FailAndRemove \/ Fail
    <2>1. UNCHANGED <<args, config>> /\ pc' = "failed" /\ faulted' \in BOOLEAN
      BY <1>7 DEF RefuseChanges, RefuseKeyType, FailAndRemove, Fail, ConfigInv, FilesTyped
    <2>2. FilesTyped'
      BY <2>1 DEF ConfigInv, FilesTyped, config, TomlOK
    <2>3. ChangesMade'
      BY <2>1 DEF ChangesMade, Prepared, IsCollected
    <2>4. QED  BY <2>2, <2>3 DEF ConfigInv
  <1>8. CASE UNCHANGED vars
    BY <1>8, ConfigFrame DEF vars, Prepared, IsCollected
  <1>9. QED  BY <1>1, <1>2, <1>3, <1>4, <1>5, <1>6, <1>7, <1>8 DEF Next

LEMMA ConfigAlways == Spec => []ConfigInv
  <1>1. Init => ConfigInv
    <2> SUFFICES ASSUME Init PROVE ConfigInv
      OBVIOUS
    <2>1. HomeConfig(args) \in ConfigType
      BY HomeConfigType DEF Init
    <2>2. QED  BY <2>1 DEF Init, ConfigInv, FilesTyped, ChangesMade, Prepared, IsCollected, TomlOK
  <1>2. QED  BY <1>1, ConfigStep, Invariance, PTL DEF Spec

(* Every variable of a run has its type, whatever was there before it.     *)
THEOREM TypeCorrect == Spec => []TypeOK
  <1>1. IInv /\ ConfigInv => TypeOK
    BY DEF IInv, ConfigInv, Types, FilesTyped, TypeOK
  <1>2. QED  BY <1>1, ConfigAlways, Invariance, PTL

(* What was asked for is in the configuration of every node: each loop     *)
(* after the first leaves it alone, although all nodes share one copy.     *)
THEOREM ChangesArrive == Spec => []ChangesReachEveryNode
  <1>1. IInv /\ ConfigInv => ChangesReachEveryNode
    <2> SUFFICES ASSUME IInv, ConfigInv, pc = "done",
                        NEW n \in Validators, NEW k \in DOMAIN args.changes,
                        NEW f, f = FieldOf(args.changes[k].path),
                        ~OwnField(f),
                        \A j \in DOMAIN args.changes : ~(j > k /\ FieldOf(args.changes[j].path) = f)
                 PROVE  configToml[n][f] = args.changes[k].value
      BY DEF ChangesReachEveryNode, OwnField
    <2>1. f \in Field
      BY DEF ConfigInv, ChangesMade, ChangesOK, ChangeOK
    <2>2. k \in ChangesOf(f, args.changes) /\ Changed(f)
      BY DEF ChangesOf, Changed
    <2>3. args \in Args
      BY DEF IInv, Types
    <2>4. Last(ChangesOf(f, args.changes)) = k
      <3> DEFINE l == Last(ChangesOf(f, args.changes))
      <3>1. l \in ChangesOf(f, args.changes) /\ k <= l
        BY <2>2, <2>3, LastIs
      <3>2. l \in DOMAIN args.changes /\ FieldOf(args.changes[l].path) = f
        BY <3>1 DEF ChangesOf
      <3>3. l \in Int /\ k \in Int
        BY <2>3, <3>2 DEF Args
      <3>4. QED  BY <3>1, <3>2, <3>3
    <2>5. HasChanges(configToml[n])
      BY DEF ConfigInv, ChangesMade, IsCollected
    <2>6. QED  BY <2>1, <2>2, <2>4, <2>5 DEF HasChanges, Latest
  <1>2. QED  BY <1>1, ConfigAlways, Invariance, PTL

(* Each node is told of all the others, at the ports they listen on: off   *)
(* one host that is so because the port asked for is the addresses' own.   *)
THEOREM PeersFindEachOther == Spec => []PeersReachable
  <1>1. IInv /\ ConfigInv => PeersReachable
    <2> SUFFICES ASSUME IInv, ConfigInv, pc = "done", NEW n \in Validators
                 PROVE  /\ configToml[n].peers = {Memo(m) : m \in Validators \ {n}}
                        /\ configToml[n].p2p = Memo(n).port \/ (~SingleMachine /\ P2PWanted # 26656)
      BY DEF PeersReachable
    <2>1. configToml[n].peers = {t.memo : t \in {u \in Files : u.node # n}}
      BY DoneIs DEF TomlIs
    <2>2. {t.memo : t \in {u \in Files : u.node # n}} = {Memo(m) : m \in Validators \ {n}}
      BY DoneIs
    <2>3. n \in Nat /\ TomlIs(n) /\ Memo(n).port = P2PPortStart + PortOffset(n)
      BY DoneIs DEF Memo
    <2>4. CASE SingleMachine
      <3>1. configToml[n].p2p = 16656 + n /\ Memo(n).port = 16656 + n
        BY <2>3, <2>4 DEF TomlIs, P2PPortStart, PortOffset
      <3>2. QED  BY <2>1, <2>2, <3>1
    <2>5. CASE ~SingleMachine
      <3>1. Memo(n).port = 26656
        BY <2>3, <2>5 DEF P2PPortStart, PortOffset
      <3>2. Changed("p2p") => configToml[n].p2p = Latest("p2p")
        BY <2>5 DEF ConfigInv, ChangesMade, IsCollected, HasChanges, OwnField, Field
      <3>3. configToml[n].p2p = P2PWanted
        BY <2>3, <2>5, <3>2 DEF TomlIs, P2PWanted, Latest
      <3>4. QED  BY <2>1, <2>2, <2>5, <3>1, <3>3
    <2>6. QED  BY <2>4, <2>5
  <1>2. QED  BY <1>1, ConfigAlways, Invariance, PTL
=============================================================================
