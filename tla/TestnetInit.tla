------------------------------ MODULE TestnetInit ------------------------------
(***************************************************************************)
(* evmd testnet init-files (evmd/cmd/evmd/cmd/testnet.go): the command     *)
(* sets up the homes of the validators of a testnet in one directory.  It  *)
(* is run again and again over the same directory, with other arguments;   *)
(* each of its steps may fail, and it may be killed between two of them.   *)
(* Some of its errors remove the whole directory, the others leave what    *)
(* there is.                                                               *)
(*                                                                         *)
(* An account is named by its validator's number and the run that made its *)
(* key.  The accounts of fixed mnemonics and the consensus keys are left   *)
(* out.  Of the configuration files there is what concerns who listens     *)
(* where, what names a node, and one field that has a flag of its own.     *)
(* The nodes' configuration begins as that of the caller's own home (the   *)
(* server context's, root.go:133), and the port of its p2p.laddr is an     *)
(* input.  Left out are paths in that configuration or in --config-changes *)
(* that are not relative (priv_validator_key_file, node_key_file,          *)
(* genesis_file), which would make all the nodes share a file, and --v 0,  *)
(* with which the command does nothing and says that it is done.           *)
(***************************************************************************)
EXTENDS Integers, Sequences, FiniteSets

CONSTANTS
    MaxValidators,  \* bound on --v
    PowerArgs,      \* values of --validator-powers
    StartBytes,     \* last bytes of --starting-ip-address
    NoIP,           \* --starting-ip-address ""
    NotIPv4,        \* --starting-ip-address of another form
    SingleHost,     \* --single-host
    HomePorts,      \* ports of p2p.laddr in the configuration of the caller's home
    ConfigChanges,  \* values of --config-changes: sequences of [path, value]
    Unreadable,     \* a value that is not of the field's type
    MaxRuns,        \* bound on the runs of the command
    NoFile

ASSUME TestnetInitAssumption ==
    /\ MaxValidators \in Nat \ {0} /\ MaxRuns \in Nat
    /\ PowerArgs \subseteq Seq(Int)
    /\ StartBytes \subseteq 0..255
    /\ {NoIP, NotIPv4, SingleHost} \cap StartBytes = {}
    /\ NoIP # SingleHost /\ NotIPv4 # SingleHost /\ NotIPv4 # NoIP
    /\ HomePorts \subseteq Nat
    /\ Unreadable \notin Nat
    /\ ConfigChanges \subseteq Seq([path : STRING, value : Nat \cup {Unreadable}])

VARIABLES
    run, args,      \* number of the run, and its arguments
    pc, i,          \* its next step, and the validator it is at
    appState,       \* the canonical state of collectGenFiles
    nodeConfig,     \* one configuration for all the nodes, changed from node to node
    configToml,     \* what this run has written into the nodes' config.toml
    appToml,        \* ... and app.toml
    faulted,        \* a step of the run has failed, or the run was killed
    dirs, account, gentxs, genesis    \* what is in the directory, by validator

disk == <<dirs, account, gentxs, genesis>>
config == <<nodeConfig, configToml, appToml>>
vars == <<run, args, pc, i, appState, faulted, config, disk>>

Node == 0..MaxValidators - 1
Place == StartBytes \cup {NoIP, NotIPv4, SingleHost}

\* The flags, and what the command reads from the caller's home.
Args == [numValidators : 1..MaxValidators, powers : PowerArgs, place : Place,
         keyType : {"known", "unknown"}, changes : ConfigChanges, homePort : HomePorts]

DefaultPower == 100
StakingTokens == 500    \* what an account is given, as a power

\* The validators of this run.
Validators == 0..args.numValidators - 1

-----------------------------------------------------------------------------
(* The configuration                                                       *)

Field == {"moniker", "home", "rpc", "p2p", "timeout"}

(* updateConfigField: a path names a field by its tag or by its name in    *)
(* the program; a section by itself is of no type that can be set.         *)
FieldOf(path) ==
    CASE path \in {"rpc.laddr", "RPC.ListenAddress"} -> "rpc"
      [] path = "p2p.laddr" -> "p2p"
      [] path = "consensus.timeout_commit" -> "timeout"
      [] path \in {"moniker", "home"} -> path
      [] OTHER -> "none"

\* setFieldValue: any value is a string, not every value is a duration.
ChangeOK(change) ==
    FieldOf(change.path) \in Field /\ (FieldOf(change.path) = "timeout" => change.value # Unreadable)

ChangesOK(changes) == \A k \in DOMAIN changes : ChangeOK(changes[k])

ChangesOf(field, changes) == {k \in DOMAIN changes : FieldOf(changes[k].path) = field}
Changed(field) == ChangesOf(field, args.changes) # {}

Last(S) == CHOOSE k \in S : \A j \in S : j <= k

\* applyConfigOverrides, one after the other.
Applied(cfg, changes) ==
    [f \in Field |-> IF ChangesOf(f, changes) = {} THEN cfg[f]
                     ELSE changes[Last(ChangesOf(f, changes))].value]

SingleMachine == args.place = SingleHost
PortOffset(n) == IF SingleMachine THEN n ELSE 0
P2PPortStart == IF SingleMachine THEN 16656 ELSE 26656

(* The configuration that the first node begins with; the timeout is set   *)
(* from its own flag.                                                      *)
HomeConfig(a) == [moniker |-> 0, home |-> 0, rpc |-> 26657, p2p |-> a.homePort, timeout |-> 5]

\* The node's own values come after the changes.
NodeConfigOwnLast(cfg, n) ==
    [Applied(cfg, args.changes) EXCEPT !.home = n, !.moniker = n, !.rpc = 26657 + PortOffset(n)]

\* In the first loop the changes come after the node's own values.
NodeConfig(cfg, n) ==
    Applied([cfg EXCEPT !.home = n, !.moniker = n, !.rpc = 26657 + PortOffset(n)], args.changes)

\* In collectGenFiles the changes are not applied again; the moniker is left.
FinalConfigMoniker(cfg, n) ==
    LET own == [cfg EXCEPT !.home = n] IN
    IF SingleMachine THEN [own EXCEPT !.rpc = 26657 + n, !.p2p = P2PPortStart + n] ELSE own

\* In collectGenFiles the changes are not applied again.
FinalConfig(cfg, n) ==
    LET own == [cfg EXCEPT !.home = n, !.moniker = n] IN
    IF SingleMachine THEN [own EXCEPT !.rpc = 26657 + n, !.p2p = P2PPortStart + n] ELSE own

\* On one host the ports of the EVM's servers are one apart, as the others are.
AppPortsOneApart(n) ==
    LET i1 == PortOffset(n) IN
    [api |-> 1317 + i1, grpc |-> 9090 + i1, jsonrpc |-> 8545 + i1, ws |-> 8546 + i1,
     metrics |-> 6065 + i1, geth |-> 8100 + i1]

\* On one host the ports of the EVM's servers are ten apart.
AppPorts(n) ==
    LET i1 == PortOffset(n)
        i10 == 10 * PortOffset(n)
    IN [api |-> 1317 + i1, grpc |-> 9090 + i1, jsonrpc |-> 8545 + i10, ws |-> 8546 + i10,
        metrics |-> 6065 + i10, geth |-> 8100 + i10]

-----------------------------------------------------------------------------
Init ==
    /\ run = 0
    /\ args \in Args
    /\ pc = "idle" /\ i = 0
    /\ appState = NoFile
    /\ nodeConfig = HomeConfig(args)
    /\ configToml = [n \in Node |-> NoFile]
    /\ appToml = [n \in Node |-> NoFile]
    /\ faulted = FALSE
    /\ dirs = {}
    /\ account = [n \in Node |-> 0]
    /\ gentxs = [n \in Node |-> NoFile]
    /\ genesis = [n \in Node |-> NoFile]

-----------------------------------------------------------------------------
\* parseValidatorPowers: the last power is that of all remaining validators.
PowersOK(powers) == \A k \in DOMAIN powers : powers[k] > 0

ValidatorPower(n) ==
    IF args.powers = <<>> THEN DefaultPower
    ELSE IF n < Len(args.powers) THEN args.powers[n + 1]
    ELSE args.powers[Len(args.powers)]

(* getIP and calculateIP: the last byte of the first address is counted    *)
(* up; without a first address it is this machine's.                       *)
IP(n) == IF args.place \in {NoIP, SingleHost} THEN args.place ELSE (args.place + n) % 256

\* Addresses are counted up from the first, which must be one.
AddressOK == args.place # NotIPv4

\* The keyring has keys of that type.
KeyTypeOK == args.keyType = "known"

\* One port for every node.
MemoOnePort(n) == [ip |-> IP(n), port |-> P2PPortStart]

\* On one host the ports differ.
Memo(n) == [ip |-> IP(n), port |-> P2PPortStart + PortOffset(n)]

\* One iteration more.
NextNodeOneMore(again, next) ==
    IF i \in Validators THEN i' = i + 1 /\ pc' = again
                        ELSE i' = 0 /\ pc' = next

\* The loop over the validators goes on, or the next section begins.
NextNode(again, next) ==
    IF i + 1 \in Validators THEN i' = i + 1 /\ pc' = again
                            ELSE i' = 0 /\ pc' = next

Running == {"prepare", "key", "gentx", "genesis", "collect"}

Begin(a) ==
    /\ pc \notin Running
    /\ run < MaxRuns
    /\ run' = run + 1
    /\ args' = a
    /\ pc' = IF PowersOK(a.powers) THEN "prepare" ELSE "failed"
    /\ i' = 0
    /\ appState' = NoFile
    /\ faulted' = FALSE
    /\ nodeConfig' = HomeConfig(a)
    /\ configToml' = [n \in Node |-> NoFile]
    /\ appToml' = [n \in Node |-> NoFile]
    /\ UNCHANGED disk

(* The directories, the address, the config changes and the node's keys.   *)
PrepareNode ==
    /\ pc = "prepare"
    /\ AddressOK /\ ChangesOK(args.changes)
    /\ pc' = "key"
    /\ dirs' = dirs \cup {i}
    /\ nodeConfig' = NodeConfig(nodeConfig, i)
    /\ UNCHANGED <<run, args, i, appState, faulted, configToml, appToml, account, gentxs, genesis>>

\* GenerateSaveCoinKey replaces a key that is there.
SaveKey ==
    /\ pc = "key"
    /\ KeyTypeOK
    /\ pc' = "gentx"
    /\ account' = [account EXCEPT ![i] = run]
    /\ UNCHANGED <<run, args, i, appState, faulted, config, dirs, gentxs, genesis>>

Gentx(n) == [node |-> n, account |-> account[n], power |-> ValidatorPower(n), memo |-> Memo(n)]

\* A file that is there is left.
WrittenOnce(old, new) == IF old = NoFile THEN new ELSE old

\* writeFile
Written(old, new) == new

WriteGentx ==
    /\ pc = "gentx"
    /\ gentxs' = [gentxs EXCEPT ![i] = Written(@, Gentx(i))]
    /\ appToml' = [appToml EXCEPT ![i] = AppPorts(i)]
    /\ NextNode("prepare", "genesis")
    /\ UNCHANGED <<run, args, appState, faulted, nodeConfig, configToml, dirs, account, genesis>>

\* RemoveAll: the whole directory, with what earlier runs have left.
Removed ==
    /\ dirs' = {}
    /\ account' = [n \in Node |-> 0]
    /\ gentxs' = [n \in Node |-> NoFile]
    /\ genesis' = [n \in Node |-> NoFile]

\* An address that cannot be counted up, or a change that cannot be made.
RefuseChanges ==
    /\ pc = "prepare"
    /\ ~(AddressOK /\ ChangesOK(args.changes))
    /\ pc' = "failed"
    /\ Removed
    /\ UNCHANGED <<run, args, i, appState, faulted, config>>

\* A key type that the keyring does not have: what there is remains.
RefuseKeyType ==
    /\ pc = "key"
    /\ ~KeyTypeOK
    /\ pc' = "failed"
    /\ UNCHANGED <<run, args, i, appState, faulted, config, disk>>

\* The errors before there is a key remove the whole directory.
FailAndRemove ==
    /\ pc \in {"prepare", "key"}
    /\ pc' = "failed"
    /\ faulted' = TRUE
    /\ Removed
    /\ UNCHANGED <<run, args, i, appState, config>>

\* The others, and a killed process, leave it as it is.
Fail ==
    /\ pc \in Running
    /\ pc' = "failed"
    /\ faulted' = TRUE
    /\ UNCHANGED <<run, args, i, appState, config, disk>>

-----------------------------------------------------------------------------
\* Every account of this run, and no gentx yet.
NewGenesis == [accounts |-> {<<n, account[n]>> : n \in Validators}, gentxs |-> {}]

\* With another home the file is written there, out of the directory.
Saved(n) == IF Changed("home") THEN genesis ELSE [genesis EXCEPT ![n] = NewGenesis]

\* initGenFiles
SaveGenesis ==
    /\ pc = "genesis"
    /\ genesis' = Saved(i)
    /\ NextNode("genesis", "collect")
    /\ UNCHANGED <<run, args, appState, faulted, config, dirs, account, gentxs>>

\* All the gentxs in the directory, whoever wrote them (external).
Files == {gentxs[n] : n \in {m \in Node : gentxs[m] # NoFile}}

\* genutil refuses a gentx whose account is unknown, or too poor (external).
Collected(gen) ==
    /\ gen # NoFile
    /\ \A t \in Files : <<t.node, t.account>> \in gen.accounts /\ t.power <= StakingTokens

\* The file is written where the canonical state is set, and only there.
OverwrittenFirst(n, state) == IF appState = NoFile THEN [genesis EXCEPT ![n] = state] ELSE genesis

\* ExportGenesisFileWithTime
Overwritten(n, state) == [genesis EXCEPT ![n] = state]

\* What genutil adds to config.toml: the other nodes' addresses (external).
WithPeers(cfg) ==
    [f \in Field \cup {"peers"} |->
        IF f = "peers" THEN {t.memo : t \in {u \in Files : u.node # cfg.moniker}} ELSE cfg[f]]

(* collectGenFiles: each validator's file is checked, and replaced by the  *)
(* first one's with the gentxs in it.                                      *)
Collect ==
    /\ pc = "collect"
    /\ nodeConfig' = FinalConfig(nodeConfig, i)
    /\ IF Collected(genesis[i])
       THEN /\ appState' = IF appState = NoFile THEN [genesis[i] EXCEPT !.gentxs = Files] ELSE appState
            /\ genesis' = Overwritten(i, appState')
            /\ configToml' = [configToml EXCEPT ![i] = WithPeers(nodeConfig')]
            /\ NextNode("collect", "done")
       ELSE pc' = "failed" /\ UNCHANGED <<i, appState, genesis, configToml>>
    /\ UNCHANGED <<run, args, faulted, appToml, dirs, account, gentxs>>

Next ==
    \/ \E a \in Args : Begin(a)
    \/ PrepareNode \/ SaveKey \/ WriteGentx
    \/ SaveGenesis \/ Collect
    \/ RefuseChanges \/ RefuseKeyType \/ FailAndRemove \/ Fail

Spec == Init /\ [][Next]_vars

-----------------------------------------------------------------------------
(* Properties                                                              *)

MemoType == [ip : (0..255) \cup {NoIP, SingleHost}, port : Nat]
GentxType == [node : Node, account : 1..MaxRuns, power : Nat \ {0}, memo : MemoType]
ConfigType == [Field -> Nat \cup {Unreadable}]
AppType == [{"api", "grpc", "jsonrpc", "ws", "metrics", "geth"} -> Nat]

\* A genesis file: its accounts, by validator and run, and its gentxs.
GenesisType == [accounts : SUBSET (Node \X (1..MaxRuns)), gentxs : SUBSET GentxType]

ASSUME NoFileAssumption == NoFile \notin GentxType /\ NoFile \notin GenesisType

TomlOK(toml) ==
    toml # NoFile => /\ DOMAIN toml = Field \cup {"peers"}
                     /\ toml.peers \subseteq MemoType
                     /\ \A f \in Field : toml[f] \in Nat \cup {Unreadable}

(* Every variable has its type: the command is never at a validator that   *)
(* it was not asked for.                                                   *)
TypeOK ==
    /\ run \in 0..MaxRuns /\ args \in Args
    /\ pc \in {"idle", "done", "failed"} \cup Running
    /\ i \in Validators
    /\ appState \in GenesisType \cup {NoFile}
    /\ faulted \in BOOLEAN
    /\ nodeConfig \in ConfigType
    /\ DOMAIN configToml = Node /\ \A n \in Node : TomlOK(configToml[n])
    /\ appToml \in [Node -> AppType \cup {NoFile}]
    /\ dirs \subseteq Node
    /\ account \in [Node -> 0..MaxRuns]
    /\ gentxs \in [Node -> GentxType \cup {NoFile}]
    /\ genesis \in [Node -> GenesisType \cup {NoFile}]

(* A command that ends well leaves one testnet: all its validators have    *)
(* the same genesis file, with a gentx of each of them and of no other,    *)
(* signed by the key the validator has, and paid from its balance -        *)
(* whatever earlier runs have left in the directory.                       *)
SuccessIsOneTestnet ==
    pc = "done" =>
        LET gen == genesis[0] IN
        /\ \A n \in Validators : n \in dirs /\ genesis[n] = gen
        /\ {t.node : t \in gen.gentxs} = Validators
        /\ \A t \in gen.gentxs : /\ t.account = account[t.node]
                                 /\ <<t.node, t.account>> \in gen.accounts
                                 /\ t.power \in 1..StakingTokens

(* A command in which nothing goes wrong ends well, unless it was asked    *)
(* for a power that cannot be paid for, a first address that is none, a    *)
(* key type that there is not, a change that cannot be made or another     *)
(* home, or finds in the directory a gentx of a validator that it was not  *)
(* asked for.                                                              *)
FailsForAReason ==
    pc = "failed" /\ ~faulted =>
        \/ ~PowersOK(args.powers) \/ ~AddressOK \/ ~KeyTypeOK
        \/ ~ChangesOK(args.changes) \/ Changed("home")
        \/ \E n \in Validators : ValidatorPower(n) > StakingTokens
        \/ \E n \in Node \ Validators : gentxs[n] # NoFile

(* The validators of a testnet are told different addresses of each other, *)
(* if the first address was given or they are on one host.                 *)
PeersDistinct ==
    pc = "done" /\ args.place # NoIP =>
        \A t, u \in genesis[0].gentxs : t.memo = u.memo => t = u

\* The port that the caller wants the nodes to listen on for their peers.
P2PWanted ==
    IF Changed("p2p") THEN args.changes[Last(ChangesOf("p2p", args.changes))].value
    ELSE args.homePort

(* Each node is told of all the others and not of itself, and each of them *)
(* listens where the others are told it does - unless, on hosts of their   *)
(* own, another port than 26656 is in the configuration of the caller's    *)
(* home or in the last change of p2p.laddr: the addresses are given that   *)
(* port whatever the nodes listen on.                                      *)
PeersReachable ==
    pc = "done" =>
        \A n \in Validators :
            /\ configToml[n].peers = {Memo(m) : m \in Validators \ {n}}
            /\ configToml[n].p2p = Memo(n).port \/ (~SingleMachine /\ P2PWanted # 26656)

\* All the servers of a node, by the port they listen on.
Servers(n) ==
    [s \in DOMAIN appToml[n] \cup {"rpc", "p2p"} |->
        IF s \in {"rpc", "p2p"} THEN configToml[n][s] ELSE appToml[n][s]]

(* On one host no two servers of the nodes listen on the same port.        *)
PortsDistinct ==
    pc = "done" /\ SingleMachine =>
        \A n, m \in Validators : \A s \in DOMAIN Servers(n), t \in DOMAIN Servers(m) :
            Servers(n)[s] = Servers(m)[t] => n = m /\ s = t

(* What was asked for with --config-changes is in the configuration of     *)
(* every node, the last value if there are several - but for the node's    *)
(* name and home, and its addresses on one host, which the command sets.   *)
ChangesReachEveryNode ==
    pc = "done" =>
        \A n \in Validators, k \in DOMAIN args.changes :
            LET f == FieldOf(args.changes[k].path) IN
            \/ configToml[n][f] = args.changes[k].value
            \/ \E j \in DOMAIN args.changes : j > k /\ FieldOf(args.changes[j].path) = f
            \/ f \in {"moniker", "home"} \/ (SingleMachine /\ f \in {"rpc", "p2p"})
=============================================================================
