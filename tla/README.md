# A verification project for the zk-cosmos-eth-bridge

The repository holds a bridge from a Cosmos chain with an EVM (`evmd`) to
Ethereum. Coins locked in the contract `BridgeSource` on the Cosmos side are
minted as wrapped tokens by the contract `BridgeDestination` on Ethereum; a
relayer carries a ZK proof that the locking transaction is in a block of the
Cosmos chain. This directory holds TLA+ models of the bridge and of the parts
of `evmd` that the repository itself writes, the TLC runs that check them, and
theorems with proofs that TLAPS checks.

All paths below are relative to `src/`.

## 1. The system

### Components

| Component | State it keeps | Operations |
|---|---|---|
| `zk-bridge/contracts/BridgeSource.sol` | `locks`, `nextNonce`, the locked balance | `lock` (payable; a transaction may call it several times) |
| `zk-bridge/contracts/BridgeDestination.sol` | one `trustedBlockRoot`, `processedTxs`, balances | `mint`, `updateTrustedRoot` |
| `zk-bridge/cmd/relayer` | a websocket, one goroutine for each event | `main` (dial, subscribe, read, interrupt), `processEvent` |
| `zk-bridge/pkg/prover` | the file `proof_event.json`, the account's nonces | `GenerateProof`, `SubmitProof`, `FetchLockDetails`, `UpdateRoot` |
| `zk-bridge/pkg/circuits` | none (a circuit of `MerkleDepth` levels) | `Define` |
| `zk-bridge/pkg/rpc` | none | `GetTxDetails`, `GetEvmHash`, `DecodeHash` |
| `zk-bridge/cmd/setup`, `cmd/deployer` | key files, `Verifier.sol`; (stubs) | `main` |
| `evmd/export.go` | the check state of the application | `ExportAppStateAndValidators`, `prepForZeroHeightGenesis` |
| `evmd/tests/network` | a package lock, a pool of ports, running nodes | `New`, `startInProcess`, `WaitForHeight`, `Cleanup`, the signal handler |
| `evmd/cmd/evmd/cmd/testnet*.go` | a directory tree of node homes | `init-files`, `start` |
| `evmd/app.go`, `mempool.go`, `upgrades.go`, `genesis.go` | the keepers, the state being changed, what the EVM keeps in memory; on disk the committed states and `upgrade-info.json` | `NewExampleApp`, `InitChainer`, the three blockers, the upgrade handler, `Close` |
| `evmd/cmd/evmd/cmd/root.go`, `creator.go` | none | `newApp`, `appExport` |

### Interactions

* A user's EVM transaction calls `lock`; the block that holds it has a data
  hash (its root), and the node publishes an event for each transaction.
* The relayer's reader starts a goroutine for each event. The goroutine asks
  the node for the transaction (five times, a second apart), for the receipt
  with the `Lock` event, for the block; it writes a proof to
  `proof_event.json`, sends `updateTrustedRoot`, waits for it to be mined,
  reads the file back and sends `mint`.
* The goroutines of one process share the file and the Ethereum account (hence
  its nonces); all processes share the one trusted root. `mint` and
  `updateTrustedRoot` are open to every other account too.
* `evmd export` builds an application on the stored state and prepares it for
  a genesis file; a new chain is started from that file.
* `evmd start` builds the application; CometBFT gives it a genesis or blocks,
  and it calls the modules in the orders that `app.go` sets. At the height of an upgrade the
  operator exchanges the binary.
* `evmd testnet init-files` writes the homes of several nodes with one
  configuration object that it changes from node to node.

### What is hard here

Interleavings of goroutines and processes over the file, the nonces and the
root; a non-atomic `os.WriteFile`; results used after they have gone stale;
events that are lost while nobody listens; panics that end every goroutine;
interrupts that abandon goroutines; transactions that are replaced; waiting
without a deadline; replies that are lost; errors that are dropped; in the export, an order of steps
on which the meaning of the stored records depends; in the application, orders
of modules that no test can tell from others until an upgrade, a crash or a
full block; in the test network's files, what earlier runs have left behind.
`PROJECT.json` lists these hazards with their lines.

### What makes each component correct

* **Bridge**: no transaction is minted for twice, whoever calls the contract;
  as long as nobody but the relayers mints anything that was not locked, what
  is minted is what was locked, the supply is backed, and the bridge implements
  an abstract ledger of claims and payments; a reported success was submitted;
  goroutines end; used one lock at a time the bridge mints for every lock whose
  receipt the relayer can read.
* **Circuit and path**: a proof exists exactly for the leaves whose sides the
  prover gets right, and the circuit never climbs further than the path.
* **Export**: rewards are not forgotten, the books balance, only allowed
  validators stay in the active set, no height in the file is one that the new
  chain has not reached, and a chain started from the file works. (Of the
  heights this holds for those of `x/staking` and `x/slashing` only, see
  section 3, and of the chain for one that goes on from the exported height:
  see `fresh`.)
* **Testnet files**: a run of `init-files` that ends well leaves one coherent
  testnet, whatever earlier runs have left in the directory; its nodes find
  each other, share no port and have the configuration that was asked for; a
  run that fails has a reason.
* **Application**: each block is executed by the modules its state is of, the
  upgrade happens at its height and only there, a block that is executed again
  has the same result; the base fee and the payment of rewards come where they
  should; an application that was put together stops only for a binary, a file,
  a genesis or a state that is no good; the chain gets past its upgrade if its
  state can be migrated; together, the node implements a chain on which each
  block is executed once and as a whole.

## 2. Modules

| Module | Models |
|---|---|
| `BridgeSource` | the contract: the lock record, nonces, events of a transaction |
| `BridgeDestination` | the contract: trusted root, processed transactions, mints, supply |
| `ZkBridge` | composes the two contracts with relayer processes, the Cosmos chain and its index, and Ethereum's pool and blocks |
| `BridgeLedger` | the abstract specification: claims, and payments of claims |
| `MCZkBridge` | instances of `ZkBridge` for TLC, and two environments |
| `ZkBridge_proofs` | the theorems about `ZkBridge` |
| `MerkleCircuit` | the tree of a block, the prover's path through it, the circuit |
| `MerkleCircuit_proofs` | the theorems about `MerkleCircuit` |
| `Distribution` | what the export relies on of the SDK's `x/distribution` (external) |
| `EvmdExport` | the export, the chain it exports and the chain started from the file |
| `MCEvmdExport` | instances of `EvmdExport` for TLC |
| `EvmdExport_proofs` | the theorems about flags, heights and active set in `EvmdExport` |
| `Distribution_proofs` | lemmas about `Distribution`: what keeps the books of one validator sound |
| `ExportBooks_proofs` | the theorems about rewards in `EvmdExport`; extends both of these |
| `TestnetInit` | `evmd testnet init-files`, run again and again over one directory |
| `MCTestnetInit` | the instance of `TestnetInit` for TLC |
| `TestnetInit_proofs` | the theorems about `TestnetInit` |
| `EvmdApp` | the life of a node's application, from start to `Close`, with upgrade, failures and crashes |
| `EvmdChain` | the abstract specification of the node: a chain on which a block is one step |
| `EvmdApp_proofs` | the theorems about `EvmdApp`, and that it implements `EvmdChain` |
| `SumLemmas` | lemmas about sums over finite sets and about least and greatest numbers |

### The bridge

State. `receipts`, `openBlock`, `blockOf` and the index are the Cosmos side;
`proc`, `inbox`, `jobs` are the relayer processes, their websocket and their
goroutines (`jobs[r][t]` holds the local variables of `processEvent` for
transaction `t` in process `r`, `pc` being its next step); `proofFile`
is `proof_event.json`; `pool` and `mined` are Ethereum's pending and mined
transactions of each relayer's account; `trustedBlockRoot`, `processedTxs`,
`minted` and `totalSupply` are those of the contract.

Actions. Each remote call, each access to something shared and each point at
which a goroutine can be overtaken is an action: `FetchTx`/`FetchMiss`,
`LookupLock`/`LookupFail`/`LookupPanic`, `Prove` (which empties the file), `WriteProof`,
`ProveFail`, `RootNonce`, `RootSend`, `RootMined`, `RootFail`, `MintNonce`,
`MintRead`, `MintPanic`, `MintSend`, `MintFail`, `NoChainID`; and `Start`,
`ReadMessage`, `Interrupt`, `Exit` for `main`. A panic in a goroutine (`Die`)
ends the process with all its goroutines. The chains' actions (`DeliverTx`,
`CallLock`, `CommitBlock`, `IndexTx`, `MineRoot`, `MineMint`, `MineRevert`)
are external: they offer what the relayer can observe. `RootSend` and
`MintSend` may fail although the node's pool has taken the transaction, when
the reply is lost. `LookupPanic` is `Topics[0]` of a log without topics ahead
of the `Lock` event (`prover.go:276`); `Topicless` are the transactions whose
receipts have one.

Other callers. `mint` and `updateTrustedRoot` have no access control
(`BridgeDestination.sol:33-43`, `99-101`), and recipient and amount are not
part of what the proof proves. `OthersRoot` and `OthersMint` are the calls of
accounts that are not relayers'. With `Others = "any"` they set any root and
mint any amount to anybody for which they have a proof. Then of the
properties about money only `MintedOnce` holds (which is proved for any
callers; its run has those of the next case); the others (`MintedAsLocked`,
`SupplyBacked`, `SupplyGrowsByLock`, `KeepsLedger`) rest on an assumption: they
are checked and proved for callers who set any root they like but mint only
what was locked (`"truthful"`), as the relayers do, or for no other callers at
all (`"none"`). The contract does not enforce it.

Abstractions. A transaction hash is a model value, a block root the number of
its block, a proof the pair of leaf and root it is about: Groth16 is taken to
be sound, the verifier accepts exactly a proof that was made, for its public
inputs. Gas is not modelled. The file is whole, empty or garbled. `Faulty`
says whether remote calls may fail, `LateIndex` whether the node may index a
transaction after the last attempt at finding it, `Repricing` whether the pool
may replace a pending transaction; `Stoppable` are the processes that may be stopped or
killed. A remote call returns, with or without an error: the HTTP client of
`cosmos.go:77` has no timeout, and a node that accepts a connection and never
answers, which would hold its goroutine forever, is not modelled.

### The path and the circuit

`MerkleCircuit` builds the tree of CometBFT (`SplitPoint` splits at the
largest power of two below the size), takes the aunts of a leaf, fills the
path as `GenerateProof` does (siblings from the proof, sides from the bits of
the index, zeros above), and then lets the circuit climb level by level. A
node is named by the leaves under it; two nodes that are the children of one
hash to it, any others to `Junk`, so hashing has no collisions. `Power` holds
the powers of two up to the bound on the size of a block.

### The export

`EvmdExport` has one action for each iteration of the loops of
`prepForZeroHeightGenesis` (in any order of the items), on the state they
change: the distribution records of each validator, the starting information
of each delegation, the community pool, unbonding entries, the flags and the
power index of validators, signing information. `ValAddress` is the
conversion the code uses in three places: it takes the characters of a string
for an address, so it yields the address of no validator. `Delegate`,
`MsgWithdraw`, `Undelegate`, `NewBlock`, `Jail`, `Unjail` are the SDK's
operations, before the export and after a new chain was started with `Import`;
the export works on the check state, so nothing of it reaches the old chain.
A delegation's starting information has the height of the context in which it
was started. `unbondingHeight` is the validators'. Slashing, redelegations
(treated by the code as unbonding delegations are), the choice of modules, and the limit on the number of active validators are
left out. A delegation is of one token.

### The testnet's files

`TestnetInit` follows `initTestnetFiles` through one run: `Begin` is the flags
and `parseValidatorPowers`; for each validator `PrepareNode` (directories,
address, node keys), `SaveKey` (its account) and `WriteGentx`; then
`SaveGenesis` (`initGenFiles`) and `Collect` (`collectGenFiles`) for each. The
state is what is in the output directory: the account whose key a validator's
home has, named by the run that made it, the gentx and the genesis file of
each. A first address that is none and a change that cannot be made
(`RefuseChanges`) remove the directory, an unknown key type (`RefuseKeyType`)
leaves it; of the errors that have no cause in the model those before the key
is saved may remove it (`FailAndRemove`), the others, and a killed process,
leave it (`Fail`). What
`genutil` checks of a gentx is external (`Files`, `Collected`).

Of the configuration there is who listens where, what names a node, and one
field the command leaves alone. A run begins with the configuration of the
caller's own home (`HomeConfig`: `testnet.go:184`, read by the command's
pre-run in `root.go:133`), in which `p2p.laddr` may be anything; off one host
the command never sets it, while the memo always says 26656. `nodeConfig` is the one `config.toml` object
that serves all nodes: `NodeConfig` is what the first loop makes of it (own
values, then `applyConfigOverrides`), `FinalConfig` what `collectGenFiles`
makes of it, which does not apply the changes again; `FieldOf` and `ChangeOK`
are `updateConfigField` and `setFieldValue` for the paths used. A change of
the field `home` makes the genesis files go elsewhere (`Saved`). `AppPorts` are
the ports of `app.toml`, with the strides of `--single-host`. Left out: two
runs at the same time, the accounts of fixed mnemonics, the consensus keys and
changes that make the paths of key files absolute, and `--v 0`, with which the
loops do nothing.

### The application

`EvmdApp` is a node's life. `NewApp` is `newApp` of `root.go` and
`NewExampleApp`, when they succeed. `RefuseInfo` is the panic of
`RegisterUpgradeHandlers` on a file that is not JSON, which is the one failure
of a start that has to do with what the node did before; `FailApp` is every
other panic and exit on the way (`root.go:276-288`; `app.go:251`, `256`, `312`,
`674`, `720`, `747`, `759`, `783`), which may come or not at any start.
`genesisOK` says whether the genesis of a new chain is well formed
(`RefuseGenesis`: `app.go:835-843`), and `migrates` whether the handler of the
upgrade goes through; if not, one of its three errors (`upgrades.go:59-67`)
fails the block (`UpgradeFails`), again after every restart. Errors of a store
are crashes. `InitChainer`, `InitGenesis`, `PreBlockUpgrade`, `PreBlockEVM`, `BeginBlock`, `DeliverTxs`,
`EndBlock`, `Finalized`, `Commit` go through a genesis or a block, module by
module, in the orders of `app.go:590-656` (of which modules that do nothing in
a phase are left out). `work` is the state being changed: version map, the
EVM's coin, plan, unpaid fees, the gas of the last block, the base fee, and
`evm`, what the transactions met. `coinInfo` is the EVM module's copy of the
coin, read once in a process's life, which is why a node that was started
again may come to differ from one that was not. `BeginDump` and `Dump` are
`DumpUpgradeInfoToDisk`, which empties the file before it writes it. `Crash`
may come at any point; CometBFT keeps the blocks decided and the result of the
last (`blocks`, `saved`), and the block that was not committed is executed
again.

What the modules of the SDK do is external, and reduced to what their places
in the orders matter for: `mint` adds fees, `distribution` pays them out from
the second block on, `feemarket` takes the gas of the last block, `gov`
executes proposals, which use gas. The operator is restricted in two ways
(`MayStart`). A chain that began with the new binary has no other. And it is
*assumed* that who skips the upgrade keeps the old binary: nothing refuses the
new one, for which `upgrades.go:76` even looks at the skipped height, and it
would run on a state that was never migrated, with another result than the old
one; every property of this module about versions and results is under that
assumption. There is one plan, and it
is not cancelled. State sync, pruning and IBC's traffic are left out.

## 3. Runs

Safety runs have `CHECK_DEADLOCK FALSE` where the system really may stop: all
transactions sent, all processes ended, or the export over.

| Run | Shows | Bounds |
|---|---|---|
| `race` | `MintedAsLocked`, the inductive invariant, `CompleteIsSubmitted`, `JobsEnd` (liveness), with every failure, lost reply and crash | 1 process that starts twice, 2 transactions with a lock each, 1 attempt, no replaced transactions, no other callers |
| `duplicate` | `MintedOnce`, `SupplyBacked`, `SupplyGrowsByLock` with two processes relaying the same transaction, and `KeepsLedger`: the bridge implements `BridgeLedger` | 2 processes that start twice, 1 transaction with up to two locks, every failure and replacement, other callers who mint what was locked |
| `paced` | `ReadableLocksMinted`, `AtRestAllMinted` (whenever nothing is under way, nothing is left to mint for) and `NoMintReverts` when locks come one at a time, though one of two processes may die at any step (a mint may revert only if its transaction is minted for) | 2 processes, 2 transactions, one of which has a log without topics; other callers, who set any root and mint anything, between two locks only |
| `paths` | `ClimbsTree`, `ProvesBottomLeaves` | every transaction of every block of up to 20, with a circuit of 4 levels (so that the paths of blocks above 16 are too long) |
| `export` | `Solvent`, `PaidBeforeForgotten`, `OnlyAllowedBonded`, `StakingHeightsReset`, `ContinuedChainWorks` | 2 validators, 2 delegators, 2 blocks, 2 messages on each chain |
| `testnet` | `SuccessIsOneTestnet`, `FailsForAReason`, `PeersDistinct`, `PeersReachable`, `PortsDistinct`, `ChangesReachEveryNode` | 2 runs with any arguments: up to 3 validators, lists of powers, a first address whose last byte wraps or that is none, one host, a known key type or not, lists of changes, a home with the usual port or another; each run may fail or be killed at any step |
| `app` | `VersionsMatch`, `UpgradedAtPlan`, `SameOnReplay`, `BaseFeeFollowsGas`, `NoFeesLeftAtSlashing`, `StopsForAReason`, `KeepsChain` (the node implements `EvmdChain`), `ChainGoesOn` (liveness) | a new chain and an old one, planned height 3, up to height 5, 2 crashes at any step, either binary, any number of failed starts, genesis and migration good or not |

Each module's first invariant is its `TypeOK`.

The bounds are the smallest in which the interesting cases meet: two
goroutines (of one process or of two) are enough for every race over one
nonce, one file or one root, since each of these is a single cell that one
overtakes and the other uses; a second start is enough for state left behind
by the first; two messages before the export let delegations of one validator
start at different periods, and leave remainders that do not divide. Two runs
of `init-files` suffice because a run sees of all earlier ones only the
directory, and the first may stop at every step. In `app`, a plan at height 3
leaves a block before it and two after it; a second crash can come in the
execution of a block that is already a repetition, or while the upgrade file
is written after a first; a gas of 1 for transactions and of 0 or 1 for
proposals is enough to tell which of them the base fee counts.

### Where code and documents disagree

These runs end in a violation, each of one statement of the documents:

| Run | Statement | What the code does |
|---|---|---|
| `automatic` | E2E guide: the relayer will automatically submit | two locks close to each other: the root or the proof of one is overwritten by the other, and one mint reverts for good |
| `multilock` | relayer guide: lock events are minted for | the first `Lock` event of a transaction only: an account is paid less than its `Lock` events locked for it |
| `everytx` | relayer guide, architecture: a proof of inclusion | the side bits are wrong for leaves that are not at the bottom, such as the third of three |
| `fresh` | `export.go`: "fresh start at zero height" | the first withdrawal on the new chain panics |
| `jail` | `export.go`: "exports the state of the application" | with a list of allowed addresses that leaves out a bonded validator, the export ends without a file |

Other disagreements were met and have no run of their own. The relayer is to
"fetch the `Lock` event details" automatically (`E2E_TESTING_GUIDE.md:145`),
but `FetchLockDetails` evaluates `Topics[0]` of every log of the receipt
(`prover.go:276`): a log without topics ahead of the `Lock` event is an index
out of range, the process panics with every relay it was at, and nothing asks
for the lock again after a restart. This is `LookupPanic`, and the reason why
the properties of `paced` are about locks whose receipts are `Readable`; with
`Topicless` not empty `LocksMinted` fails under `PacedSpec`. In an export for
height zero, `export.go:99-115` starts the delegations again before line 125
sets the height of the context to zero, so that in every such file they start
at a height of the old chain; `StakingHeightsReset` is therefore about the
heights of `x/staking` and `x/slashing` only. The E2E guide
(`E2E_TESTING_GUIDE.md:254`) says that locks are processed sequentially, where
`main.go:106` starts a goroutine for each; this is what `automatic` shows the
consequence of. "Relay Complete!" is printed when a mint was sent
(`prover.go:255`), which may still revert. `export.go:73` says "withdraw all
validator commission", where line 75 asks for the commission of an address
that no validator has and drops the error (`WithdrawCommission` changes
nothing); this is the same conversion that `fresh` is about. Two tests
describe the circuit differently: `bridge_simple_test.go:47` says "This should
pass" of a witness whose root differs from its leaf with a path of length
zero, and `bridge_test.go` builds a tree without the prefix byte of inner nodes.

### Fairness

`Fairness` in `ZkBridge` is weak fairness of each goroutine's next step, of
reading messages, of mining and indexing: the schedulers of Go and of the
chains let what can go on go on. A relayer that is down is started, by its
operator and at most `MaxStarts` times: with nobody listening nothing is
relayed. Nothing has to be locked or interrupted. Failures are disjuncts of the same step, so a goroutine that goes
on may go on by failing. `JobsEnd` in `race` allows failures and crashes, but
no replaced transactions: `WaitMined` has no deadline (`prover.go:302`), and a
goroutine whose transaction is replaced by another of the same nonce waits for
its receipt forever. `ReadableLocksMinted` in `paced` is without failures
(`Faulty = FALSE`), except that one process may die. `PacedSpec`
and `ListeningSpec` in `MCZkBridge` restrict the environment, never the code:
locks come one at a time, or somebody listens, and no other account calls the
contract while a relay is under way; and in these runs the index is not later
than the attempts (`LateIndex = FALSE`). Other accounts need not do anything.

`Fairness` in `EvmdApp` is weak fairness of the process's next step
(`Step`, `FinalizeBlock`): a running application runs on. The operator starts
the right binary again and again (`SF` of `NewApp(RightBinary)`: it comes up in
the end, however often `FailApp` happens instead), though others may be
started in between, and removes an upgrade file that is in the
way (`SF` of `RemoveInfo`); strong, because a process that runs, or fails and
is tried again, takes the possibility away for a while. The network decides
blocks (`SF` of `Decide`), and a block comes while the right binary runs (`SF`
of `FinalizeBlock` with it): without this it might always be closed first.
Crashes are bounded. Nothing in the repository restarts the node, so this
fairness is the operator's, and what the property says of the code is that no
crash, wrong binary or half-written file leaves a state from which these do
not help. `ChainGoesOn` is promised only where genesis or migration are good
(`Sound`): where the handler fails nothing that an operator does with these two
binaries gets the chain past the plan's height, except to skip it.

## 4. Proofs

### The bridge

`ZkBridge_proofs` proves, for any sets of relayers, transactions and
addresses, any bounds, and with failures, replacements and other callers
allowed or not:

| Theorem | Property |
|---|---|
| `Invariance` | `IInv`, the inductive invariant |
| `TypeCorrect` | `TypeOK` |
| `NeverMintedTwice` | `MintedOnce` |
| `MintsWhatWasLocked` | `MintedAsLocked`, when other callers mint only what was locked (`Others # "any"`) |
| `SupplyGrows` | `SupplyGrowsByLock`, under the same condition |
| `AlwaysBacked` | `SupplyBacked`, under the same condition |
| `ImplementsLedger` | `KeepsLedger`, under the same condition |
| `CompleteMeansSubmitted` | `CompleteIsSubmitted`, when the pool replaces nothing (`~Repricing`) |
| `WaitsOnlyForSent` | `WaitsForSent`, the safety part of `JobsEnd`, when the pool replaces nothing |
| `MintsDoNotRevert` | `NoMintReverts` under `PacedSpec`, when calls do not fail and the pool replaces nothing (`~Faulty`, `~Repricing`) |
| `RestMeansMinted` | `AtRestAllMinted` under `PacedSpec`, under these two conditions and when the index is not late (`~LateIndex`); it is about locks whose receipts can be read (`Readable`) |

All theorems of this section and the next ones assume only what the modules'
named `ASSUME`s say of the constants, and what is said below.

The argument. `MintedAsLocked` is about the contract, but `mint` does not tie
recipient and amount to the proof: that they belong together is a property of
every place they pass through. `IInv` follows the lock on its way: an event in
an inbox is of a committed transaction (`InboxOK`); a goroutine past its
lookup holds the recipient and amount of the first lock of its own
transaction, and past the proof its own leaf and root (`JobsOK`, `JobOK`); a
mint in the pool names the transaction whose lock it carries (`PoolOK`). The
file does not appear: a foreign or garbled proof read from it fails at the
verifier, because the mint names the goroutine's own leaf and root; this is
why the race over the file can cost a mint but never mint wrongly.
`MintedOnce` needs only that the mapping and the events tell the same story
(`ProcessedOK`). Each action is shown to preserve each part it can disturb
(one lemma for each group of actions); a committed receipt never changes
(`OpenOK` keeps the transaction being executed apart from the committed ones),
which is what the stability of all the other parts rests on. The refinement
maps claims to committed first locks and payments to `BridgeMinted` events:
`CommitBlock` is a `Commit`, `MineMint` and `OthersMint` are a `Pay`, the rest
stutters. `IInv` holds for any callers; that a mint of another account pays a
lock is the condition on `Others`, and nothing else could give it.

`AlwaysBacked` compares two sums, over what was minted and over what was
locked, which no step computes. `BackedInv` says that the supply is the sum of
the first locks of the processed transactions, and that `balance` is at least
the sum of the first locks of *any* finite set of transactions. The second
part is inductive where the inequality itself is not: a lock adds to the
balance what it adds to at most one summand.

`CompleteMeansSubmitted` and `WaitsOnlyForSent` rest on `SentStays`: without replacement no step loses a
transaction that an account has sent, since accepting one appends to the pool
and mining one moves it to the receipts. A goroutine says that it has sent
something (`rootWait`, `complete`) only in the step in which the pool accepts
it; with replacement both are false, and `duplicate` has it on for the
properties that must hold nevertheless.

`MintsDoNotRevert` and `RestMeansMinted` are the only theorems about a restricted
environment, since without the restriction `automatic` shows that mints revert
and locks are lost. `Paced` is
used for one thing: a transaction is delivered only when nothing is on its way
(`Idle`). From there `PacedInv` says that whatever is on its way is about the
transaction of the latest block (`Latest`). It follows that at most one
goroutine of a process is at work, so that the nonce it took is still the next
one and the file it reads is the one it wrote (`JobPaced`), and that the root
updates still pending, of whichever process, all write the same root
(`TxPaced`): once one of them is mined, no other takes the trusted root away.
A process that dies and is started again finds nothing to redo, and pending
transactions of its earlier life are harmless for the same reason. The
conditions on failures cannot be dropped: when the nonce cannot be read 0 is
used, and when the root update fails the mint is sent all the same. Two
processes may mint for the same transaction, and then the second mint reverts,
which the property allows.

`RestMeansMinted` is as much of `ReadableLocksMinted` as can be proved without
fairness: if the bridge has come to rest, it has not lost anything on the way;
that it comes to rest is left to TLC. `RestInv` follows a transaction that
locked. When its block is committed a relayer that is not going to stop is up
(`Heard`), and from then on one of these has it in hand (`AllHandled`): the
event is all that its inbox holds, or its goroutine runs, or has sent its mint
(`Cared`). No step lets go of it: the index is not late, nothing fails,
`PacedInv` gives the goroutine its nonce and its own file, so it neither
panics (`NoPanic`) nor gives up (`StepCares`). At rest no goroutine runs and no
inbox or pool holds anything, so the mint was sent and is mined
(`SubmittedInv`); a mint that succeeded counts (`MintsCount`), and one that
reverted did so only because the transaction was minted for already
(`NoMintReverts`). Thus the theorem needs the invariants of three others.

### The path and the circuit

`MerkleCircuit_proofs` proves, for blocks of any size and circuits of any
depth:

| Theorem | Property |
|---|---|
| `Invariance` | `IInv`, the module's inductive invariant |
| `TypeCorrect` | `TypeOK` |
| `ClimbsTheTree` | `ClimbsTree` |
| `ProvesAtBottom` | `ProvesBottomLeaves` |
| `FullBlocksProve` | in a block of a power of two of transactions, every transaction is proved, unless the tree is higher than the circuit |

The state machine is short, and its invariant says where it is: the loop of
`GenerateProof` has filled in the branch of the transaction and the bits of its
index (`WitnessOK`), and the circuit is at the node of that branch it should be
at, if every side so far was right, and at a hash that is of no block from the
first wrong one on (`ClimbOK`). The work is in the tree. The branch of a leaf
is defined by recursion on subtrees, and tlapm knows of a recursive function
only that it is a `CHOOSE`; that the function exists, and so what a branch is,
is proved first (`Way`). Then: the nodes above a leaf end at the root, each
being the hash of the one below and its aunt in the order of the side; and
`BottomOK`, the fact the prover rests on without knowing: a branch is at most
as long as the tree is high, and it is exactly as long if and only if its sides
are the bits of the index. In a tree of a power of two of leaves all branches
are; in any other some are not, and `everytx` shows one.

### The application

`EvmdApp_proofs` proves, for any heights of plan and chain, any gas of blocks
and any number of crashes:

| Theorem | Property |
|---|---|
| `Invariance` | `IInv`, the module's inductive invariant |
| `TypeCorrect` | `TypeOK` |
| `VersionsAlwaysMatch` | `VersionsMatch` |
| `UpgradesAtPlanOnly` | `UpgradedAtPlan` |
| `ReplayAgrees` | `SameOnReplay` |
| `BaseFeeIsOfLastBlock` | `BaseFeeFollowsGas` |
| `PaidBeforeSlashing` | `NoFeesLeftAtSlashing` |
| `NoStopWithoutReason` | `StopsForAReason` |
| `ImplementsChain` | `KeepsChain` |

`SameOnReplay` is not inductive: that a repeated block ends in the same state
has to follow from what it began with, in a process that remembers other
things than the first. So the invariant says, of each committed state, what it
must be (`Stage`: version, coin and plan are functions of the height), and of
the state after a block that it is a function of the state before and the
block (`Outcome`); `SavedOK` says it of CometBFT's copy, and `PhaseOK` how much
of it has been done at each module of each order, and that what is in memory is
either unset or what the state says. Two states with the same outcome are
equal (`SameState`). `StopsForAReason` needs that at every phase but the first
of a block the binary is the right one, that an empty file is that of a
crash (`InfoOK`), and that a plan is due at its height and never later; that
the order of the modules never makes a genesis panic is a lemma
(`GenesisInOrder`). It does not speak of failures before there is an
application (`FailApp`), of which there is no reason in the model to name.

`EvmdChain` has two actions: a block is decided, and a block is executed, as a
whole, by a function of its height, its contents and the state before it. It
knows no binary, no module, no phase and no crash; the committed states of the
node are its states. `ImplementsChain` maps `Decide` to the first and
`Commit` to the second, and shows that nothing else the node does is seen:
what a process has done of a block is in its memory only, and is done again
from the committed state. That `work` is, at `Commit`, what the abstract
function yields is where `IInv` enters: `PhaseOK` and `Outcome` say what each
field of it must be by then, though it was computed module by module, by
whichever binary, in the orders of `app.go` (`ChainResult`, by `OneOutcome`:
there is only one such state). The mint before the distribution, the fee
market's two blockers and the upgrade before the EVM are all needed for it.

### The testnet's files

`TestnetInit_proofs` proves, for any number of validators and runs, and any
powers and changes:

| Theorem | Property |
|---|---|
| `Invariance` | `IInv`, the module's inductive invariant |
| `TypeCorrect` | `TypeOK` |
| `LeavesOneTestnet` | `SuccessIsOneTestnet` |
| `NoFailureWithoutReason` | `FailsForAReason` |
| `AddressesDiffer` | `PeersDistinct`, for up to 256 validators |
| `PeersFindEachOther` | `PeersReachable` |
| `ChangesArrive` | `ChangesReachEveryNode` |
| `PortsNeverMeet` | `PortsDistinct`, for fewer than 56 validators |

The two bounds are assumptions of these theorems and not of the module: beyond
them the properties are false, as addresses come round again, and on one host
the JSON-RPC ports (8545 and on, in steps of ten) meet the gRPC ports (9090
and on). The invariant says what each of the three loops has done for the
validators it is through with (`SetUpOK`, `HasGenesisOK`, `IsCollectedOK`).
What earlier runs have left enters in two places only: a gentx is in the file
of its own validator (`GentxOK`), and accounts are of runs that have been
(`AccountsOK`), which is what makes a run with a changed `home` fail rather
than collect an old genesis file.

`ChangesArrive` needs an invariant of its own, `ConfigInv`: from the first
validator on, every field of the shared configuration that the command does not
set itself has the value of the last change of it (`HasChanges`), and so has
each configuration file that is written. One object serves all validators, so
what one of them gets has been through the loops for all before it.

### The export

`EvmdExport_proofs` and `ExportBooks_proofs` prove, for any finite set of
validators, any delegators, rewards, blocks and messages:

| Theorem | Property |
|---|---|
| `Invariance` | `IInv`, the inductive invariant of flags, heights and active set |
| `OnlyAllowedLeft` | `OnlyAllowedBonded` |
| `StakingStartsAfresh` | `StakingHeightsReset` |
| `BooksInOrder` | `Books`, the inductive invariant of the rewards |
| `TypeCorrect` | `TypeOK` |
| `AlwaysSolvent` | `Solvent` |
| `ContinuedWorks` | `ContinuedChainWorks` |
| `NothingLost` | `PaidBeforeForgotten` |

For the first two: heights of entries are not above the chain's, those that
`x/staking` and `x/slashing` keep in the file have been set back when the step that does it is over, and everybody
outside the list is jailed before the active set is made from an index that may
list nobody who is jailed.

For the others, `Books` says of each validator that its records are sound
(`Sound`, in `Distribution_proofs`): a record counts everybody who still needs
it, so that none is deleted too early; no ratio is above the last one; and the
outstanding rewards are at least what the delegations have earned, what the
current period has, and the commission. Starting, paying and ending a
delegation keep this, for each a lemma. `Solvent` follows, but not by itself:
that a payment can be subtracted from the outstanding rewards is what the sum
in `Sound` is for. During an export records are sound as long as they are there
and are deleted as a whole (`RecordsOK`); at that time everybody has been paid
(`PaidOK`), which is what makes forgetting them lose nothing. `TypeOK` includes
that no amount is negative, and so depends on all of it.

### How induction is done

The provers take no induction rule with an operator for a parameter.
`SumLemmas` therefore derives from the well-foundedness of the numbers that a
non-empty set of numbers has a least member (`Least`), and from this induction
over sets of numbers and over finite sets, given as sets (`Upwards`,
`SubsetInduction`). All sums, recursive functions and "last of several" in the
proofs go through these.

### Model-checked only

Liveness (`ReadableLocksMinted`, `JobsEnd`, `ChainGoesOn`), which is out of the
prover's reach; of the first two the safety parts are proved
(`RestMeansMinted`, `WaitsOnlyForSent`). Every other property of a passing run
is the property of a theorem.

## 5. Plan

Done, with proofs: `BridgeSource`, `BridgeDestination`, `ZkBridge`,
`BridgeLedger`; `MerkleCircuit`; `Distribution` and `EvmdExport`;
`TestnetInit` with the configuration and ports; `EvmdApp` and `EvmdChain`.
Every safety property that a passing run checks is also a theorem.

Left, in this order:

1. Redelegations and slash events in `EvmdExport`.
2. The accounts of fixed mnemonics in `TestnetInit` (`testnet.go:541-561`).
3. `EvmdExport` composed with `EvmdApp`, so that what is exported has been
   through an upgrade.

## 6. Not modelled

* The SDK, CometBFT, the EVM and gnark are outside the repository and appear
  as external definitions only.
* The in-process test network (`evmd/tests/network`) and `evmd testnet start`.
  Ports come from the channel `portPool`, which is made at `network.go:65` and
  which nothing fills; `New` therefore returns an error at the first validator
  with a server (`network.go:323`, `359`), and `testnet start`, which calls it,
  always fails. `startInProcess`, `WaitForHeight`, `Cleanup` and the signal
  handler are never reached on a network: a model of them would be of a
  program that does not exist. What `New` leaves behind is the lock it has
  taken (listed as a hazard).
* `cmd/deployer`: its deploy functions are stubs that deploy nothing.
* `cmd/setup`: compiles the circuit and writes three files, once, by hand.
* `pkg/rpc`: the decoding of transaction hashes is pure text; `GetTxDetails`
  is `FetchTx`/`FetchMiss`.
* `creator.go` repeats `newApp` and `appExport` of `root.go` for the testnet
  command, which passes it on (`testnet.go:153`) to nothing that is built.
* In `app.go`: the order in which `NewExampleApp` makes and hands on its parts
  (nothing varies it, so that a table of it could only repeat it; the hazard is
  listed), getters, API routes, the contents of the default genesis, and
  the list of pending transaction listeners, which is appended to without a
  lock by code of another repository (listed as a hazard).
* In the export: redelegations (treated as unbonding delegations are), slash
  events, the choice of modules, and `appExport`'s choice of the height to load
  (`root.go:353`).
* An account that mints what was not locked, but for `paced`: nothing about
  recipients, amounts and backing holds then, and nothing in the repository
  says that it should.
* Test suites, their helpers, mocks and fixtures. The blocks that
  `testutil/abci.go` makes are those of `EvmdApp`, without failures.
* Environment variables, flags, logging and output, everywhere.

## 7. Running

    tlc -config race.cfg MCZkBridge.tla        # and duplicate, open, paced,
                                               # automatic, multilock
    tlc -config paths.cfg MerkleCircuit.tla    # and everytx
    tlc -config export.cfg MCEvmdExport.tla    # and fresh, jail
    tlc -config testnet.cfg MCTestnetInit.tla
    tlc -config app.cfg EvmdApp.tla
    tlapm ZkBridge_proofs.tla                  # and MerkleCircuit_proofs, EvmdApp_proofs,
                                               # TestnetInit_proofs, EvmdExport_proofs,
                                               # Distribution_proofs, ExportBooks_proofs,
                                               # SumLemmas
