------------------------------- MODULE EvmdExport -------------------------------
(***************************************************************************)
(* The export of evmd's state to a genesis file (evmd/export.go), with the *)
(* chain it exports and the chain that is started from the file.           *)
(*                                                                         *)
(* The two chains' own operations (blocks, delegations, withdrawals, jail) *)
(* belong to the SDK: they are here to bring the state to be exported      *)
(* about, and to use what was imported.  prepForZeroHeightGenesis is       *)
(* modelled step by step: one action for each of its loops' iterations.    *)
(* Slashing, the fee pool's other income and validators that come and go   *)
(* are left out.                                                           *)
(***************************************************************************)
EXTENDS Distribution, FiniteSets, Functions

CONSTANTS
    Val,            \* validators
    Del,            \* delegators
    Operator,       \* the delegator that holds the validators' self-delegations
    NoAddress,      \* an address of no validator
    BadAddress,     \* a string that is not an address
    Rewards,        \* what a validator's delegators earn in a block
    Commission,     \* what a validator earns in a block
    MaxHeight,      \* bound on the blocks of the exported chain
    MaxMessages     \* bound on the messages of each chain

ASSUME ExportAssumption ==
    /\ IsFiniteSet(Val) /\ Operator \in Del
    /\ NoAddress \notin Val /\ BadAddress \notin Val
    /\ Rewards \in Nat /\ Commission \in Nat
    /\ MaxHeight \in Nat /\ MaxMessages \in Nat

VARIABLES
    height,         \* of the last block
    messages,       \* executed by the chain
    dist,           \* x/distribution, of each validator
    info,           \* x/distribution, starting info of each delegation
    pool, holdings, \* community pool; coins of the module account
    unbonding,      \* unbonding entries: delegation and creation height
    jailed, indexed, bonded,    \* validators: flag, in the power index, in the active set
    unbondingHeight,            \* at which a validator last left the active set
    startHeight,    \* signing infos
    phase,          \* "running", the section of the export, or how it ended
    todo,           \* what the loop of the section has yet to visit
    zeroHeight,     \* forZeroHeight
    allowed,        \* jailAllowedAddrs
    panicked        \* a message has panicked

distVars    == <<dist, info, pool, holdings>>
stakingVars == <<unbonding, jailed, indexed, bonded, unbondingHeight, startHeight>>
argVars     == <<zeroHeight, allowed, panicked>>
vars        == <<height, messages, distVars, stakingVars, phase, todo, argVars>>

Preparing == {"commission", "rewards", "delegations", "history", "validators",
              "staking", "apply", "signing"}
Ended == {"exported", "refused", "aborted"}

Delegation == Del \X Val
Tokens(v) == Cardinality({p \in DOMAIN info : p[2] = v})
Outstanding == SumFunction([v \in Val |-> dist[v].outstanding])

-----------------------------------------------------------------------------
(* The chains (external).                                                  *)

Init ==
    /\ height = 0 /\ messages = 0
    /\ dist = [v \in Val |-> Started(Increment(NewValidator, 1))]
    /\ info = [p \in {Operator} \X Val |-> [period |-> 1, height |-> 0]]
    /\ pool = 0 /\ holdings = 0
    /\ unbonding = {}
    /\ jailed = {} /\ indexed = Val /\ bonded = Val
    /\ unbondingHeight = [v \in Val |-> 0]
    /\ startHeight = [v \in Val |-> 0]
    /\ phase = "running"
    /\ todo = {}
    /\ zeroHeight = FALSE /\ allowed = {} /\ panicked = FALSE

Live == phase \in {"running", "imported"} /\ ~panicked

NewBlock ==
    /\ Live
    /\ height < IF phase = "running" THEN MaxHeight
                ELSE IF zeroHeight THEN 1 ELSE MaxHeight + 1
    /\ height' = height + 1
    /\ \E S \in SUBSET bonded :
          /\ dist' = [v \in Val |->
                IF v \in S THEN [dist[v] EXCEPT !.rewards = @ + Rewards,
                                                !.commission = @ + Commission,
                                                !.outstanding = @ + Rewards + Commission]
                           ELSE dist[v]]
          /\ holdings' = holdings + Cardinality(S) * (Rewards + Commission)
    /\ UNCHANGED <<messages, info, pool, stakingVars, phase, todo, argVars>>

Message ==
    /\ Live
    /\ messages < MaxMessages
    /\ messages' = messages + 1

Panic ==
    /\ panicked' = TRUE
    /\ UNCHANGED <<height, distVars, stakingVars, phase, todo, zeroHeight, allowed>>

Delegate(d, v) ==
    /\ Message
    /\ <<d, v>> \notin DOMAIN info
    /\ IF IncrementPanics(dist[v]) THEN Panic ELSE
       LET now == Increment(dist[v], Tokens(v)) IN
          /\ dist' = [dist EXCEPT ![v] = Started(now)]
          /\ info' = [p \in DOMAIN info \cup {<<d, v>>} |->
                         IF p = <<d, v>> THEN StartInfo(now, height) ELSE info[p]]
          /\ UNCHANGED <<height, pool, holdings, stakingVars, phase, todo, argVars>>

\* WithdrawDelegationRewards, which starts the delegation again.
Withdraw(p) ==
    LET v   == p[2]
        now == Withdrawn(dist[v], info[p], Tokens(v), height)
    IN  /\ dist' = [dist EXCEPT ![v] = Started(now)]
        /\ info' = [info EXCEPT ![p] = StartInfo(now, height)]
        /\ holdings' = holdings - Payment(dist[v], info[p], Tokens(v), height)
        /\ UNCHANGED pool

MsgWithdraw(p) ==
    /\ Message
    /\ IF WithdrawPanics(dist[p[2]], info[p], Tokens(p[2]), height) THEN Panic ELSE
          /\ Withdraw(p)
          /\ UNCHANGED <<height, stakingVars, phase, todo, argVars>>

Undelegate(p) ==
    /\ Message
    /\ p[1] # Operator
    /\ LET v == p[2] IN
       IF WithdrawPanics(dist[v], info[p], Tokens(v), height) THEN Panic ELSE
          /\ dist' = [dist EXCEPT ![v] = Withdrawn(@, info[p], Tokens(v), height)]
          /\ holdings' = holdings - Payment(dist[v], info[p], Tokens(v), height)
          /\ info' = [q \in DOMAIN info \ {p} |-> info[q]]
          /\ unbonding' = unbonding \cup {[delegation |-> p, creationHeight |-> height]}
          /\ UNCHANGED <<height, pool, jailed, indexed, bonded, unbondingHeight, startHeight,
                         phase, todo, argVars>>

Jail(v) ==
    /\ Live
    /\ v \in bonded
    /\ jailed' = jailed \cup {v}
    /\ indexed' = indexed \ {v}
    /\ bonded' = bonded \ {v}
    /\ unbondingHeight' = [unbondingHeight EXCEPT ![v] = height]
    /\ UNCHANGED <<height, messages, distVars, unbonding, startHeight, phase, todo, argVars>>

Unjail(v) ==
    /\ Message
    /\ v \in jailed
    /\ jailed' = jailed \ {v}
    /\ indexed' = indexed \cup {v}
    /\ bonded' = bonded \cup {v}
    /\ startHeight' = [startHeight EXCEPT ![v] = height]
    /\ UNCHANGED <<height, distVars, unbonding, unbondingHeight, phase, todo, argVars>>

-----------------------------------------------------------------------------
(* ExportAppStateAndValidators                                             *)

\* Prepared for height zero whatever the argument.
ExportPrepared(zero, addrs) ==
    /\ phase = "running"
    /\ phase' = IF BadAddress \in addrs THEN "refused" ELSE "commission"
    /\ todo' = Val
    /\ zeroHeight' = zero
    /\ allowed' = IF zero THEN addrs ELSE {}
    /\ UNCHANGED <<height, messages, distVars, stakingVars, panicked>>

Export(zero, addrs) ==
    /\ phase = "running"
    /\ phase' = IF ~zero THEN "exported"
                ELSE IF BadAddress \in addrs THEN "refused" ELSE "commission"
    /\ todo' = Val
    /\ zeroHeight' = zero
    /\ allowed' = IF zero THEN addrs ELSE {}
    /\ UNCHANGED <<height, messages, distVars, stakingVars, panicked>>

(* A chain is started from the exported file: at the exported height, or   *)
(* at zero.                                                                *)
Import ==
    /\ phase = "exported"
    /\ phase' = "imported"
    /\ height' = IF zeroHeight THEN 0 ELSE height
    /\ messages' = 0
    /\ UNCHANGED <<distVars, stakingVars, todo, argVars>>

-----------------------------------------------------------------------------
(* prepForZeroHeightGenesis                                                *)

\* A loop has visited x; after the last one the next section begins.
Visited(x, section, items) ==
    /\ x \in todo
    /\ IF todo = {x} THEN phase' = section /\ todo' = items
                     ELSE todo' = todo \ {x} /\ UNCHANGED phase

(* sdk.ValAddress(val.GetOperator()): the operator is a string, and the    *)
(* conversion takes its characters for the address.                        *)
ValAddress(v) == NoAddress

\* The commission is withdrawn of no validator; the error is dropped.
WithdrawCommission(v) ==
    /\ phase = "commission"
    /\ Visited(v, "rewards", DOMAIN info)
    /\ IF ValAddress(v) \in Val
       THEN /\ dist' = [dist EXCEPT ![v].commission = 0,
                                    ![v].outstanding = @ - dist[v].commission]
            /\ holdings' = holdings - dist[v].commission
       ELSE UNCHANGED <<dist, holdings>>
    /\ UNCHANGED <<height, messages, info, pool, stakingVars, argVars>>

\* The same confusion of addresses here: nothing is withdrawn.
WithdrawRewardsOfString(p) ==
    /\ phase = "rewards"
    /\ Visited(p, "delegations", DOMAIN info)
    /\ IF ValAddress(p[2]) \in Val THEN Withdraw(p) ELSE UNCHANGED distVars
    /\ UNCHANGED <<height, messages, stakingVars, argVars>>

WithdrawRewards(p) ==
    /\ phase = "rewards"
    /\ Visited(p, "delegations", DOMAIN info)
    /\ Withdraw(p)
    /\ UNCHANGED <<height, messages, stakingVars, argVars>>

(* BeforeDelegationCreated and AfterDelegationModified.                    *)
ReinitDelegation(p) ==
    /\ phase = "delegations"
    /\ Visited(p, "history", {})
    /\ LET v   == p[2]
           now == Increment(dist[v], Tokens(v))
       IN  /\ dist' = [dist EXCEPT ![v] = Started(now)]
           /\ info' = [info EXCEPT ![p] = StartInfo(now, height)]
    /\ UNCHANGED <<height, messages, pool, holdings, stakingVars, argVars>>

\* The records are released instead.
DeleteHistoryCounts ==
    /\ phase = "history"
    /\ phase' = "validators"
    /\ todo' = Val
    /\ dist' = [v \in Val |-> [dist[v] EXCEPT !.history =
                    [p \in DOMAIN @ |-> [@[p] EXCEPT !.refs = 0]]]]
    /\ UNCHANGED <<height, messages, info, pool, holdings, stakingVars, argVars>>

(* DeleteAllValidatorHistoricalRewards.                                    *)
DeleteHistory ==
    /\ phase = "history"
    /\ phase' = "validators"
    /\ todo' = Val
    /\ dist' = [v \in Val |-> [dist[v] EXCEPT !.history = [p \in {} |-> EmptyRecord]]]
    /\ UNCHANGED <<height, messages, info, pool, holdings, stakingVars, argVars>>

\* The outstanding rewards found, but not the validator.
ReinitValidatorHalf(v) ==
    /\ phase = "validators"
    /\ v \in todo
    /\ pool' = pool + dist[v].outstanding
    /\ phase' = "staking" /\ todo' = {}
    /\ UNCHANGED <<height, messages, dist, info, holdings, stakingVars, argVars>>

(* The scraps go to the community pool, and AfterValidatorCreated sets the *)
(* validator up again.  For an address of no validator there are no scraps *)
(* and the hook fails: the loop is left, and its error is not looked at.   *)
ReinitValidator(v) ==
    /\ phase = "validators"
    /\ v \in todo
    /\ IF ValAddress(v) \in Val
       THEN /\ Visited(v, "staking", {})
            /\ pool' = pool + dist[v].outstanding
            /\ dist' = [dist EXCEPT ![v] = NewValidator]
       ELSE /\ phase' = "staking" /\ todo' = {}
            /\ UNCHANGED <<pool, dist>>
    /\ UNCHANGED <<height, messages, info, holdings, stakingVars, argVars>>

\* The heights of the unbonding entries left as they are.
ResetValidatorsOnly ==
    /\ phase = "staking"
    /\ phase' = "apply"
    /\ unbondingHeight' = [v \in Val |-> 0]
    /\ jailed' = IF allowed = {} THEN jailed ELSE jailed \cup (Val \ allowed)
    /\ UNCHANGED <<height, messages, distVars, unbonding, indexed, bonded, startHeight, todo, argVars>>

\* The allowed ones jailed instead of the others.
JailAllowed ==
    /\ phase = "staking"
    /\ phase' = "apply"
    /\ unbonding' = {[u EXCEPT !.creationHeight = 0] : u \in unbonding}
    /\ unbondingHeight' = [v \in Val |-> 0]
    /\ jailed' = IF allowed = {} THEN jailed ELSE jailed \cup (Val \cap allowed)
    /\ UNCHANGED <<height, messages, distVars, indexed, bonded, startHeight, todo, argVars>>

(* Creation heights and the validators' unbonding heights are reset, and   *)
(* with a list of allowed addresses every other validator gets the flag;   *)
(* the power index is left as it is.                                       *)
ResetStaking ==
    /\ phase = "staking"
    /\ phase' = "apply"
    /\ unbonding' = {[u EXCEPT !.creationHeight = 0] : u \in unbonding}
    /\ unbondingHeight' = [v \in Val |-> 0]
    /\ jailed' = IF allowed = {} THEN jailed ELSE jailed \cup (Val \ allowed)
    /\ UNCHANGED <<height, messages, distVars, indexed, bonded, startHeight, todo, argVars>>

(* ApplyAndReturnValidatorSetUpdates: the active set is taken from the     *)
(* power index, in which it accepts no jailed validator.                   *)
ApplyUpdates ==
    /\ phase = "apply"
    /\ IF indexed \cap jailed # {}
       THEN phase' = "aborted" /\ UNCHANGED bonded
       ELSE phase' = "signing" /\ bonded' = indexed
    /\ UNCHANGED <<height, messages, distVars, unbonding, jailed, indexed, unbondingHeight,
                   startHeight, todo, argVars>>

ResetSigning ==
    /\ phase = "signing"
    /\ phase' = "exported"
    /\ startHeight' = [v \in Val |-> 0]
    /\ UNCHANGED <<height, messages, distVars, unbonding, jailed, indexed, bonded,
                   unbondingHeight, todo, argVars>>

-----------------------------------------------------------------------------
ChainNext ==
    \/ NewBlock
    \/ \E d \in Del, v \in Val : Delegate(d, v)
    \/ \E p \in DOMAIN info : MsgWithdraw(p) \/ Undelegate(p)
    \/ \E v \in Val : Jail(v) \/ Unjail(v)

PrepNext ==
    \/ \E v \in Val : WithdrawCommission(v) \/ ReinitValidator(v)
    \/ \E p \in DOMAIN info : WithdrawRewards(p) \/ ReinitDelegation(p)
    \/ DeleteHistory \/ ResetStaking \/ ApplyUpdates \/ ResetSigning

Next ==
    \/ ChainNext
    \/ \E zero \in BOOLEAN, addrs \in SUBSET (Val \cup {BadAddress}) : Export(zero, addrs)
    \/ PrepNext
    \/ Import

Spec == Init /\ [][Next]_vars

-----------------------------------------------------------------------------
(* Properties                                                              *)

(* Every variable has its type: no amount is negative, and no record is    *)
(* kept that nobody needs.                                                 *)
TypeOK ==
    /\ height \in Nat /\ messages \in Nat
    /\ \A v \in Val :
          /\ dist[v].period \in Nat /\ dist[v].rewards \in Nat
          /\ dist[v].commission \in Nat /\ dist[v].outstanding \in Nat
          /\ \A p \in DOMAIN dist[v].history : dist[v].history[p] \in RecordType
    /\ DOMAIN info \subseteq Delegation
    /\ \A p \in DOMAIN info : info[p] \in [period : Nat, height : Nat]
    /\ pool \in Nat /\ holdings \in Nat
    /\ unbonding \subseteq [delegation : Delegation, creationHeight : Nat]
    /\ jailed \subseteq Val /\ indexed \subseteq Val /\ bonded \subseteq Val
    /\ unbondingHeight \in [Val -> Nat]
    /\ startHeight \in [Val -> Nat]
    /\ phase \in {"running", "imported"} \cup Preparing \cup Ended
    /\ todo \subseteq Val \cup Delegation
    /\ zeroHeight \in BOOLEAN
    /\ allowed \subseteq Val \cup {BadAddress}
    /\ panicked \in BOOLEAN

(* The module account holds what the module owes: the outstanding rewards  *)
(* and the community pool.  x/distribution refuses a genesis file in which *)
(* it does not.                                                            *)
Solvent == holdings = pool + Outstanding

\* What a delegation could withdraw.
Claim(p) == IF p \in DOMAIN info THEN Owed(dist[p[2]], info[p], Tokens(p[2])) ELSE 0

(* What a delegation has earned goes away only by being paid out: the      *)
(* delegations are set up again, and the records of the periods deleted,   *)
(* only after everybody has been paid.                                     *)
PaidBeforeForgotten ==
    [][\A p \in Delegation :
          Claim(p)' < Claim(p) => Claim(p) - Claim(p)' <= holdings - holdings']_vars

(* After an export with a list of allowed validators, no other validator   *)
(* is in the active set.                                                   *)
OnlyAllowedBonded ==
    phase = "exported" /\ zeroHeight /\ allowed # {} => bonded \subseteq allowed

\* The height the chain starts from that is started from the file.
FirstHeight == IF zeroHeight THEN 0 ELSE height

(* In the file, what x/staking and x/slashing keep by height (unbonding    *)
(* entries, the validators' unbonding heights, signing infos) is not from  *)
(* a block that the chain started from it has yet to produce.  (The       *)
(* heights at which delegations were started again are: ReinitDelegation   *)
(* runs before the height of the context is zero.)                         *)
StakingHeightsReset ==
    phase = "exported" =>
        /\ \A u \in unbonding : u.creationHeight <= FirstHeight
        /\ \A v \in Val : unbondingHeight[v] <= FirstHeight /\ startHeight[v] <= FirstHeight

(* A chain that goes on from the exported height works.                    *)
ContinuedChainWorks == panicked => zeroHeight

(* A chain that starts afresh at height zero works: delegating, undelegat- *)
(* ing and withdrawing do not panic.                                       *)
FreshChainWorks == ~panicked

(* An export for height zero whose list of addresses can be read ends with *)
(* a file.                                                                 *)
NoExportAborts == phase # "aborted"
=============================================================================
