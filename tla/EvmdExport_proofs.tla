---------------------------- MODULE EvmdExport_proofs ----------------------------
(***************************************************************************)
(* What an exported file says of heights and of the active set, for any    *)
(* validators, delegators, blocks and messages.                            *)
(*                                                                         *)
(* No height that staking and slashing keep lies in the future of the      *)
(* chain it is exported from, and the preparation for height zero sets     *)
(* them back.  (It does not set back the heights at which the delegations  *)
(* start: those are the old chain's.)                                      *)
(* The active set follows the power index, from which nobody jailed may    *)
(* come: so only allowed validators are left in it, or there is no file.   *)
(***************************************************************************)
EXTENDS EvmdExport, TLAPS

USE ExportAssumption

-----------------------------------------------------------------------------
(* The inductive invariant                                                 *)

Types ==
    /\ height \in Nat
    /\ DOMAIN info \subseteq Delegation
    /\ unbonding \subseteq [delegation : Delegation, creationHeight : Nat]
    /\ startHeight \in [Val -> Nat] /\ unbondingHeight \in [Val -> Nat]
    /\ indexed \subseteq Val
    /\ phase \in {"running", "imported"} \cup Preparing \cup Ended

\* Only for height zero there is anything to prepare.
PreparingOK == phase \in Preparing => zeroHeight

HeightsOK ==
    phase # "imported" => /\ \A u \in unbonding : u.creationHeight <= height
                          /\ \A v \in Val : startHeight[v] <= height /\ unbondingHeight[v] <= height

\* What has been set back.
ResetOK ==
    /\ phase \in {"apply", "signing"} \/ (phase = "exported" /\ zeroHeight) =>
          /\ \A u \in unbonding : u.creationHeight = 0
          /\ \A v \in Val : unbondingHeight[v] = 0
    /\ phase = "exported" /\ zeroHeight => \A v \in Val : startHeight[v] = 0

\* Who is jailed, and who is left.
AllowedOK ==
    allowed # {} => /\ phase = "apply" => Val \ allowed \subseteq jailed
                    /\ phase = "signing" => bonded \subseteq allowed

IInv == Types /\ PreparingOK /\ HeightsOK /\ ResetOK /\ AllowedOK /\ OnlyAllowedBonded

LEMMA InitInv == Init => IInv
  <1> SUFFICES ASSUME Init PROVE IInv
    OBVIOUS
  <1>1. Types
    BY DEF Init, Types, Delegation
  <1>2. PreparingOK /\ HeightsOK /\ ResetOK /\ AllowedOK /\ OnlyAllowedBonded
    BY DEF Init, PreparingOK, HeightsOK, ResetOK, AllowedOK, OnlyAllowedBonded, Preparing
  <1>3. QED  BY <1>1, <1>2 DEF IInv

-----------------------------------------------------------------------------
(* The chains                                                              *)

(* Steps of a chain that runs: heights go up, and new entries have the     *)
(* height of now.                                                          *)
LEMMA LiveStep ==
    ASSUME IInv, Live, phase' = phase, zeroHeight' = zeroHeight,
           height' \in Nat, height <= height',
           DOMAIN info' \subseteq Delegation, indexed' \subseteq Val,
           startHeight' \in [Val -> Nat], unbondingHeight' \in [Val -> Nat],
           \A v \in Val : startHeight'[v] = startHeight[v] \/ startHeight'[v] <= height',
           \A v \in Val : unbondingHeight'[v] = unbondingHeight[v] \/ unbondingHeight'[v] <= height',
           unbonding' \subseteq [delegation : Delegation, creationHeight : Nat],
           \A u \in unbonding' : u \in unbonding \/ u.creationHeight <= height'
    PROVE  IInv'
  <1> USE DEF IInv
  <1>1. phase \in {"running", "imported"}
    BY DEF Live
  <1>2. Types'
    BY DEF Types
  <1>3. HeightsOK'
    <2> SUFFICES ASSUME phase # "imported"
                 PROVE  /\ \A u \in unbonding' : u.creationHeight <= height'
                        /\ \A v \in Val : startHeight'[v] <= height' /\ unbondingHeight'[v] <= height'
      BY DEF HeightsOK
    <2>1. \A u \in unbonding' : u.creationHeight \in Nat
      OBVIOUS
    <2>2. \A u \in unbonding' : u.creationHeight <= height'
      BY <2>1 DEF HeightsOK, Types
    <2>3. ASSUME NEW v \in Val PROVE startHeight'[v] <= height'
      <3>1. startHeight[v] \in Nat /\ startHeight[v] <= height
        BY DEF HeightsOK, Types
      <3>2. startHeight'[v] \in Nat
        OBVIOUS
      <3>3. QED  BY <3>1, <3>2 DEF Types
    <2>4. ASSUME NEW v \in Val PROVE unbondingHeight'[v] <= height'
      <3>1. unbondingHeight[v] \in Nat /\ unbondingHeight[v] <= height
        BY DEF HeightsOK, Types
      <3>2. unbondingHeight'[v] \in Nat
        OBVIOUS
      <3>3. QED  BY <3>1, <3>2 DEF Types
    <2>5. QED  BY <2>2, <2>3, <2>4
  <1>4. PreparingOK' /\ ResetOK' /\ AllowedOK' /\ OnlyAllowedBonded'
    BY <1>1 DEF PreparingOK, ResetOK, AllowedOK, OnlyAllowedBonded, Preparing
  <1>5. QED  BY <1>2, <1>3, <1>4

LEMMA ChainStep == ASSUME IInv, ChainNext PROVE IInv'
  <1> USE DEF IInv, distVars, stakingVars, argVars
  <1>1. CASE NewBlock
    <2>1. Live /\ height' = height + 1
          /\ UNCHANGED <<info, unbonding, indexed, unbondingHeight, startHeight, phase, zeroHeight>>
      BY <1>1 DEF NewBlock
    <2>2. QED  BY <2>1, LiveStep DEF Types
  <1>2. ASSUME NEW d \in Del, NEW v \in Val, Delegate(d, v) PROVE IInv'
    <2>1. Live /\ UNCHANGED <<height, unbonding, indexed, unbondingHeight, startHeight, phase, zeroHeight>>
      BY <1>2 DEF Delegate, Message, Panic
    <2>2. DOMAIN info' \subseteq DOMAIN info \cup {<<d, v>>}
      BY <1>2 DEF Delegate, Panic
    <2>3. DOMAIN info' \subseteq Delegation
      BY <2>2 DEF Types, Delegation
    <2>4. QED  BY <2>1, <2>3, LiveStep DEF Types
  <1>3. ASSUME NEW p \in DOMAIN info, MsgWithdraw(p) PROVE IInv'
    <2>1. Live /\ UNCHANGED <<height, unbonding, indexed, unbondingHeight, startHeight, phase, zeroHeight>>
      BY <1>3 DEF MsgWithdraw, Message, Panic
    <2>2. DOMAIN info' = DOMAIN info
      BY <1>3 DEF MsgWithdraw, Panic, Withdraw
    <2>3. QED  BY <2>1, <2>2, LiveStep DEF Types
  <1>4. ASSUME NEW p \in DOMAIN info, Undelegate(p) PROVE IInv'
    <2>1. Live /\ UNCHANGED <<height, indexed, unbondingHeight, startHeight, phase, zeroHeight>>
      BY <1>4 DEF Undelegate, Message, Panic
    <2>2. DOMAIN info' \subseteq DOMAIN info
          /\ unbonding' \subseteq unbonding \cup {[delegation |-> p, creationHeight |-> height]}
      BY <1>4 DEF Undelegate, Panic
    <2>3. [delegation |-> p, creationHeight |-> height] \in [delegation : Delegation, creationHeight : Nat]
      BY DEF Types
    <2>4. QED  BY <2>1, <2>2, <2>3, LiveStep DEF Types
  <1>5. ASSUME NEW v \in Val, Jail(v) PROVE IInv'
    <2>1. Live /\ UNCHANGED <<height, info, unbonding, startHeight, phase, zeroHeight>>
          /\ indexed' \subseteq indexed /\ unbondingHeight' = [unbondingHeight EXCEPT ![v] = height]
      BY <1>5 DEF Jail
    <2>2. QED  BY <2>1, LiveStep DEF Types
  <1>6. ASSUME NEW v \in Val, Unjail(v) PROVE IInv'
    <2>1. Live /\ UNCHANGED <<height, info, unbonding, unbondingHeight, phase, zeroHeight>>
          /\ indexed' = indexed \cup {v} /\ startHeight' = [startHeight EXCEPT ![v] = height]
      BY <1>6 DEF Unjail, Message
    <2>2. QED  BY <2>1, LiveStep DEF Types
  <1>7. QED  BY <1>1, <1>2, <1>3, <1>4, <1>5, <1>6 DEF ChainNext

-----------------------------------------------------------------------------
(* The export                                                              *)

LEMMA ExportStep == ASSUME IInv, NEW zero \in BOOLEAN, NEW addrs, Export(zero, addrs) PROVE IInv'
  <1> USE DEF IInv, Export, distVars, stakingVars
  <1>1. phase = "running" /\ phase' \in {"exported", "refused", "commission"}
        /\ (phase' = "exported" => ~zero) /\ (phase' = "commission" => zero)
    OBVIOUS
  <1>2. Types'
    BY <1>1 DEF Types, Preparing, Ended
  <1>3. HeightsOK'
    BY <1>1 DEF HeightsOK
  <1>4. PreparingOK' /\ ResetOK' /\ AllowedOK' /\ OnlyAllowedBonded'
    BY <1>1 DEF PreparingOK, ResetOK, AllowedOK, OnlyAllowedBonded, Preparing
  <1>5. QED  BY <1>2, <1>3, <1>4

(* The sections before the staking state is touched.                       *)
LEMMA DistributionSteps ==
    ASSUME IInv, phase \in {"commission", "rewards", "delegations", "history", "validators"},
           phase' \in {"commission", "rewards", "delegations", "history", "validators", "staking"},
           DOMAIN info' = DOMAIN info,
           UNCHANGED <<height, unbonding, indexed, unbondingHeight, startHeight, zeroHeight>>
    PROVE  IInv'
  <1> USE DEF IInv
  <1>1. Types'
    BY DEF Types, Preparing
  <1>2. PreparingOK' /\ HeightsOK' /\ ResetOK' /\ AllowedOK' /\ OnlyAllowedBonded'
    BY DEF PreparingOK, HeightsOK, ResetOK, AllowedOK, OnlyAllowedBonded, Preparing
  <1>3. QED  BY <1>1, <1>2

LEMMA ResetStakingStep == ASSUME IInv, ResetStaking PROVE IInv'
  <1> USE DEF IInv, ResetStaking, distVars, argVars
  <1>1. phase = "staking" /\ phase' = "apply"
        /\ unbonding' = {[u EXCEPT !.creationHeight = 0] : u \in unbonding}
        /\ unbondingHeight' = [v \in Val |-> 0]
        /\ jailed' = (IF allowed = {} THEN jailed ELSE jailed \cup (Val \ allowed))
        /\ UNCHANGED <<height, info, indexed, startHeight, allowed, zeroHeight>>
    OBVIOUS
  <1>2. ASSUME NEW u \in unbonding
        PROVE  /\ [u EXCEPT !.creationHeight = 0] \in [delegation : Delegation, creationHeight : Nat]
               /\ [u EXCEPT !.creationHeight = 0].creationHeight = 0
    <2>1. u \in [delegation : Delegation, creationHeight : Nat]
      BY DEF Types
    <2>2. QED  BY <2>1
  <1>3. unbonding' \subseteq [delegation : Delegation, creationHeight : Nat]
        /\ \A u \in unbonding' : u.creationHeight = 0
    BY <1>1, <1>2
  <1>4. Types'
    BY <1>1, <1>3 DEF Types, Preparing
  <1>5. PreparingOK' /\ HeightsOK' /\ ResetOK'
    BY <1>1, <1>3 DEF PreparingOK, HeightsOK, ResetOK, Preparing, Types
  <1>6. AllowedOK' /\ OnlyAllowedBonded'
    BY <1>1 DEF AllowedOK, OnlyAllowedBonded
  <1>7. QED  BY <1>4, <1>5, <1>6

(* What is taken from the index is not jailed, and so allowed.             *)
LEMMA ApplyUpdatesStep == ASSUME IInv, ApplyUpdates PROVE IInv'
  <1> USE DEF IInv, ApplyUpdates, distVars, argVars
  <1>1. UNCHANGED <<height, info, unbonding, jailed, indexed, unbondingHeight, startHeight, allowed,
                    zeroHeight>>
        /\ phase = "apply" /\ phase' \in {"aborted", "signing"}
        /\ (phase' = "signing" => bonded' = indexed /\ indexed \cap jailed = {})
    OBVIOUS
  <1>2. Types'
    BY <1>1 DEF Types, Preparing, Ended
  <1>3. PreparingOK' /\ HeightsOK' /\ ResetOK'
    BY <1>1 DEF PreparingOK, HeightsOK, ResetOK, Preparing
  <1>4. AllowedOK' /\ OnlyAllowedBonded'
    BY <1>1 DEF AllowedOK, OnlyAllowedBonded, Types
  <1>5. QED  BY <1>2, <1>3, <1>4

LEMMA ResetSigningStep == ASSUME IInv, ResetSigning PROVE IInv'
  <1> USE DEF IInv, ResetSigning, distVars, argVars
  <1>1. UNCHANGED <<height, info, unbonding, jailed, indexed, bonded, unbondingHeight, allowed, zeroHeight>>
        /\ phase = "signing" /\ phase' = "exported" /\ startHeight' = [v \in Val |-> 0]
    OBVIOUS
  <1>2. Types'
    BY <1>1 DEF Types, Ended
  <1>3. PreparingOK' /\ HeightsOK' /\ ResetOK'
    BY <1>1 DEF PreparingOK, HeightsOK, ResetOK, Preparing, Types
  <1>4. AllowedOK' /\ OnlyAllowedBonded'
    BY <1>1 DEF AllowedOK, OnlyAllowedBonded
  <1>5. QED  BY <1>2, <1>3, <1>4

LEMMA ImportStep == ASSUME IInv, Import PROVE IInv'
  <1> USE DEF IInv, Import, distVars, stakingVars, argVars
  <1>1. UNCHANGED <<info, unbonding, indexed, unbondingHeight, startHeight>> /\ phase' = "imported" /\ height' \in Nat
    BY DEF Types
  <1>2. Types'
    BY <1>1 DEF Types
  <1>3. PreparingOK' /\ HeightsOK' /\ ResetOK' /\ AllowedOK' /\ OnlyAllowedBonded'
    BY <1>1 DEF PreparingOK, HeightsOK, ResetOK, AllowedOK, OnlyAllowedBonded, Preparing
  <1>4. QED  BY <1>2, <1>3

LEMMA PrepStep == ASSUME IInv, PrepNext PROVE IInv'
  <1> USE DEF distVars, stakingVars, argVars
  <1>1. ASSUME NEW v \in Val, WithdrawCommission(v) PROVE IInv'
    BY <1>1, DistributionSteps DEF WithdrawCommission, Visited
  <1>2. ASSUME NEW v \in Val, ReinitValidator(v) PROVE IInv'
    BY <1>2, DistributionSteps DEF ReinitValidator, Visited
  <1>3. ASSUME NEW p \in DOMAIN info, WithdrawRewards(p) PROVE IInv'
    BY <1>3, DistributionSteps DEF WithdrawRewards, Visited, Withdraw
  <1>4. ASSUME NEW p \in DOMAIN info, ReinitDelegation(p) PROVE IInv'
    BY <1>4, DistributionSteps DEF ReinitDelegation, Visited
  <1>5. CASE DeleteHistory
    BY <1>5, DistributionSteps DEF DeleteHistory
  <1>6. QED  BY <1>1, <1>2, <1>3, <1>4, <1>5, ResetStakingStep, ApplyUpdatesStep, ResetSigningStep
             DEF PrepNext

-----------------------------------------------------------------------------
(* The invariant, and what follows from it                                 *)

(* Every step of the chains and of the export keeps the invariant.         *)
THEOREM Invariance == Spec => []IInv
  <1>1. IInv /\ [Next]_vars => IInv'
    <2> SUFFICES ASSUME IInv, [Next]_vars PROVE IInv'
      OBVIOUS
    <2>1. CASE ChainNext
      BY <2>1, ChainStep
    <2>2. CASE \E zero \in BOOLEAN, addrs \in SUBSET (Val \cup {BadAddress}) : Export(zero, addrs)
      BY <2>2, ExportStep
    <2>3. CASE PrepNext
      BY <2>3, PrepStep
    <2>4. CASE Import
      BY <2>4, ImportStep
    <2>5. CASE UNCHANGED vars
      BY <2>5 DEF IInv, Types, PreparingOK, HeightsOK, ResetOK, AllowedOK, OnlyAllowedBonded,
                  vars, distVars, stakingVars, argVars
    <2>6. QED  BY <2>1, <2>2, <2>3, <2>4, <2>5 DEF Next
  <1>2. QED  BY <1>1, InitInv, PTL DEF Spec

(* After an export with a list of allowed validators, no other validator   *)
(* is in the active set.                                                   *)
THEOREM OnlyAllowedLeft == Spec => []OnlyAllowedBonded
  <1>1. IInv => OnlyAllowedBonded
    BY DEF IInv
  <1>2. QED  BY <1>1, Invariance, PTL

(* No unbonding entry, no validator's unbonding height and no signing info *)
(* of the file is from a block that the chain started from it has yet to   *)
(* produce.                                                                *)
THEOREM StakingStartsAfresh == Spec => []StakingHeightsReset
  <1>1. IInv => StakingHeightsReset
    BY DEF IInv, Types, HeightsOK, ResetOK, StakingHeightsReset, FirstHeight
  <1>2. QED  BY <1>1, Invariance, PTL
=============================================================================
