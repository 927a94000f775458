------------------------------- MODULE EvmdChain -------------------------------
(***************************************************************************)
(* What a node promises the network: a chain on which the blocks that are  *)
(* decided are executed one after another, each once and as a whole, and   *)
(* its result added to the states and never changed.  There is no process  *)
(* in it, no binary, no module and no crash: a state follows from the one  *)
(* before, from the block and from what was planned for its height.  That  *)
(* a block is executed at all is not promised here.                        *)
(***************************************************************************)
EXTENDS Naturals, Sequences

CONSTANTS
    PlanHeight,     \* the height the upgrade is planned for
    MaxHeight,      \* bound on the heights of the chain
    TxGas, GovGas   \* gas of a block's transactions, and of its proposals

VARIABLES
    skipped,        \* the upgrade is to be skipped
    blocks,         \* the blocks decided
    states          \* the states after those that were executed

chainVars == <<skipped, blocks, states>>

Fresh == [vm |-> "new", coin |-> "known", plan |-> FALSE, upgraded |-> FALSE,
          fees |-> 0, gas |-> 0, baseFee |-> 0, evm |-> [coin |-> "unset", fee |-> 0]]

\* The first state of a chain that is to be upgraded.
Planned == [Fresh EXCEPT !.vm = "old", !.coin = "missing", !.plan = TRUE]

Init ==
    /\ skipped \in BOOLEAN
    /\ \/ ~skipped /\ states = <<>> /\ blocks = <<>>
       \/ states = <<Planned>> /\ blocks = <<[tx |-> 0, gov |-> 0]>>

Decide ==
    /\ Len(blocks) = Len(states)
    /\ Len(blocks) < MaxHeight
    /\ \E tx \in TxGas, gov \in GovGas : blocks' = Append(blocks, [tx |-> tx, gov |-> gov])
    /\ UNCHANGED <<skipped, states>>

\* At its height the plan is carried out, or dropped.
Upgrade(s, height) ==
    IF s.plan /\ height >= PlanHeight
    THEN IF skipped
         THEN [s EXCEPT !.plan = FALSE]
         ELSE [s EXCEPT !.vm = "new", !.coin = "known", !.plan = FALSE, !.upgraded = TRUE]
    ELSE s

(* The fees of the block before are paid out, those of its transactions    *)
(* are collected, and they are charged the base fee of the last gas.       *)
Charge(s, height, block) ==
    [s EXCEPT !.fees = (IF height > 1 THEN 0 ELSE s.fees + 1) + block.tx,
              !.gas = block.tx + block.gov,
              !.baseFee = s.gas,
              !.evm = [coin |-> IF s.vm = "new" THEN s.coin ELSE "unset", fee |-> s.gas]]

Execute ==
    /\ Len(states) < Len(blocks)
    /\ LET height == Len(states) + 1
           last == IF states = <<>> THEN Fresh ELSE states[Len(states)]
       IN states' = Append(states, Charge(Upgrade(last, height), height, blocks[height]))
    /\ UNCHANGED <<skipped, blocks>>

Next == Decide \/ Execute

Spec == Init /\ [][Next]_chainVars
=============================================================================
