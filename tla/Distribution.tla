------------------------------ MODULE Distribution ------------------------------
(***************************************************************************)
(* What the export of evmd relies on of the SDK's x/distribution (outside  *)
(* the repository).  Rewards of a validator are cut into periods; the      *)
(* record of a period holds the rewards a token has earned up to its end,  *)
(* and a count of those who still need it: the validator itself, for its   *)
(* last period, and each delegation that starts there.  A record nobody    *)
(* needs is deleted.  Needing a record that is not there is a panic.       *)
(*                                                                         *)
(* Every delegation is of one token, and amounts are in the smallest unit. *)
(***************************************************************************)
EXTENDS Integers

RecordType == [ratio : Nat, refs : Nat \ {0}]
EmptyRecord == [ratio |-> 0, refs |-> 0]

\* A record that is missing reads as an empty one.
Record(history, p) == IF p \in DOMAIN history THEN history[p] ELSE EmptyRecord

\* incrementReferenceCount and decrementReferenceCount.
Reference(history, p) ==
    [q \in DOMAIN history \cup {p} |->
        IF q = p THEN [Record(history, p) EXCEPT !.refs = @ + 1] ELSE history[q]]

Release(history, p) ==
    IF Record(history, p).refs > 1
    THEN [history EXCEPT ![p].refs = @ - 1]
    ELSE [q \in DOMAIN history \ {p} |-> history[q]]

\* initializeValidator.
NewValidator ==
    [period |-> 1, rewards |-> 0, commission |-> 0, outstanding |-> 0,
     history |-> [p \in {0} |-> [ratio |-> 0, refs |-> 1]]]

(* IncrementValidatorPeriod: the rewards of the period that ends are       *)
(* divided among the tokens; what does not divide stays outstanding.       *)
IncrementPanics(val) == Record(val.history, val.period - 1).refs = 0

Increment(val, tokens) ==
    LET last == Record(val.history, val.period - 1).ratio
        rest == Release(val.history, val.period - 1)
        now  == [ratio |-> last + val.rewards \div tokens, refs |-> 1]
    IN  [val EXCEPT !.period = @ + 1,
                    !.rewards = 0,
                    !.history = [q \in DOMAIN rest \cup {val.period} |->
                                    IF q = val.period THEN now ELSE rest[q]]]

(* initializeDelegation: a delegation starts at the last period.           *)
StartInfo(val, height) == [period |-> val.period - 1, height |-> height]
Started(val) == [val EXCEPT !.history = Reference(@, val.period - 1)]

\* What a delegation has earned up to now.
Owed(val, info, tokens) ==
    Record(val.history, val.period - 1).ratio - Record(val.history, info.period).ratio
        + val.rewards \div tokens

(* withdrawDelegationRewards: the period ends, the delegation is paid (it  *)
(* has earned nothing in the block it started in) and its start released.  *)
WithdrawPanics(val, info, tokens, height) ==
    LET ended == Increment(val, tokens) IN
    \/ IncrementPanics(val)
    \/ /\ info.height # height
       /\ \/ info.period > val.period
          \/ Record(ended.history, info.period).ratio > Record(ended.history, val.period).ratio
    \/ Record(ended.history, info.period).refs = 0

Payment(val, info, tokens, height) ==
    LET owed == IF info.height = height THEN 0 ELSE Owed(val, info, tokens)
    IN  IF owed > val.outstanding THEN val.outstanding ELSE owed

Withdrawn(val, info, tokens, height) ==
    [Increment(val, tokens) EXCEPT !.outstanding = @ - Payment(val, info, tokens, height),
                                   !.history = Release(@, info.period)]
=============================================================================
