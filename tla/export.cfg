\* Two validators with their self-delegations, one more delegator, two blocks
\* and two messages.
SPECIFICATION Spec
CONSTANTS
    Val = {v1, v2}
    Del = {op, d1}
    Operator = op
    NoAddress = nobody
    BadAddress = bad
    Rewards = 3
    Commission = 1
    MaxHeight = 2
    MaxMessages = 2
SYMMETRY ValSymmetry
CHECK_DEADLOCK FALSE
INVARIANTS
    TypeOK
    Solvent
    OnlyAllowedBonded
    StakingHeightsReset
    ContinuedChainWorks
PROPERTIES
    PaidBeforeForgotten
