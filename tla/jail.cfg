\* An export for height zero with a list of allowed validators.
SPECIFICATION Spec
CONSTANTS
    Val = {v1, v2}
    Del = {op, d1}
    Operator = op
    NoAddress = nobody
    BadAddress = bad
    Rewards = 3
    Commission = 1
    MaxHeight = 1
    MaxMessages = 1
CHECK_DEADLOCK FALSE
INVARIANT NoExportAborts
