\* One transaction with two locks.
SPECIFICATION Spec
CONSTANTS
    Relayer = {r1}
    Stoppable = {}
    Tx = {t1}
    EvmTx = {t1}
    Topicless = {}
    Address = {zero, alice}
    Destination = {zero, alice}
    ZeroAddress = zero
    Value = {1}
    MaxCalls = 2
    MaxTries = 2
    MaxStarts = 2
    Faulty = FALSE
    LateIndex = TRUE
    Repricing = FALSE
    Others = "none"
    NoTx = NoTx
    NoProof = NoProof
    Garbled = Garbled
CHECK_DEADLOCK FALSE
INVARIANTS
    AllLocksPaid
