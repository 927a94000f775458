\* Two locks, a relayer process that listens and never stops, nothing fails.
SPECIFICATION ListeningSpec
CONSTANTS
    Relayer = {r1}
    Stoppable = {}
    Tx = {t1, t2}
    EvmTx = {t1, t2}
    Topicless = {}
    Address = {zero, alice}
    Destination = {alice}
    ZeroAddress = zero
    Value = {1}
    MaxCalls = 1
    MaxTries = 2
    MaxStarts = 1
    Faulty = FALSE
    LateIndex = FALSE
    Repricing = FALSE
    Others = "none"
    NoTx = NoTx
    NoProof = NoProof
    Garbled = Garbled
CHECK_DEADLOCK FALSE
PROPERTIES
    LocksMinted
