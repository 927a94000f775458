\* Two relayer processes, one of which may die at any step; two
\* locks, one at a time, while any other account calls the contract between them.
SPECIFICATION PacedSpec
CONSTANTS
    Relayer = {r1, r2}
    Stoppable = {r1}
    Tx = {t1, t2}
    EvmTx = {t1, t2}
    Topicless = {t2}
    Address = {zero, alice}
    Destination = {zero, alice}
    ZeroAddress = zero
    Value = {1}
    MaxCalls = 1
    MaxTries = 2
    MaxStarts = 2
    Faulty = FALSE
    LateIndex = FALSE
    Repricing = FALSE
    Others = "any"
    NoTx = NoTx
    NoProof = NoProof
    Garbled = Garbled
CHECK_DEADLOCK FALSE
INVARIANTS
    NoMintReverts
    AtRestAllMinted
PROPERTIES
    ReadableLocksMinted
