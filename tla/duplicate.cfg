\* Two relayer processes relay the same transaction, which may hold two locks;
\* pending transactions may be replaced.
SPECIFICATION Spec
CONSTANTS
    Relayer = {r1, r2}
    Stoppable = {r1, r2}
    Tx = {t1}
    EvmTx = {t1}
    Topicless = {}
    Address = {zero, alice}
    Destination = {zero, alice}
    ZeroAddress = zero
    Value = {1}
    MaxCalls = 2
    MaxTries = 2
    MaxStarts = 2
    Faulty = TRUE
    LateIndex = TRUE
    Repricing = TRUE
    Others = "truthful"
    NoTx = NoTx
    NoProof = NoProof
    Garbled = Garbled
CHECK_DEADLOCK FALSE
INVARIANTS
    MintedOnce
    SupplyBacked
PROPERTIES
    SupplyGrowsByLock
    KeepsLedger
