\* One relayer process with two transactions in flight, where every remote call
\* may fail and the process may stop at any moment and be started again: what is
\* minted, what is reported, and that every goroutine ends.
SPECIFICATION FairSpec
CONSTANTS
    Relayer = {r1}
    Stoppable = {r1}
    Tx = {t1, t2}
    EvmTx = {t1, t2}
    Topicless = {}
    Address = {zero, alice}
    Destination = {zero, alice}
    ZeroAddress = zero
    Value = {1}
    MaxCalls = 1
    MaxTries = 1
    MaxStarts = 2
    Faulty = TRUE
    LateIndex = TRUE
    Repricing = FALSE
    Others = "none"
    NoTx = NoTx
    NoProof = NoProof
    Garbled = Garbled
CHECK_DEADLOCK FALSE
INVARIANTS
    TypeOK
    MintedAsLocked
    IInv
    CompleteIsSubmitted
PROPERTIES
    JobsEnd
