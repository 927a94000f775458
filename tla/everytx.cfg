\* Blocks that the circuit has room for.
SPECIFICATION Spec
CONSTANTS
    MerkleDepth = 4
    MaxTxs = 16
CHECK_DEADLOCK FALSE
INVARIANTS
    EveryTxProves
