\* Every place in every block of up to 20 transactions, a circuit of 4 levels:
\* trees the circuit has room for, and trees that are too high for it.
SPECIFICATION Spec
CONSTANTS
    MerkleDepth = 4
    MaxTxs = 20
CHECK_DEADLOCK FALSE
INVARIANTS
    TypeOK
    ClimbsTree
    ProvesBottomLeaves
