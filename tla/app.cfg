\* A new chain, and an old one through its upgrade, with crashes and wrong binaries.
SPECIFICATION Spec
CONSTANTS
    PlanHeight = 3
    MaxHeight = 5
    MaxCrashes = 2
    TxGas = {1}
    GovGas = {0, 1}
    None = None
CHECK_DEADLOCK FALSE
INVARIANTS
    TypeOK
    VersionsMatch
    UpgradedAtPlan
    SameOnReplay
    BaseFeeFollowsGas
    NoFeesLeftAtSlashing
    StopsForAReason
PROPERTY
    KeepsChain
    ChainGoesOn
