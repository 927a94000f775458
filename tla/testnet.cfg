\* Two runs over one directory, and what each may leave, for up to three validators.
SPECIFICATION Spec
CONSTANTS
    MaxValidators = 3
    PowerArgs <- MCPowerArgs
    StartBytes = {255}
    NoIP = NoIP
    NotIPv4 = NotIPv4
    HomePorts = {26656, 60003}
    SingleHost = SingleHost
    ConfigChanges <- MCConfigChanges
    Unreadable = Unreadable
    MaxRuns = 2
    NoFile = NoFile
CHECK_DEADLOCK FALSE
INVARIANTS
    TypeOK
    SuccessIsOneTestnet
    FailsForAReason
    PeersDistinct
    PeersReachable
    PortsDistinct
    ChangesReachEveryNode
