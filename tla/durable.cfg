\* Restarts and range changes; no administrator deletions, every save succeeds.
SPECIFICATION Spec
SYMMETRY UserSymmetry
CONSTANTS
    Users = {u1, u2}
    Names = {n1}
    Subdomains = {}
    NoSubdomain = NoSubdomain
    Types <- TcpOnly
    Limits = {1}
    FreeAmount = 1
    InitialMB = 1
    MaxConnections = 2
    MaxTcpPorts = 2
    DefaultRange <- ThreePorts
    Ranges <- SomeRanges
    BusyPorts = {}
    BootBusyPorts = {}
    SavesMayFail = FALSE
    TornWrites = FALSE
    AdminDeletable = {}
    MaxId = 3
    MaxRecharged = 2
    MaxDelta = 0
    MaxUsed = 0
    MaxRestarts = 1
INVARIANTS OwnedPortsInRange NoPortLost
