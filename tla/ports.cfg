\* Two users, the administrator, a busy port, failing saves, one crash; the range is fixed.
SPECIFICATION Spec
SYMMETRY UserSymmetry
CONSTANTS
    Users = {u1, u2}
    Names = {n1}
    Subdomains = {}
    NoSubdomain = NoSubdomain
    Types <- TcpOnly
    Limits = {1}
    FreeAmount = 1
    InitialMB = 2
    MaxConnections = 2
    MaxTcpPorts = 2
    DefaultRange <- TwoPorts
    Ranges <- PairRange
    BusyPorts = {2}
    BootBusyPorts = {}
    SavesMayFail = TRUE
    TornWrites = TRUE
    AdminDeletable <- LiveOnly
    MaxId = 3
    MaxRecharged = 2
    MaxDelta = 0
    MaxUsed = 0
    MaxRestarts = 1
INVARIANTS TypeOK PortsExclusive OwnedPortsReserved AckedProxySurvives
