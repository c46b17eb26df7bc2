\* Balances, limits, names and subdomains: updates that fail half way, poll rounds, failing saves, a crash.
SPECIFICATION Spec
SYMMETRY Symmetry
VIEW StoreView
CONSTANTS
    Users = {u1}
    Names = {n1, n2}
    Subdomains = {s1, s2}
    NoSubdomain = NoSubdomain
    Types <- HttpXtcp
    Limits = {1, 2}
    FreeAmount = 1
    InitialMB = 2
    MaxConnections = 2
    MaxTcpPorts = 2
    DefaultRange <- ThreePorts
    Ranges <- OneRange
    BusyPorts = {}
    BootBusyPorts = {}
    SavesMayFail = TRUE
    TornWrites = FALSE
    AdminDeletable <- AnyRecord
    MaxId = 2
    MaxRecharged = 2
    MaxDelta = 1
    MaxUsed = 1
    MaxRestarts = 1
INVARIANTS QuotaCovered NamesAndSubdomainsUnique
 
