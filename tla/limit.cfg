\* A TCP and an HTTP proxy of one user, who pays for both and restarts them;
\* lists fail, the process crashes.
SPECIFICATION Spec
CONSTANTS
    Proxies <- TwoProxies
    Tunnels <- TwoTunnels
    ProxyOf <- TwoOwners
    ListOf <- TwoLists
    Limit <- OneMB
    MB = 2
    InitialMB = 1
    ListsMayFail = TRUE
    SavesMayFail = FALSE
    MaxCarried = 3
    MaxResets = 0
    MaxRestarts = 1
PROPERTIES OverLimitStopped
