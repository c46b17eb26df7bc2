\* A TCP proxy with two ports: lists and saves that fail, counters that start
\* again, a crash.  Deadlock: with the task dead and the bounds used up nothing
\* is left to do.
SPECIFICATION Spec
CONSTANTS
    Proxies <- OneProxy
    Tunnels <- TwoPorts
    ProxyOf <- PortOwner
    ListOf <- PortLists
    Limit <- OneMB
    MB = 2
    InitialMB = 1
    ListsMayFail = TRUE
    SavesMayFail = TRUE
    MaxCarried = 4
    MaxResets = 1
    MaxRestarts = 1
INVARIANTS TypeOK NeverOvercharged BalanceTracksUsage
CHECK_DEADLOCK FALSE
