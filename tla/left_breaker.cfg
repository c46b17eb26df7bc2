\* Four processes that are never late: one crashes with the lock, one with the
\* breaker.
SPECIFICATION Spec
CONSTANTS
    Processes = {p1, p2, p3, p4}
    None = None
    MaxCrashes = 2
    MaxSlow = 0
    Slowness = {}
INVARIANTS OneHolds
