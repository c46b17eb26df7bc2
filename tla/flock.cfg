\* Three processes; two crash, with the lock, the breaker or both, and one is
\* slow: it is late, or holds the lock for longer than staleMs.
SPECIFICATION Spec
CONSTANTS
    Processes = {p1, p2, p3}
    None = None
    MaxCrashes = 2
    MaxSlow = 1
    Slowness = {"late", "long"}
INVARIANTS TypeOK MutualExclusion
PROPERTIES  TakenOver
