\* Two projects that are opened, paused, reopened and killed, two tasks, and a
\* read or write that fails.  The user may leave the application idle for ever.
SPECIFICATION Spec
CONSTANTS
    None = None
    Projects = {p, q}
    Sources = {s}
    MaxFibers = 2
    MaxTasks = 2
    MaxSaved = 1
    MaxOps = 3
    MaxRetries = 2
    Patient = TRUE
    MaxFaults = 1
INVARIANTS TypeOK OwnFile NothingStranded FileHoldsQueue
PROPERTIES TasksSettle
CHECK_DEADLOCK FALSE
