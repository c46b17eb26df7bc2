\* Every pool within five ports, every request of up to three ports.
SPECIFICATION ScanSpec
CONSTANTS
    Low = 1
    High = 5
    MaxCount = 3
CHECK_DEADLOCK FALSE
INVARIANTS LoopMeetsClosedForm
