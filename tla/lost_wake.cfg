\* A prompt, an interrupt and a newer prompt, whose wake overtakes the call of
\* the interrupt, and one caller of resume.
SPECIFICATION DrainSpec
CONSTANTS
    Callers = {c1}
    MaxSeq = 3
    InOrder = FALSE
    MaxCalls = 2
    MaxRetries = 0
INVARIANTS DemandKept
