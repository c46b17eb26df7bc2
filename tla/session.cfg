\* Two prompts or a prompt and an interrupt, one of them sent again, one caller
\* of resume, shutdown and restart; calls arrive in order.
SPECIFICATION DrainSpec
CONSTANTS
    Callers = {c1}
    MaxSeq = 2
    InOrder = TRUE
    MaxCalls = 2
    MaxRetries = 1
INVARIANTS DrainTypeOK AtMostOneDrain DemandKept JoinedNotForgotten AnswerMeansForced WakePromotes PromotedInOrder
PROPERTIES LaneSteps PromptServed CallersAnswered
