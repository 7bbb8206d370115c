CONSTANTS
    MaxConns = 2
    Callers <- BothCallers
    MaxSends = 4
    SendBuffer = 2
    Prompt = TRUE
SPECIFICATION Spec
INVARIANTS
    AnswersMatch
CHECK_DEADLOCK FALSE
