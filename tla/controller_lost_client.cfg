CONSTANTS
    MaxConns = 2
    Callers <- OneCaller
    MaxSends = 3
    SendBuffer = 1
    Prompt = FALSE
SPECIFICATION Spec
INVARIANTS
    ReplacementKept
CHECK_DEADLOCK FALSE
