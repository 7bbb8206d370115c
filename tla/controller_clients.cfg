CONSTANTS
    MaxConns = 3
    Callers <- OneCaller
    MaxSends = 2
    SendBuffer = 1
    Prompt = FALSE
SPECIFICATION FairSpec
INVARIANTS
    ClientFdOpen
    ClosesOwn
    NewestServed
PROPERTIES
    ShutdownReturns
    
CHECK_DEADLOCK FALSE
