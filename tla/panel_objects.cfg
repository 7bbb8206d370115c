CONSTANTS
    Frame <- MCFrame
    DefaultFrames <- MCDefaultFrames
    Answering <- MCAnswering
    MaxClicks = 5
    ManualStop = FALSE
SPECIFICATION FairSpec
PROPERTIES
    StopReturns
    SendingEnds
CHECK_DEADLOCK FALSE
