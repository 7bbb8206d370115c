CONSTANTS
    Frame <- MCFrame
    DefaultFrames <- MCDefaultFrames
    Answering <- MCAnswering
    MaxClicks = 3
    ManualStop = TRUE
SPECIFICATION FairSpec
PROPERTIES
    StopReturns
CHECK_DEADLOCK FALSE
