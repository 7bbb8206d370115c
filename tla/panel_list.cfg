CONSTANTS
    Frame <- MCFrame
    DefaultFrames <- MCDefaultFrames
    Answering <- MCAnswering
    MaxClicks = 5
    ManualStop = TRUE
SPECIFICATION Spec
INVARIANTS
    ThreadJoined
    ListedFramesLive
    SentFrameLives
    UpdatedFrameLives
CHECK_DEADLOCK FALSE
