CONSTANTS
    MaxWords <- MCMaxWords
    MaxBlocks = 3
    Buffers <- MCBuffers
SPECIFICATION MCFairSpec
INVARIANTS
    DecodedAreFrames
    DecodedInOrder
    NoFrameMissed
    AlignedStaysInSync
PROPERTY ParseTerminates
CHECK_DEADLOCK FALSE
