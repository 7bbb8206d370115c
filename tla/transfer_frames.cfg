CONSTANTS
    MaxWords <- MCMaxWords
    Rts <- Corners
    Sas <- Corners
    Wcs <- MCWcs
    DataFields <- MCDataFields
    Answers <- MCAnswers
    Leftovers <- MCLeftovers
SPECIFICATION Spec
INVARIANTS
    MonitorShowsFrame
    PacketAccepted
    AnswerShown
CHECK_DEADLOCK FALSE
