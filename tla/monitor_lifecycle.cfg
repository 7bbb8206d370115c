CONSTANTS
    MaxWords <- MCMaxWords
    Traffic <- SplitTraffic
    ReadMax = 32
    FilterSetups <- AnySetup
    Criteria <- MixedCriteria
    MaxStarts = 2
    MaxFilterChanges = 2
SPECIFICATION FairSpec
INVARIANTS
    IdleAgrees
    HandleUsedOpen
    QueueLossless
    ShownAsDecoded
    ShownFieldsAdmitted
    WithheldFieldsExcluded
PROPERTIES
    ParserSpec
    SessionSpec
    CallsReturn
CHECK_DEADLOCK FALSE
