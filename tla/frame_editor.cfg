CONSTANTS
    Frame <- MCFrame
    Window = {w1, w2}
    MaxWords = 2
    Text <- MCText
    Offers <- MCOffers
    Defaults <- MCDefaults
    NewData <- MCNewData
    MaxEvents = 5
SPECIFICATION Spec
INVARIANTS
    FieldsFitGrid
PROPERTIES
    OnlySentWordsEdited
    UnusedKept
CHECK_DEADLOCK FALSE
