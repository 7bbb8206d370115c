CONSTANTS
    Messages <- MCMessages
    Items <- MCItems
    Ports <- MCPorts
    MessageLines = 2
    Recent = 4
    Slack = 1
    TrimEvery = 2
    MaxMessages = 4
    MaxClicks = 3
SPECIFICATION FairSpec
INVARIANTS
    ButtonAgrees
    ShowsStream
    KeepsRecent
    ActiveIsLit
PROPERTIES
    RelayedIsHandled
CHECK_DEADLOCK FALSE
