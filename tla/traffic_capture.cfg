CONSTANTS
    MaxWords = 1
    Requests <- MCRequests
    Answers <- MCAnswers
    Headers <- MCHeaders
    Incoming <- FromSimulator
    MaxRequests = 2
    MaxAcks = 1
SPECIFICATION Spec
INVARIANTS
    ReportsConversation
    AnswerIsWhole
CHECK_DEADLOCK FALSE
