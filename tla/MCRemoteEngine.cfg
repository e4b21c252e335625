SPECIFICATION FairSpec
CONSTANTS
    IdModulus = 10
    MaxDrawn = 4
    MaxTogether = 7
    MaxSessions = 2
INVARIANTS
    AnswersMeetCallbacks
PROPERTIES
    ImplementsRequestReply
    EveryRequestIsAnswered
CHECK_DEADLOCK FALSE
