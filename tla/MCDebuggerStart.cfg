SPECIFICATION FairStartSpec
CONSTANTS
    Others = {"x"}
    MaxFaults = 1
INVARIANTS
    SessionHasTwoEnds
    NoSocketIsForgotten
    
    GivenUpForACause
PROPERTIES
    
    StartReturns
CHECK_DEADLOCK FALSE
