SPECIFICATION OutputSpec
CONSTANTS
    MaxQueue = 1
    MaxRequests = 4
    Text = {a, b}
    a = a
    b = b
    MaxLength = 4
INVARIANTS
    
    EachOnceInOrder
PROPERTIES
    EveryRequestGoesOut
    ThreadStops
CHECK_DEADLOCK FALSE
