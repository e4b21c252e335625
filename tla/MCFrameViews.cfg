SPECIFICATION Spec
CONSTANTS
    Watches = {w1}
    w1 = w1
    MaxMoves = 2
    MaxActions = 3
INVARIANTS
    
    FieldsAreOfTheValue
    FramesAreOfTheStop
CHECK_DEADLOCK FALSE
