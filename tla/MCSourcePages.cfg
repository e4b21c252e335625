SPECIFICATION FairPagesSpec
CONSTANTS
    Keys = {"k1", "k2"}
    Newlines <- MCNewlines
    Breakpoints <- MCBreakpoints
    MaxToggles = 2
    MaxStops = 2
    MaxActs = 2
INVARIANTS
    LastClickWins
    
    MarksAreTheBreakpoints
    SavedIsInTheFile
PROPERTIES
    CopiesConverge
CHECK_DEADLOCK FALSE
