SPECIFICATION CallsSpec
CONSTANTS
    MaxDepth = 6
INVARIANTS
    QuitIsSilent
    UnreportedHasACauseInside
    EnabledIsInnermosts
CHECK_DEADLOCK FALSE
