SPECIFICATION FairSpec
CONSTANTS
    MaxCommands = 3
INVARIANTS
    FrameBelief
    CountsConverge
    ChosenFrameIsOfThisStop
PROPERTIES
    ObeyedIffInformed
    EveryStopIsShown
