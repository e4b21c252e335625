SPECIFICATION FairPathSpec
CONSTANTS
    MaxCommands = 2
    HeaderSize = 2
    DataSizes = {0, 1}
INVARIANTS
    MemoryIsKept
PROPERTIES
    ImplementsFifo
    
    EveryCommandIsHandled
    LossEndsTheStop
CHECK_DEADLOCK FALSE
