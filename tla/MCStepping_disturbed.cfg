CONSTANTS
    Threads = {m, a}
    Main = m
    m = m a = a
    MaxDepth = 2
    MaxCalls = 2
    Resteps = TRUE
    LuaErrors = TRUE
    HostResume = TRUE
SPECIFICATION Spec
INVARIANTS
    StepTargetRuns
