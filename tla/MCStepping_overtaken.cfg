CONSTANTS
    Threads = {m, a}
    Main = m
    m = m a = a
    MaxDepth = 2
    MaxCalls = 2
    Resteps = TRUE
    LuaErrors = FALSE
    HostResume = FALSE

SPECIFICATION Spec

PROPERTY
    IgnoredRequestHasNoEffect
