CONSTANTS
    Threads = {m, a, b}
    Main = m
    m = m a = a b = b
    MaxDepth = 3
    MaxCalls = 2
    Resteps = FALSE
    LuaErrors = FALSE
    HostResume = FALSE
SPECIFICATION Spec
INVARIANTS
    CallCountOfEach
PROPERTIES
    ImplementsStepSemantics
