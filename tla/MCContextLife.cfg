SPECIFICATION LifeSpec
CONSTANTS
    Contexts = {c1, c2, c3}
    c1 = c1
    c2 = c2
    c3 = c3
    Addresses = {p1, p2, p3, p4}
    p1 = p1
    p2 = p2
    p3 = p3
    p4 = p4
    MaxSessions = 3
SYMMETRY Symmetric
INVARIANTS
    OneAtATimeIsFound
    ConfigIsKept

    
CHECK_DEADLOCK FALSE
