SPECIFICATION FairSpec
CONSTANTS
    c1 = c1
    c2 = c2
    a1 = a1
    a2 = a2
    Conn = {c1, c2}
    Addr = {a1, a2}
    Bounds <- TheBounds
INVARIANTS
    Registered
    RoutesHome
    CallbackKept
    ToldRight
PROPERTIES
    Concluded
CHECK_DEADLOCK FALSE
