SPECIFICATION HandleSpec
CONSTANTS
    p1 = p1
    p2 = p2
    c1 = c1
    c2 = c2
    None = None
    Procs <- MCProcs
    Callers <- MCCallers
    MaxInst = 2
INVARIANTS
    HitsItsInstance
CHECK_DEADLOCK FALSE
