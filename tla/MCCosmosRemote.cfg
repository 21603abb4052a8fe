SPECIFICATION Spec
CONSTANTS
    p1 = p1
    p2 = p2
    c1 = c1
    c2 = c2
    None = None
    Procs <- MCProcs
    Versions <- MCVersions
    Callers <- MCCallers
    MaxQueue = 2
INVARIANTS
    PrefersStarted
    CaughtUp
    NoConnLeak
SYMMETRY MCSymmetry
CHECK_DEADLOCK FALSE
