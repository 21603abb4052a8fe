CONSTANTS
    old = old
    new = new
    third = third
    Procs <- MCProcs
    Version <- MCVersion
    maxNodes = 2
    MaxFaults = 1
SPECIFICATION Spec
INVARIANTS
    AtMostMaxNodes
    CurrentListed
    ListMatches
PROPERTIES
    Implements
CHECK_DEADLOCK FALSE
