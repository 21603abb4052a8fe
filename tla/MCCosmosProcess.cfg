SPECIFICATION ProcessFairSpec
CONSTANTS
    main = main
    kill = kill
    drained = drained
    Main = main
    Killers <- MCKillers
    Drains <- MCDrains
    MaxFailures = 2
INVARIANTS
    ProcessTypeOK
    OffLeavesNothing
    RunningIsRegistered
    ShutdownOnce
PROPERTIES
    EveryEndComes
CHECK_DEADLOCK FALSE
