SPECIFICATION GraphFairSpec
CONSTANTS
  a1 = a1
  a2 = a2
  a3 = a3
  SpawnHook = SpawnHook
  None = None
  Actor <- MCActors
  Client <- NoClient
  Spawning <- MCSpawning
  MaxCalls = 1
INVARIANTS
  Acyclic
  NoDeadlock
PROPERTIES
  EveryCallReturns
CHECK_DEADLOCK FALSE
