SPECIFICATION FairSpec
CONSTANTS
  c1 = c1
  c2 = c2
  Caller <- MCCaller
  Getter <- MCGetter
  Spawner <- MCSpawner
  MaxInstance = 2
  MaxState = 2
  Persistent = TRUE
  None = None
INVARIANTS
  TypeOK
  OneSpawner
  LiveIsEntry
  TrackerKeepsEntry
PROPERTIES
  EveryCallReturns
CHECK_DEADLOCK FALSE
