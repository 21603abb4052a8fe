SPECIFICATION FairSpec
CONSTANTS
  MaxInstance = 2
  MaxId = 2
  Held = TRUE
  Fault <- NoFault
  None = None
INVARIANTS
  RepliesMatch
PROPERTIES
  EveryCallbackEnds
CHECK_DEADLOCK FALSE
