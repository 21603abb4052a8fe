SPECIFICATION Spec
CONSTANTS
  MaxInstance = 2
  MaxId = 2
  Held = FALSE
  Fault <- AnyFault
  None = None
INVARIANTS
  AtMostOnce
  NoneLeftBehind
  LocalRepliesMatch
CHECK_DEADLOCK FALSE
