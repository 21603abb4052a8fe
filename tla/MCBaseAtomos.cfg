SPECIFICATION FairSpec
CONSTANTS
  s = s
  w = w
  k = k
  ks = ks
  c = c
  Sync <- MCSync
  Wormhole <- MCWormhole
  Kill <- MCKill
  KillSelf <- MCKillSelf
  Callback <- MCCallback
  Fault <- AllFault
  None = None
INVARIANTS
  AnswersAreTrue
PROPERTIES
  NothingAfterKilled
  EverySenderAnswered
CHECK_DEADLOCK FALSE
