SPECIFICATION FairSpec
CONSTANTS
  call = call
  afterwards = afterwards
  deferred = deferred
  first = first
  second = second
  box1 = box1
  box2 = box2
  Closure <- MCClosure
  After <- MCAfter
  Direct <- MCDirect
  Serial <- MCSerial
  Concurrent <- MCConcurrent
  Delayed <- MCDelayed
  Cron <- MCCron
  Returning <- MCReturning
  SerialBox <- MCSerialBox
  MaxTasks = 3
  Main = Main
  None = None
INVARIANTS
  TypeOK
  CancelMeansNever
  SerialOneAtATime
  EndsOnce
PROPERTIES
  EveryTaskEnds
CHECK_DEADLOCK FALSE
