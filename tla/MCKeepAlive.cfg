CONSTANTS
  Sec = 3
  Jitter = 1
  Delay = 2
  Start = 2
  MaxTime = 60
SPECIFICATION Spec
INVARIANTS
  TypeOK
  NeverDropped
  PingsInTime
  DeadFound
CHECK_DEADLOCK FALSE
