CONSTANTS
  c1 = c1
  c2 = c2
  c3 = c3
  Conns = {c1, c2, c3}
  PoolSizes = {0, 2}
  UidTos = {2, 3}
  IntMax = 3
  MaxMsgs = 1
  Nothing = Nothing
SPECIFICATION FairSpec
INVARIANTS
  TypeOK
  Whole
  EachUser
  InitFirst
  OnlyEarly
  Spread
PROPERTIES
  Initialised
CHECK_DEADLOCK FALSE
