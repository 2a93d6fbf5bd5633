CONSTANTS
  ByteMod = 4
  HalfMod = 16
  UserMax = 12
  PipeMax = 32
  IdSize = 2
  CheckSize = 1
  Refused = Refused
  Nobody = Nobody
  Messages <- MCMessages
  Heads <- MCHeads
SPECIFICATION Spec
INVARIANTS
  DataExact
CHECK_DEADLOCK FALSE
