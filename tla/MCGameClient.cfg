CONSTANTS
  NoMsg = NoMsg
  Results = {"Success", "Queue", "Logined"}
  Others = {"Unknown", "Garbage"}
  MaxFrames = 2
  MaxStuck = 2
SPECIFICATION FairSpec
INVARIANTS
  TypeOK
  Chains
  LoginFirst
  Found
PROPERTIES
  HangsUp
  FallsSilent
CHECK_DEADLOCK FALSE
