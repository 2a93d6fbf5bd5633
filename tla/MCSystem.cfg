CONSTANTS
  Own = Own
  Other = Other
  Uid = Uid
  NoUid = NoUid
  NoSession = NoSession
  IdMod = 4
  NoMsg = NoMsg
  MaxFrames = 2
  MaxStuck = 0
  MaxExpiries = 1
  Window = 1
SPECIFICATION FairSpec
INVARIANTS
  AnswerTrue
PROPERTIES
  ClientSpec
  ServerSteps
  EndTogether
CHECK_DEADLOCK FALSE
