CONSTANTS
  s1 = s1
  u1 = u1
  Sessions = {s1}
  Uids = {u1}
  NoUid = NoUid
  NoSession = NoSession
  NoMsg = NoMsg
  LoginTypes = {"Normal"}
  IdMod = 4
  Others = {"Ping", "Unknown", "Garbage"}
  Lossy = {s1}
  Silent = {s1}
  MaxFrames = 3
  MaxLogins = 2
SPECIFICATION FairSpec
INVARIANTS
  TypeOK
  ReadChain
  WriteChain
  Watched
  CloseBounded
PROPERTIES
  Released
  LoggedOut
CHECK_DEADLOCK FALSE
