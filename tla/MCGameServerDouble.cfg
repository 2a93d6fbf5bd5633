CONSTANTS
  s1 = s1
  s2 = s2
  s3 = s3
  u1 = u1
  Sessions = {s1, s2, s3}
  Uids = {u1}
  NoUid = NoUid
  NoSession = NoSession
  NoMsg = NoMsg
  LoginTypes = {"Normal"}
  IdMod = 4
  Others = {}
  Lossy = {s1}
  Silent = {s1}
  MaxFrames = 1
  MaxLogins = 1
SPECIFICATION Spec
INVARIANTS
  OneSessionPerUid
CHECK_DEADLOCK FALSE
