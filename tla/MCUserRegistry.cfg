CONSTANTS
  s1 = s1
  s2 = s2
  s3 = s3
  s4 = s4
  u1 = u1
  u2 = u2
  Sessions = {s1, s2, s3, s4}
  Uids = {u1, u2, NoUid}
  NoUid = NoUid
  NoSession = NoSession
  LoginTypes = {"Normal"}
  IdMod = 3
SYMMETRY Symmetry
SPECIFICATION Spec
INVARIANTS
  TypeOK
  Exclusive
  Registered
  TableSound
CHECK_DEADLOCK FALSE
