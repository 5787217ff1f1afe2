SPECIFICATION Spec
CONSTANTS
  Users = {u1}
  Tokens = {t1, t2, t3}
  Reqs = {r1, r2}
  Passwords = {p1, p2}
  StaffStatus = {"active", "banned"}
  NoUser = NoUser
  NoToken = NoToken
  NoPassword = NoPassword
SYMMETRY Interchangeable
INVARIANTS
  TypeOK
  OneBearerPerLogin
  OldPasswordCutOff
PROPERTIES
  InactiveOnlyShrinks
  ImplementsRotation
CHECK_DEADLOCK FALSE
