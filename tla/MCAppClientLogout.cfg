SPECIFICATION Spec
CONSTANTS
  Tasks = {t1}
  Pairs = {p1, p2}
  None = None
INVARIANTS
  LogoutRevokes
CHECK_DEADLOCK FALSE
