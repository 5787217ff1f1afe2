SPECIFICATION Spec
CONSTANTS
  Tasks = {t1, t2}
  Pairs = {p1, p2}
  None = None
INVARIANTS
  TypeOK
PROPERTIES
  EveryCallEnds
  ExpiredSignsOut
CHECK_DEADLOCK FALSE
