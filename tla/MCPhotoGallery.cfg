SPECIFICATION Spec
CONSTANTS
  Photos = {p1, p2, p3, p4}
  Reqs = {r1, r2, r3}
  NoPhoto = NoPhoto
SYMMETRY Interchangeable
INVARIANTS
  TypeOK
  
PROPERTIES
  PrimaryIsKept
CHECK_DEADLOCK FALSE
