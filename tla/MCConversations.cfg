SPECIFICATION Spec
CONSTANTS
  Users = {u1, u2, u3}
  Convs = {c1}
  Reqs = {r1, r2}
  MaxBlocks = 2
  NoUser = NoUser
  NoConv = NoConv
SYMMETRY Interchangeable
INVARIANTS
  TypeOK
  BlockSeparates
  PairStaysPair
PROPERTIES
  RestHonoursBlocks
CHECK_DEADLOCK FALSE
