SPECIFICATION Spec
CONSTANTS
  Conns = {k1}
  Convs = {c1, c2}
  MaxFrames = 4
  Capacity = 2
INVARIANTS
  TypeOK
  ForwardedToMembers
  InOrder
PROPERTIES
  FramesArrive
CHECK_DEADLOCK FALSE
