SPECIFICATION Spec
CONSTANTS
  Users = {u1, u2}
  EventIds = {e1}
  Reqs = {r1}
  Sizes = {0}
  MaxCalls = 2
  Nobody = Nobody
SYMMETRY Interchangeable
INVARIANTS
  ListedAreNear
CHECK_DEADLOCK FALSE
