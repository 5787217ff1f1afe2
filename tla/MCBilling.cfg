SPECIFICATION Spec
CONSTANTS
  Events = {e1, e2}
  Rows = {s1, s2}
  Reqs = {r1, r2}
  Simulated = Simulated
SYMMETRY Interchangeable
INVARIANTS
  TypeOK
  AcknowledgedMeansApplied
  SingleActiveRow
  TierFollowsRows
CHECK_DEADLOCK FALSE
