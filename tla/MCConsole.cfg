SPECIFICATION ConsoleSpec
CONSTANTS
  Staff = {m1}
  Sids = {d1, d2}
  Reqs = {r1, r2}
  Permissions = {k1, n1}
  Granted <- StaffGrants
  LockAfter = 2
  MaxFailed = 3
  MaxCalls = 2
  MaxFaults = 1
  NoStaff = Nobody
  NoSid = Nobody
  Agents = {r1, r2}
  Features = {f1}
  Limit = 1
  Cases <- SomeCases
  MaxRows = 3
  MaxWrites = 2
  m1 = m1
  k1 = k1
  n1 = n1
  n2 = n2
  c1 = c1
  c2 = c2
  Callers = {c1, c2}
  CallersMay <- SomeGrants
  Keys = {k1, k2}
  KeyNames = {n1, n2}
  KeyFor <- SomeKeys
  Values = {u1, u2}
  RowIds = {d1, d2}
  Nothing = Nothing
  People = {u1, u2}
  Devices = {d1, d2}
  CampaignIds = {j1}
  Configured = TRUE
  Nobody = Nobody
SYMMETRY Interchangeable
INVARIANTS
  PartsTypeOK
  GuessesBounded
  EffectsAreAudited
  LateCallsAreRefused
  SanctionsAreRecorded
  
  RollbackIsHonest
  SentMeansAttempted
CHECK_DEADLOCK FALSE
