SPECIFICATION MembersSpec
CONSTANTS
  Users = {u1, u2}
  Reqs = {r1, r2}
  Photos = {p1, p2}
  Bodies <- SomeBodies
  Emojis = {j1}
  Limit = 1
  MaxMsgs = 2
  AlbumIds = {a1}
  Never = Never
  AlbumTime = 1
  AlbumCalls = 5
  MaxTime = 3
  LimitCalls = 5
  Digits = {p1, p2}
  MaxCodes = 2
  Max = 2
  Permits = 1
  Refill = 1
  Backends = {"redis", "memory"}
  Enabled = TRUE
  Guests = {u1, u2, u3}
  EventIds = {e1}
  Sizes = {0, 1}
  EventCalls = 5
  Nested = {"n1"}
  Columns = {}
  Lists = {"l1"}
  Edits <- SomeEdits
  CardCalls = 2
  MaxPhotos = 1
  MaxCalls = 4
  MaxFaults = 1
  Nobody = Nobody
  Nothing = Nothing
SYMMETRY Interchangeable
INVARIANTS
  PartsTypeOK
  OnceOnly
  HistoryIsComplete
  
  TriesBounded
  NoKeyForever
  BucketHolds
  GoingBounded
  ShownWhenDone
CHECK_DEADLOCK FALSE
