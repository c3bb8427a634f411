SPECIFICATION MCSpec
CONSTANTS
  Jobs = {j1, j2, u}
  Untagged = {u}
  Nobody = Nobody
  Orphan = Orphan
  Exptime = 3
  LastRound = 2
  RedisFails = TRUE
  RivalJobs = {a1, a2, a3}
  RivalExptime = 5
  RivalLastRound = 4
  Clients = {c1, c2}
  Guids = {g1, g2, g3}
  NoKey = NoKey
  TTL = 3
  Drift = 1
  RetryCount = 3
INVARIANTS
  OverlapOnlyWhenOverrun
  ShortHandlerOwnsKey
  NothingDroppedByRivals
PROPERTIES
  EveryMessageSettles
  EveryKeyGoes
