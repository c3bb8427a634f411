SPECIFICATION MCSpec
CONSTANTS
  n1 = n1
  n2 = n2
  n3 = n3
  Nodes = {n1, n2, n3}
  Hashes <- MCHashes
  Points <- MCPoints
  KetamaPoints <- MCKetamaPoints
  Roles = {r1, r2}
  Readers = {p1, p2}
  MaxLog = 2
  Users = {u1}
  Tokens = {j1, j2}
  UserOf <- OneUser
  RoleIds = {g1, g2}
  Tabs = {b1, b2}
  Expiration = 2
  Threads = {t1, t2, t3}
  Conns = {k1, k2, k3, k4, k5}
  NoConn = NoConn
  DefaultPoolSize = 2
  MaxHeld = 2
  Callers = {t1, t2, t3}
  MinSize = 1
  MaxSize = 2
  NoObject = NoObject
  FuncFails = TRUE
CHECK_DEADLOCK FALSE
SYMMETRY Symmetry
INVARIANTS
  FindsClockwise
  RingIsRebuilt
  ProcessesAgree
  ExpiringListIsComplete
  TokensKeepTheirWorth
  CountIsExact
  PoolIsBounded
  RentIsExclusive
  EveryObjectIsOnce
  SpinLockHolds
PROPERTIES
  MovesOnlyItsOwn
