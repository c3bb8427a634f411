SPECIFICATION Spec
CONSTANTS
  N = 3
  Clients = {c1, c2}
  Guids = {g1, g2, g3, g4}
  NoKey = NoKey
  TTL = 3
  Drift = 1
  RetryCount = 2
SYMMETRY Symmetry
INVARIANTS
  MutualExclusion
PROPERTIES
  OnlyOwnerDeletes
  Implements
  ReleaseIsWhole
