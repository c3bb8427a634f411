SPECIFICATION JSpec
CONSTANTS
  TreeRoot = TreeRoot
  Missing = Missing
  Ids = {a, b, c}
  NewIds = {new}
  Threads = {TRUE, FALSE}
  Threes = {TRUE}
  MaxOps = 2
INVARIANTS
  ModelIsATree
  ThreeState
  QuietMeansDone
CHECK_DEADLOCK FALSE
SYMMETRY Symmetry
