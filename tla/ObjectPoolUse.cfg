SPECIFICATION OSpec
CONSTANTS
  Callers = {t1, t2}
  MinSize = 1
  MaxSize = 1
  NoObject = NoObject
  FuncFails = FALSE
CHECK_DEADLOCK FALSE
INVARIANTS
  OneUserPerObject
