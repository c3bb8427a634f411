SPECIFICATION Spec
CONSTANTS
  Requests = {r1, r2}
  NoReply = NoReply
  LastRun = 4
  Flaky = {}
  Failing = {}
  MaxCrashes = 0
CHECK_DEADLOCK FALSE
INVARIANTS
  OwnReply
