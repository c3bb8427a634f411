SPECIFICATION FairSpec
CONSTANTS
  Requests = {r1}
  NoReply = NoReply
  LastRun = 4
  Flaky = {}
  Failing = {}
  MaxCrashes = 0
CHECK_DEADLOCK FALSE
PROPERTIES
  RequestReturns
