SPECIFICATION MCSpec
CONSTANTS
  Requests = {r1, r2}
  NoReply = NoReply
  LastRun = 0
  Flaky = {r1}
  Failing = {r2}
  MaxCrashes = 0
  Messages = {m1, m2}
  FlakyMessages = {m1}
  H = 2
  LastFailed = 0
  MaxEnds = 1
CHECK_DEADLOCK FALSE
INVARIANTS
  HandledOrKept
  ResultWasStored
  PlainIsKeptInOrder
PROPERTIES
  SentIsHandled
  AllHandlersCalled
