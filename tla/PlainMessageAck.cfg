SPECIFICATION PFairSpec
CONSTANTS
  Messages = {m1}
  FlakyMessages = {}
  H = 2
  LastFailed = 4
  MaxEnds = 0
CHECK_DEADLOCK FALSE
PROPERTIES
  AcknowledgedByHand
