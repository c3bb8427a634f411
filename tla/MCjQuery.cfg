SPECIFICATION MCSpec
CONSTANTS
  Functions = {f, g}
  Nothing = Nothing
  MaxAdds = 3
  MaxFires = 2
  Requests = {r1, r2}
  MaxDeferreds = 3
  MaxForeign = 2
  MaxFollows = 3
  Depth = 2
  MaxHandlers = 2
  MaxEvents = 2
  MaxAnimations = 3
CHECK_DEADLOCK FALSE
SYMMETRY Symmetry
INVARIANTS
  EveryoneHearsOnce
  FirstWordCounts
  RequestsEndOnce
  HandlersInOrderOnce
  QueueRunsDry
