SPECIFICATION Spec
CONSTANTS
  Workers = {w1, w2}
  InitWorkers = {w1, w2}
  MaxTasks = 1
  Sizes = {1}
  Stops = TRUE
INVARIANT KeepsWorkers
PROPERTY StopReturns
CHECK_DEADLOCK FALSE
