SPECIFICATION Spec
CONSTANTS
  Workers = {w1, w2, w3}
  InitWorkers = {w1, w2}
  MaxTasks = 3
  Sizes = {3}
  Stops = TRUE
INVARIANTS EveryTaskOnce WorkHasWorker
PROPERTY TasksRun
CHECK_DEADLOCK FALSE
