SPECIFICATION Spec
CONSTANTS
  MaxConns = 1
  MaxSteps = 2
  Active = {1}
  Workers = {w1, w2}
  Owner = owner
  EarlyPeers = FALSE
  AcceptFails = {1}
  Ends = "destroy"
PROPERTY ReactorEnds
CHECK_DEADLOCK FALSE
