SPECIFICATION Spec
CONSTANTS
  MaxConns = 2
  MaxSteps = 3
  Active = {1}
  Workers = {w1, w2}
  Owner = owner
  EarlyPeers = FALSE
  AcceptFails = {2}
  Ends = "stop"
INVARIANTS OwnDescriptor NotForgotten NeverBlocks FindsRequest
PROPERTY ServesAndStops
CHECK_DEADLOCK FALSE
