SPECIFICATION Spec
CONSTANTS
  MaxConns = 2
  MaxSteps = 4
  Active = {1}
  Workers = {w1, w2}
  Owner = owner
  EarlyPeers = FALSE
  AcceptFails = {}
  Ends = "none"
INVARIANT HandlersDoNotBlock
CHECK_DEADLOCK FALSE
