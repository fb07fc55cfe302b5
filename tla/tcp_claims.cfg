SPECIFICATION Spec
CONSTANTS
  MaxConns = 2
  MaxSteps = 4
  Active = {1}
  Workers = {w1, w2}
  Owner = owner
  EarlyPeers = TRUE
  AcceptFails = {2}
  Ends = "stop"
INVARIANTS RequestOnOwnConnection ReactorHasRequests ClientsRead DisconnectWaits StopDisconnectsAll
CHECK_DEADLOCK FALSE
