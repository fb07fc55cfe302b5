SPECIFICATION Spec
CONSTANTS
  P = {1, 2}
  Keys = {k1}
  Vals = {v1}
  Nil = Nil
  MaxId = 2
  InitNext = 1
  FirstIds = {1}
  EarlyClients = FALSE
  NextIds <- MCNextIds
  InitUp = {1, 2}
  InitDb <- EmptyDb
  Size <- LongestSize
  MayRefuse = TRUE
  MaxTimeouts = 0
  MaxKills = 3
  MaxCrashes = 0
  MaxFaults = 3
INVARIANT Replicas
