SPECIFICATION FairSpec
CONSTANTS
  P = {1, 2, 3}
  Keys = {k1}
  Vals = {v1}
  Nil = Nil
  MaxId = 2
  InitNext = 0
  FirstIds = {1}
  EarlyClients = FALSE
  NextIds <- MCNextIds
  InitUp = {1}
  InitDb <- EmptyDb
  Size <- LongestSize
  MayRefuse = TRUE
  MaxTimeouts = 0
  MaxKills = 0
  MaxCrashes = 0
  MaxFaults = 0
PROPERTIES NoHandlerThrows Rejoins UnfinishedGetsDone
