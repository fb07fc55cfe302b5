SPECIFICATION Spec
CONSTANTS
  P = {1, 2}
  Keys = {k1}
  Vals = {v1}
  Nil = Nil
  MaxId = 2
  InitNext = 1
  FirstIds = {1}
  EarlyClients = FALSE
  NextIds <- MCNextIds
  InitUp = {1, 2}
  InitDb <- EmptyDb
  Size <- LongestSize
  MayRefuse = TRUE
  MaxTimeouts = 2
  MaxKills = 2
  MaxCrashes = 2
  MaxFaults = 2
INVARIANTS AppliedIsCommitted AppliedOnce AnswerMatchesStores RightCommand ReplicasFailStop
