SPECIFICATION CSpec
CONSTANTS
  P = {1, 2}
  Keys = {k1}
  Vals = {v1}
  Nil = Nil
  MaxId = 1
  InitNext = 1
  FirstIds = {1, 2}
  EarlyClients = TRUE
  NextIds <- MCNextIds
INVARIANT Agreement
