SPECIFICATION CFairSpec
CONSTANTS
  P = {1, 2}
  Keys = {k1}
  Vals = {v1}
  Nil = Nil
  MaxId = 3
  InitNext = 0
  FirstIds = {1, 2}
  EarlyClients = FALSE
  NextIds <- MCNextIds
INVARIANTS Agreement AnswerMatchesDecision IteratorsValid CInv
PROPERTIES IdsNotReused CommitOnlyPrepared RequestEnds RecoveryEnds
