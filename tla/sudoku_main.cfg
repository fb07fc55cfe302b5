SPECIFICATION Spec
CONSTANTS
  Workers = {w1, w2, w3}
  Box = 2
  Text <- FiveLines
  MaxNames = 2
INVARIANTS InOrder AnswersSolve NothingLost NobodySleepsInVain
PROPERTY Exits
CHECK_DEADLOCK FALSE
