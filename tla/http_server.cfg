SPECIFICATION Spec
CONSTANTS
  Clients = {c1, c2}
  Workers = {w1, w2}
  Requests <- MCRequests
INVARIANTS OneOwner AnsweredOnce
CHECK_DEADLOCK FALSE
PROPERTY Served
