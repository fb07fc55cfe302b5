SPECIFICATION Spec
CONSTANTS
  MaxMessages = 2
  Messages <- MCMessages
  Streams <- MCStreams
INVARIANT WaitsOnlyForIncomplete
CHECK_DEADLOCK FALSE
