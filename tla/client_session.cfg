SPECIFICATION Spec
CONSTANTS
  MaxMessages = 3
  Messages <- MCMessages
  Streams <- MCStreams
INVARIANTS FramingIndependent RepliesInOrder
PROPERTY SessionEnds
CHECK_DEADLOCK FALSE
