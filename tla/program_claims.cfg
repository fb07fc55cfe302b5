SPECIFICATION Spec
CONSTANTS
  Options <- SmallOptions
  FileLines <- SmallLines
  MaxLines = 4
  Garbage = {0, 9}
  Comment = Comment
  Unsplit = Unsplit
  Malformed = Malformed
INVARIANTS WorkersAsAsked AddressDefault
CHECK_DEADLOCK FALSE
