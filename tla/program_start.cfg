SPECIFICATION Spec
CONSTANTS
  Options <- SmallOptions
  FileLines <- SmallLines
  MaxLines = 4
  Garbage = {0, 9}
  Comment = Comment
  Unsplit = Unsplit
  Malformed = Malformed
INVARIANTS StartedAsAsked NothingWrongStarts
CHECK_DEADLOCK FALSE
