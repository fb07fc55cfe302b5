SPECIFICATION Spec
CONSTANTS
  MaxId = 2
  LoggedStatuses = {"UNRESOLVED", "COMMIT", "COMMIT_DONE", "ABORT_DONE"}
  LoggedNexts = {2, 3}
  MaxLen = 4
  CrashWhenEmpty = FALSE
INVARIANT RecordsInv
PROPERTY LogIsAtomic
