SPECIFICATION Spec
CONSTANTS
  Threads = {t1, t2}
  Admins = {r1}
  Files <- MCFiles
  LogNames = {"x"}
  Levels = {1}
  Span = 2
  MaxTime = 4
  MaxApps = 2
  MaxEdits = 1
  NULL = NULL
INVARIANTS AppendersCounted
PROPERTIES NoLineInOlderFile EventuallyDeleted
CHECK_DEADLOCK FALSE
