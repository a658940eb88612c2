SPECIFICATION FairSpec
CONSTANTS
  Master = master
  Permanent = {w1}
  NTemp = 1
  Producers = {p1}
  BusyControl = TRUE
  TaskQueMaxSize = 1
  MaxAdds = 3
INVARIANTS StopDrains FreeAfterJoin
PROPERTIES TasksAndStopGoOn
CHECK_DEADLOCK FALSE
