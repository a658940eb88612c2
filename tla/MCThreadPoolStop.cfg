SPECIFICATION FairSpec
CONSTANTS
  Master = master
  Permanent = {w1}
  NTemp = 1
  Producers = {p1}
  BusyControl = TRUE
  TaskQueMaxSize = 1
  MaxAdds = 2
PROPERTIES StopReturns
CHECK_DEADLOCK FALSE
