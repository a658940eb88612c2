SPECIFICATION FairSpec
CONSTANTS
  Total = 3
  Sizes = {0, 2}
  Room = 2
  Waits <- MCWaits
  SecMs = 2
  MaxTime = 5
  MaxFaults = 1
INVARIANTS StreamKept WaitsInTime
PROPERTIES CallsReturn
CHECK_DEADLOCK FALSE
