SPECIFICATION QueueSpec
CONSTANTS
  Adders = {a1, a2}
  Consumers = {g1}
  MaxCnt = 2
  MaxSize = 3
  BlockOps = 2
  MaxAdds = 2
  MaxStarts = 3
  MaxDumps = 2
  MaxDiskFaults = 1
  MaxFiles = 6
SYMMETRY Symmetry
INVARIANTS Durable PermitFindsTask
CHECK_DEADLOCK FALSE
