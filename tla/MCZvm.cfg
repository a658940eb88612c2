SPECIFICATION MCSpec
CONSTANTS
  Vars = {v1, v2}
  Classes <- MCClasses
  MaxObjs = 3
  MaxOf <- MCMaxOf
  NULL = NULL
  Stacks = {s1, s2, s3}
  Writers = {s1}
  Entries = {e1, e2}
  Low <- MCLow
  NoEntry = NoEntry
  MaxDepth = 1
  Ops <- MCOps
  NoOp = NoOp
  Size = 3
  Handlers <- MCHandlers
  InitEnds <- MCInitEnds
  FrameMax = 2
  OpStackMax = 1
  W = 8
  MaxMade = 5
  MaxCalls = 2
SYMMETRY Symmetry
INVARIANTS CountExact SharedSafely ResultTells
PROPERTIES BreaksOnlyOnSecondVisit OnceUntilCaughtAgain
CHECK_DEADLOCK FALSE
