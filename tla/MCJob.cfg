SPECIFICATION FairSpec
CONSTANTS
  c1 = c1
  c2 = c2
  c3 = c3
  w1 = w1
  w2 = w2
  Children = {c1, c2, c3}
  Workers = {w1, w2}
  Owner = owner
  Combiner = "cancels"
  Plans <- MCPlans
  MayCancel = TRUE
  RecursiveMutex = TRUE
  MaxAttempts = 3
INVARIANTS AllFinishLast DeleteWaits
PROPERTIES DeleteReturns
CHECK_DEADLOCK FALSE
