\* Two producers, a permanent and a temporary worker and two cancellers over
\* two tasks and two priorities.
SPECIFICATION FairSpec
CONSTANTS
  Tasks = {t1, t2}
  MaxPriorityNum = 2
  Producers = {p1, p2}
  Workers = {w1}
  TempWorkers = {x1}
  Cancellers = {c1, c2}
  MaxTotal = 2
INVARIANTS ExactlyOnePlace
PROPERTIES ImplementsStoppableQueue EventuallyLeaves
CHECK_DEADLOCK FALSE
