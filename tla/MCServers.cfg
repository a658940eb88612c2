SPECIFICATION MCSpec
CONSTANTS
  c1 = c1
  c2 = c2
  c3 = c3
  s1 = s1
  Clients = {c1, c2, c3}
  Servers = {s1}
  ThreadCount = 2
  Period = 1
  TimerMax = 1
  WaitMax = 1
  RingCap = 4
  ClientCmds <- MCClientCmds
  ServerCmds <- MCServerCmds
  Start = 10
  Plans <- MCPlans
  NWorkers = 2
  Phones = {"p", "q"}
  Texts = {"x", "y"}
  MaxRows = 2
INVARIANTS AnswersTrue SessionsAlive SilentClosed CommandsHandled
CHECK_DEADLOCK FALSE
