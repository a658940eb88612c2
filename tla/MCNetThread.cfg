CONSTANTS
    c1 = c1
    c2 = c2
    Conns = {c1, c2}
    NoCon = NoCon
    MsgLen = 2
    TimerIds = {1, 2}
    Timeouts = {1, 5}
    Second = 2
    MaxWait = 4
    MaxOneLoop = 2
    Plans <- TrafficPlans
SPECIFICATION Spec
INVARIANTS NothingDangling InOrder TimersOnTime
PROPERTIES PostedOpsRun
CHECK_DEADLOCK FALSE
