\* Two workers on a queue that holds two messages (m_max_size + 1); one client, eight ways.
SPECIFICATION MainSpec
CONSTANTS
  Workers = {w1, w2}
  MaxMsgSize = 1
  MaxPackets = 4
  Clients <- MCClients
  RingCap = 7
  PeekMax = 6
  Period = 1
  Start = 10
INVARIANTS StoppedAfterWork RequestsWhole SilentClosed NothingDeletedInUse
PROPERTIES RequestsProcessed
CHECK_DEADLOCK FALSE
