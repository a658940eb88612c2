SPECIFICATION Spec
CONSTANTS
  Keys = {1, 2, 3, 4, 5}
  Values = {1, 2}
  Hash <- MCHash
  Primes <- MCPrimes
  Absent = absent
  Nodes <- MCNodes
  Elems = {a, b}
  MaxLen = 4
  PoolThreads = {t1, t2, t3}
  groupnum = 2
  escalate = 2
  MaxBufs = 2
  m_cap = 4
  MaxRecv = 3
  StreamLen = 12
  Bytes = {0, 1, 77, 128, 255}
  MaxBytes = 5
  DesKeys = {2, 9, 13}
  WeakKeys <- MCWeakKeys
  MaxMsg = 9
  SThreads = {s1, s2}
  bucketnum = 3
  escal = 2
  MaxChunks = 2
  MaxOps = 4
  W = 10
  Lengths = {0, 1, 8, 47, 55, 56, 63, 64, 65, 128, 129, 200}
  FileChunk = 60
  MaxMessage = 264
  Registries = {r1, r2}
  Callers = {k1, k2}
  MaxJobs = 2
  Ops <- MCOps
  MaxRecords = 2
INVARIANTS JobsRecycledOnce ContainersAgree EveryBlockOnce StreamInOrder CodersAgree
CHECK_DEADLOCK FALSE
