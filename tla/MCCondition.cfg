SPECIFICATION CondSpec
CONSTANTS
  t1 = t1
  t2 = t2
  t3 = t3
  Threads = {t1, t2, t3}
  NoThread = NoThread
  MaxOwn = 2
  AllocMayFail = FALSE
  Priority <- MCPriority
SYMMETRY Symmetry
INVARIANTS
  CountIsWaiters
PROPERTIES
  ReturnsOwning
  TimeOutMeansNoSignal
  ImplementsHandOffLock
CHECK_DEADLOCK FALSE
