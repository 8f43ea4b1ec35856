SPECIFICATION FairSpec
CONSTANTS
  t1 = t1
  t2 = t2
  t3 = t3
  Threads = {t1, t2, t3}
  NoThread = NoThread
  Priority <- TwoLevels
  MaxSem = 2
INVARIANTS
  NoLostWakeUp
  QueueIsTheWaiters
PROPERTIES
  ServedByPriority
  TimedWaitReturns
CHECK_DEADLOCK FALSE
