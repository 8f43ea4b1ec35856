SPECIFICATION FairSpec
CONSTANTS
  c1 = c1
  c2 = c2
  i1 = i1
  i2 = i2
  w1 = w1
  w2 = w2
  w3 = w3
  CPU = {c1, c2}
  Workers = {w1, w2, w3}
  IdleKernelThread <- MCIdle
  Root = w1
  Priority <- MCPriority
  Placement <- MCPlacement
  Receivers = {w1, w3}
  MAX_KTHREAD_MSG_NUM = 1
  NoThread = NoThread
INVARIANTS
  EveryThreadIsInItsPlace
  NobodyWaitsInVain
PROPERTY
  ReadyThreadRuns
CHECK_DEADLOCK FALSE
