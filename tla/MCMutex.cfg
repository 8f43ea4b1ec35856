SPECIFICATION FairSpec
CONSTANTS
  Threads = {t1, t2, t3}
  NoThread = NoThread
  MaxOwn = 2
  AllocMayFail = FALSE
INVARIANTS
  TypeOK
  MutualExclusion
  NoLostHandOff
  WaitingNumCounts
  NoPanic
  TimerWithinCall
PROPERTIES
  ImplementsHandOffLock
  TimedWaitReturns
  DeleteReleasesWaiters
