SPECIFICATION FairSpec
CONSTANTS
  Threads = {t1, t2}
  NoThread = NoThread
INVARIANTS
  FreeMeansNobodyWaits
PROPERTIES
  TimedWaitReportsSignal
  SignalReleasesAll
CHECK_DEADLOCK FALSE
