SPECIFICATION Spec
CONSTANTS
  Threads = {t1, t2, t3}
  Priority <- EqualPriority
  Messages = {m1, m2}
  NoMessage = NoMessage
  MaxSize = 2
SYMMETRY Symmetry
INVARIANTS
  SendersWaitOnFull
  QueuesAreTheWaiters
PROPERTIES
  ImplementsBoundedChannel
CHECK_DEADLOCK FALSE
