SPECIFICATION SpinSpec
CONSTANTS
  CPUs = {c1, c2}
  NoCPU = NoCPU
  Threads = {t1, t2}
  NoThread = NoThread
  Plain = {e1}
  Mutexes = {m1}
  Conditions = {}
  TimedObjects = {m1}
  System = System
  KernelThreadManager = KernelThreadManager
  NoObject = NoObject
SYMMETRY Symmetry
INVARIANT NoCircularWait
CHECK_DEADLOCK FALSE
