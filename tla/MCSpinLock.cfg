SPECIFICATION SpinSpec
CONSTANTS
  CPUs = {c1, c2, c3}
  NoCPU = NoCPU
  Threads = {t1, t2}
  NoThread = NoThread
  Plain = {e1}
  Mutexes = {m1}
  Conditions = {v1}
  TimedObjects = {e1}
  System = System
  KernelThreadManager = KernelThreadManager
  NoObject = NoObject
SYMMETRY Symmetry
INVARIANTS NoCircularWait NoDoubleWake NobodyStranded
