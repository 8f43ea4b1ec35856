SPECIFICATION Spec
CONSTANTS
  Types = {event, mutex}
  MaxObjects = 4
  MaxRefs = 2
SYMMETRY Symmetry
INVARIANTS
  RefCountIsHolders
  NobodyUsesDestroyed
CHECK_DEADLOCK FALSE
