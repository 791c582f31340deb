CONSTANTS
  Object = {o1, o2, o3}
  NULL = NULL
  InitialSize = 1
  Period = 1
  StackSize = 1
  Mode = "free"
  MaxPaused = 1
  MaxRefs = 0

SPECIFICATION Spec
CHECK_DEADLOCK FALSE

INVARIANTS
  TypeOK
  NoDangling
PROPERTIES
  GarbageIsReclaimed
