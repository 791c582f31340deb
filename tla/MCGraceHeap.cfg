CONSTANTS
  Object = {o1, o2, o3}
  NULL = NULL
  InitialSize = 3
  Period = 2
  StackSize = 1
  Mode = "free"
  MaxPaused = 0
  MaxRefs = 1

SPECIFICATION Spec
SYMMETRY AddressSymmetry
CHECK_DEADLOCK FALSE

INVARIANTS
  TableConsistent
  HolesCounted
  Registered
  NoDangling
  TableBounded
PROPERTIES
  CollectsExactly
