CONSTANTS
  e0 = e0
  e1 = e1
  e2 = e2
  e3 = e3
  e4 = e4
  e5 = e5
  e6 = e6
  e7 = e7
  Element = {e0, e1, e4}
  UNUSED = UNUSED
  REMOVED = REMOVED
  HashOf <- HashValues
  Capacity = 8
  LazySource = TRUE

SPECIFICATION Spec

PROPERTIES
  FailFast
