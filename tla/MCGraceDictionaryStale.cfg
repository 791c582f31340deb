CONSTANTS
  ka = ka
  kb = kb
  kc = kc
  v1 = v1
  v2 = v2
  Key = {ka, kb, kc}
  Value = {v1, v2}
  UNUSED = UNUSED
  REMOVED = REMOVED
  ABSENT = ABSENT
  Capacity = 8
  Programs <- RemovesColliding

SPECIFICATION Spec

PROPERTIES
  RemovedIsGone
