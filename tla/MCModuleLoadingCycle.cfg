CONSTANTS
  a = a
  b = b
  c = c
  Module <- Modules
  Variants <- CycleVariants
  Programs = {a, c}
  NONE = NONE
  MaxEdits = 2
  MaxClock = 1
  MaxDepth = 3

SPECIFICATION Spec

PROPERTY CyclesAreReal
