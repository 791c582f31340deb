CONSTANTS
  a = a
  b = b
  c = c
  Module <- Modules
  Variants <- MCVariants
  Programs = {a, b}
  NONE = NONE
  MaxEdits = 1
  MaxClock = 2
  MaxDepth = 3

SPECIFICATION Spec

INVARIANTS
  TypeOK
  GctMatches
PROPERTIES
  IsBuild
  CompilationsEnd
