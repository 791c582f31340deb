CONSTANTS
  StackSize = 8
  MaxFrames = 6
  MaxHandlers = 2
  Programs <- Escapes

SPECIFICATION Spec
CHECK_DEADLOCK FALSE

INVARIANTS
  FinallyAlwaysApplied
