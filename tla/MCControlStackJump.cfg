CONSTANTS
  StackSize = 8
  MaxFrames = 6
  MaxHandlers = 2
  Programs <- JustTries

SPECIFICATION Spec
CHECK_DEADLOCK FALSE

INVARIANTS
  NoUndefinedJump
