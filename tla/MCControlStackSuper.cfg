CONSTANTS
  StackSize = 8
  MaxFrames = 6
  MaxHandlers = 2
  Programs <- Supers

SPECIFICATION Spec
CHECK_DEADLOCK FALSE

PROPERTY ReturnGoesHome
