CONSTANTS
  StackSize = 8
  MaxFrames = 6
  MaxHandlers = 2
  Programs <- AllKinds

SPECIFICATION Spec
CHECK_DEADLOCK FALSE

INVARIANTS
  TypeOK
  DepthRestored
  InnermostHandler
  HandlersCounted
  FinallyBelongsToTry
  FinallyAlwaysApplied
  JumpsWhileTriesComplete
PROPERTIES
  ReturnGoesHome
