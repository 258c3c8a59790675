SPECIFICATION Spec
CONSTANTS
  ClientChunks = 1
  ListenerChunks = 1
  ListenerKinds = {"exec"}
  Idle = {}
  MayBreak = TRUE
INVARIANT
  ListenerSurvives
CHECK_DEADLOCK FALSE
