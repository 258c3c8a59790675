SPECIFICATION FairSpec
CONSTANTS
  ClientChunks = 2
  ListenerChunks = 1
  ListenerKinds = {"kept", "socket", "exec"}
  Idle = {"listener"}
  MayBreak = TRUE
INVARIANTS
  ResolvedIsComplete
  ResolvedIsQuiet
PROPERTIES
  BothEndsResolve
  RejectedIsSealed
CHECK_DEADLOCK FALSE
