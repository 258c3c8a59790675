SPECIFICATION FairSpec
CONSTANTS
  MaxChunks = 2
  LeavesOnFinalize = {"client"}
INVARIANTS
  InOrder
  EndIsComplete
PROPERTIES
  ImplementsDuplexStream
  NobodyIsStuck
CHECK_DEADLOCK FALSE
