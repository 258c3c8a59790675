SPECIFICATION FairSpec
CONSTANTS
  Keys = {"escape", "q"}
  MaxKeys = 3
  MaxOutput = 1
  MaxResizes = 1
  MayFill = {"listener"}
INVARIANTS
  FailsOnlyIfCut
  KeysInOrder
  KeysBeforeQuit
  OutputShown
PROPERTIES
  SessionEnds
CHECK_DEADLOCK FALSE
