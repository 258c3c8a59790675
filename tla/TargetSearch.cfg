CONSTANTS
  Timeout = 6
  QueryCap = 2
  Pause = 1
  Routes = {r1, r2}
SPECIFICATION FairSpec
INVARIANTS InTime NotMissed DialsAreSettled
PROPERTY SearchEnds
CHECK_DEADLOCK FALSE
