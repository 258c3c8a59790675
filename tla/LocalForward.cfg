SPECIFICATION FairSpec
CONSTANTS
  Conns = {c1, c2}
INVARIANTS
  NothingIsLost
PROPERTIES
  CloseFinishes
  LocalSeesTheEnd
  StreamFollowsSocket
CHECK_DEADLOCK FALSE
