SPECIFICATION FairSpec
CONSTANTS
  Clients = {k1, k2}
INVARIANTS
  TypeOK
  LoserIsStopped
PROPERTIES
  ConnectFinishes
  StoppedIsGone
CHECK_DEADLOCK FALSE
