SPECIFICATION Spec
CONSTANTS
  Clients = {k1, k2}
INVARIANTS
  ConnectedIsOnline
CHECK_DEADLOCK FALSE
