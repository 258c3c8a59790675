SPECIFICATION FairSpec
CONSTANTS
  Clients = {c1, c2}
INVARIANTS
  OneShotServesOne
  LoserIsCancelled
PROPERTIES
  LoserEndsAtListener
  EveryoneStops
  HubForgets
CHECK_DEADLOCK FALSE
