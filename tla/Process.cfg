CONSTANT MaxFlags = 2
SPECIFICATION FairSpec
INVARIANTS TorIsKept OneKeyPerFile LeavesNothing SignalWaits
PROPERTY EndsWhenAsked
CHECK_DEADLOCK FALSE
