SPECIFICATION FairSpec
CONSTANTS
  MaxSaves = 3
  MaxWatchErrors = 1
INVARIANTS OneServing NoLeak
PROPERTIES NeverOlder Converges
CHECK_DEADLOCK FALSE
