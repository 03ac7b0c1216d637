SPECIFICATION FairSpec
CONSTANTS
  Retry = 2000
  MaxFailures = 5
  IdleLimit = 2
INVARIANTS
  GivesUpInTime
  BackOffFollowsFailures
PROPERTIES
  AbortEnds
  NoSilentHang
CHECK_DEADLOCK FALSE
