SPECIFICATION Spec
CONSTANTS
  Retry = 2000
  MaxFailures = 5
  IdleLimit = 2
INVARIANT ReconnectsOnlyOnSilence
CHECK_DEADLOCK FALSE
