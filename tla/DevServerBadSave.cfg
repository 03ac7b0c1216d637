SPECIFICATION Spec
CONSTANTS
  MaxSaves = 2
  MaxWatchErrors = 0
PROPERTY BadSaveKeepsServing
CHECK_DEADLOCK FALSE
