SPECIFICATION Spec
CONSTANTS
  MaxRestarts = 1
  MaxProcs = 4
  MaxHours = 1
  MaxChanges = 1
  MaxCalls = 1
PROPERTIES
  StoppedStaysDown
CHECK_DEADLOCK FALSE
