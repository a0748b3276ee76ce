SPECIFICATION Spec
CONSTANTS
  MaxRestarts = 2
  MaxProcs = 4
  MaxHours = 1
  MaxChanges = 1
  MaxCalls = 1
INVARIANTS
  OneProcess
CHECK_DEADLOCK FALSE
