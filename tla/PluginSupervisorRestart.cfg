SPECIFICATION FairSpec
CONSTANTS
  MaxRestarts = 1
  MaxProcs = 4
  MaxHours = 1
  MaxChanges = 1
  MaxCalls = 1
INVARIANTS
  Supervised
  RestartBudget
PROPERTIES
  CrashNoticed
CHECK_DEADLOCK FALSE
