SPECIFICATION FairSpec
CONSTANTS
  Resources = {c1}
  Events = {"unhealthy"}
  Notifications <- MixedNotifications
  Group <- OwnGroup
  Inhibits <- Inhibitions
  Senders = {s1, s2}
  MaxRetries = 1
  MaxAttempts = 2
  MaxChanges = 2
  MaxFailures = 2
  MaxCrashes = 1
  MaxRows = 4
INVARIANTS
  CrashesExplain
  FallbacksBounded
PROPERTIES
  SettledStays
  RowsSettle
CHECK_DEADLOCK FALSE
