SPECIFICATION Spec
CONSTANTS
  Resources = {c1}
  Events = {"unhealthy"}
  Notifications <- TriggeringOnly
  Group <- OwnGroup
  Inhibits <- Inhibitions
  Senders = {s1, s2}
  MaxRetries = 1
  MaxAttempts = 2
  MaxChanges = 2
  MaxFailures = 2
  MaxCrashes = 1
  MaxRows = 4
PROPERTIES
  RunKept
CHECK_DEADLOCK FALSE
