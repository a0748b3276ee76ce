SPECIFICATION FairSpec
CONSTANTS
  Runs = {r1}
  Consumers = {c1}
  Requests <- DelayedRetryRequests
  RescheduleFrom <- EndedExcluded
  MaxAborts = 0
  MaxRows = 4
PROPERTIES RetryHappens
CHECK_DEADLOCK FALSE
