SPECIFICATION Spec
CONSTANTS
  Runs = {r1}
  Consumers = {c1}
  Requests <- AgentRetryRequests
  RescheduleFrom <- EndedExcluded
  MaxAborts = 0
  MaxRows = 4
INVARIANTS RetryLimit
CHECK_DEADLOCK FALSE
