SPECIFICATION FairSpec
CONSTANTS
  Runs = {r1}
  Consumers = {c1, c2}
  Requests <- MixedRequests
  RescheduleFrom <- EndedExcluded
  MaxAborts = 2
  MaxRows = 6
INVARIANTS OneAction StepOrder LocalRetryLimit RepeatsExplained
PROPERTIES EndedStaysEnded OutcomeKept CancelHonoured RunEnds ImplementsPromise
CHECK_DEADLOCK FALSE
