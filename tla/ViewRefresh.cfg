SPECIFICATION Spec
CONSTANTS
  Requests = {r1, r2}
  Flights = {l1, l2}
  Fingerprints = {f1}
  MaxVersion = 2
  MaxFails = 1
INVARIANTS
  StoredTogether
PROPERTIES
  NoGoingBack
  TryAgain
CHECK_DEADLOCK FALSE
