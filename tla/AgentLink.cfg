SPECIFICATION LinkSpec
CONSTANTS
  None = None
  NoDial = NoDial
  MaxActions = 2
  Polls = {p1, p2}
  Consumers = {k1, k2}
  Pushers = {j1}
  Syncers = {s1}
  Kinds <- AllKinds
  Producing = {1}
  MaxFaults = 1
  MaxDials = 5
  Calls = {c1}
  MaxCuts = 1
  Setups <- MixedSetups
INVARIANTS
  HandedOnce
  Agree
  DataAfterRecord
  OneSession
  StreamOwned
PROPERTIES
  UpKeepsContract
  HandedOut
  Reported
  DataArrives
  Reconnects
CHECK_DEADLOCK FALSE
