SPECIFICATION FairSpec
CONSTANTS
  parent = parent
  child = child
  ann = ann
  bob = bob
  ops = ops
  hourly = hourly
  never = never
  None = None
  Playbooks = {parent, child}
  Forms <- MixedForms
  People = {ann, bob}
  Teams = {ops}
  Members <- OpsMembers
  Known = {ann, bob, ops}
  Malformed = {never}
  Workers = {w1, w2}
  MaxRuns = 2
  MaxRoots = 1
  MaxSaves = 1
  MaxTriggers = 2
  MaxInputs = 2
  MaxFails = 1
INVARIANTS
  CacheFresh
  NoBypass
  NoneForgotten
PROPERTIES
  OverStaysOver
  ApprovedStarts
  CronsSettle
  ParentsEnd
CHECK_DEADLOCK FALSE
