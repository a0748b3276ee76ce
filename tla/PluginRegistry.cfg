SPECIFICATION Spec
CONSTANTS
  Crds = {c1, c2}
  Proxied = {p1}
  Names = {n1}
  Versions = {v1, v2}
  Addresses = {a1}
  Latest = latest
  Reconciler = r
  Upgraders = {u1, u2}
  MaxRuntimes = 3
  MaxJobs = 3
  None = None
  Source <- OwnSource
  Name <- SharedName
INVARIANTS
  RegistryExact
  StoppedNotRouted
PROPERTIES
  NoLeak
  PinnedRuns
CHECK_DEADLOCK FALSE
