SPECIFICATION FairSpec
CONSTANTS
  Cells = {e1, e2, e3}
  Addrs = {a, b, c}
  Initiators = {a, b}
  Targets = {b}
  RreqIds = {1, 2}
  MaxLens = {2}
  RequestTableIds = 1
  MaxRequestRexmt = 2
  NonpropRequestTimeout = 1
  MaxRequestPeriod = 3
  MAXTTL = 3
INVARIANTS UniqueEntry NoLeak BackoffWithinDiscovery
PROPERTIES DiscoveryEnds
CHECK_DEADLOCK FALSE
