SPECIFICATION Spec
CONSTANTS
  Cpus = {c1, c2}
  Srcs = {s1}
  Nbrs = {n1, n2}
  NeighTblMaxLen = 3
  GratTblMaxLen = 2
  Rtts = {1, 30}
  MaxRtt = 30
  ULong = 1024
  MaxPkts = 3
  MaxSamples = 2
INVARIANTS AtMostOncePerCpu EstimateBounded QuietAfterUnload
PROPERTY RunsEmpty
CHECK_DEADLOCK FALSE
