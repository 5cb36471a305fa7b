SPECIFICATION FairSpec
CONSTANTS
  n1 = n1  n2 = n2  n3 = n3  n4 = n4  p1 = p1  p2 = p2
  NULL = NULL
  Node = {n1, n2, n3, n4}
  Edges <- Kite
  Pkts = {p1, p2}
  SrcOf <- MCSrcOf
  DstOf <- MCDstOf
  FirstId <- MCFirstId
  MaxMaintRexmt = 3
  Breakable = {{n2, n3}, {n2, n4}, {n3, n4}}
  MaxBreaks = 2
  MaxLosses = 1
  BidirFlags = {FALSE}
INVARIANT LoopFree
PROPERTIES WorkingLinksKept ComesToRest
CHECK_DEADLOCK FALSE
