SPECIFICATION FairSpec
CONSTANTS
  n1 = n1  n2 = n2  n3 = n3  n4 = n4  p1 = p1  p2 = p2  p3 = p3
  NULL = NULL
  Node = {n1, n2, n3, n4}
  Edges <- Line
  Pkts = {p1, p2, p3}
  SrcOf <- SrcAcross
  DstOf <- DstAcross
  MaxRexmt = 0
  IdRoom = 1
  BidirFlags = {FALSE}
  Promisc = {}
  Lossy = FALSE
  MaxBreaks = 0
INVARIANT LoopFree
PROPERTIES EveryPacketDelivered FloodEnds
CHECK_DEADLOCK FALSE
