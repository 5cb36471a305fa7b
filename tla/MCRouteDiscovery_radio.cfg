SPECIFICATION Spec
CONSTANTS
  n1 = n1  n2 = n2  n3 = n3  n4 = n4  p1 = p1  p2 = p2  p3 = p3
  NULL = NULL
  Node = {n1, n2, n3}
  Edges <- Triangle
  Pkts = {p1}
  SrcOf <- SrcToN3
  DstOf <- DstToN3
  MaxRexmt = 1
  IdRoom = 2
  BidirFlags = {TRUE, FALSE}
  Promisc = {n3}
  Lossy = TRUE
  MaxBreaks = 1
INVARIANTS LoopFree UnknownHopIsReverse
PROPERTIES CancelKnowsRoute
CHECK_DEADLOCK FALSE
