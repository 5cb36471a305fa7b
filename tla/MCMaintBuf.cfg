SPECIFICATION FairSpec
CONSTANTS
  h1 = h1  h2 = h2  p1 = p1  p2 = p2
  Pkts = {p1, p2}
  Forwarded = {p1, p2}
  Carried <- MCCarried
  StrayId = 3
  Hops = {h1, h2}
  MaxLens = {1, 2}
  Rto <- MCRto
  RtoA = 1  RtoB = 1
  MaintHoldoffTime = 0
  MaxMaintRexmt = 2
  IdMod = 3
  IdMax = 3
CONSTRAINT IdBound
INVARIANTS TypeOK RequestArmed TimerCovers
PROPERTIES HandlerReturns EveryRequestEnds
CHECK_DEADLOCK FALSE
