SPECIFICATION Spec
CONSTANTS
  n1 = n1  n2 = n2  n3 = n3  n4 = n4
  Addrs = {n1, n2, n3, n4}
  SrtAdded <- MCSrtAdded
  NodesMax = 3
  LinksMax = 3
  NULL = NULL
  CntMax = 3
INVARIANTS NoDanglingNode AddedIsFound
CONSTRAINT CntBound
CHECK_DEADLOCK FALSE
