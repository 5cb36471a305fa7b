SPECIFICATION SmpSpec
CONSTANTS
  Cells = {e1, e2, e3}
  Addrs = {a, b}
  Initiators = {a}
  Targets = {b}
  RreqIds = {1}
  MaxLens = {0, 1, 2}
  RequestTableIds = 1
  MaxRequestRexmt = 1
  NonpropRequestTimeout = 1
  MaxRequestPeriod = 2
  MAXTTL = 2
  Cpus = {c1, c2}
SYMMETRY SmpSymmetry
INVARIANTS NoUseAfterFree OneOwner QuietAgree
CHECK_DEADLOCK FALSE
