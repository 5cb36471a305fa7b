SPECIFICATION FairFindSpec
CONSTANTS
  Nodes = {s, a, b, d}
  Src = s
  Dst = d
  Inf = 9
  NoNode = NoNode
  Pending = Pending
  NoRoute = NoRoute
INVARIANTS Certificate FillInBounds
PROPERTIES AnswersShortest Returns
CHECK_DEADLOCK FALSE
