CONSTANTS
  a = a  b = b  outer = outer  inner = inner  x = x  y = y
  NoGraph = NoGraph
  ExecNode = {a, b}
  Graph = {outer, inner}
  Type = {x, y}
  InTypes <- Takes
  OutTypes <- Gives
  GraphIn <- OuterTakes
  GraphOut <- OuterGives
  GroupOf <- Groups
  NumGroups = 1
  MaxCalls = 7
  MaxDepth = 2
CHECK_DEADLOCK FALSE
SPECIFICATION Spec
INVARIANT TypeOK
INVARIANT Deliverable
INVARIANT SinkListed
PROPERTY RegistersAll
