CONSTANTS
  a = a  b = b  c = c  d = d  s = s
  NoState = NoState  NoOp = NoOp  NoGroup = NoGroup
  NumWorkers = 2
  NumGroups = 1
  GroupOfWorker <- OneGroup
  Op <- Ops3
  GroupOf <- Groups1
  StateOf <- States3
  State = {s}
  CacheSize = 1
SPECIFICATION FairSpec
INVARIANT QueueServed
PROPERTY PushedRuns
PROPERTY FiniReturns
