CONSTANTS
  a = a  b = b  c = c  d = d  s = s
  NoState = NoState  NoOp = NoOp  NoGroup = NoGroup
  NumWorkers = 1
  NumGroups = 1
  GroupOfWorker <- OneWorker
  Op <- Ops1
  GroupOf <- Groups0
  StateOf <- States1
  State = {s}
  CacheSize = 1
SPECIFICATION FairSpec
PROPERTY WaitReturns
