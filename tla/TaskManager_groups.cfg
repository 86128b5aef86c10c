CONSTANTS
  a = a  b = b  c = c  d = d  s = s
  NoState = NoState  NoOp = NoOp  NoGroup = NoGroup
  NumWorkers = 2
  NumGroups = 2
  GroupOfWorker <- OneOne
  Op <- Ops4
  GroupOf <- Groups4
  StateOf <- MixedStates
  State = {s}
  CacheSize = 1
SPECIFICATION Spec
INVARIANT AllInv
INVARIANT CompletionSound
INVARIANT CounterExact
INVARIANT StateExclusive
INVARIANT StateServed
INVARIANT OwnerHasWork
