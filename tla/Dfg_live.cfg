CONSTANTS
  a = a  b = b  task = task  state = state  x = x  y = y
  NoDatum = NoDatum
  NumWorkers = 2
  NumGroups = 2
  GroupOfWorker <- TwoGroups
  Node = {task, state}
  Type = {x, y}
  Datum = {a, b}
  NodesOf <- Apart
  IsState <- Kinds
  MaxThreads <- Limits
  MaxDequeue <- TwoData
  InputTypes <- Chain
  Emits <- ChainEmits
  Successors <- ToState
  SinkTypes <- StateSinks
  GraphInputs <- ChainInputs
  TypeOf <- AllX
  ResultsPerDatum = 1
  MaxExecs = 2
SPECIFICATION FairSpec
INVARIANT DfgAllInv
INVARIANT Served
PROPERTY ResultProduced
PROPERTY TermReturns
