CONSTANTS
  a = a  b = b  task = task  state = state  x = x  y = y
  NoDatum = NoDatum
  NumWorkers = 2
  NumGroups = 1
  GroupOfWorker <- OneGroup
  Node = {state}
  Type = {x, y}
  Datum = {a, b}
  NodesOf <- Alone
  IsState <- StateKind
  MaxThreads <- StateLimit
  MaxDequeue <- OneDatum
  InputTypes <- StateTakes
  Emits <- StateEmits
  Successors <- StateSucc
  SinkTypes <- StateSink
  GraphInputs <- StateInputs
  TypeOf <- AllX
  ResultsPerDatum = 1
  MaxExecs = 1
SPECIFICATION Spec
INVARIANT Served
