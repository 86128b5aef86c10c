CONSTANTS
  a = a  b = b  task = task  state = state  x = x  y = y
  NoDatum = NoDatum
  NumWorkers = 2
  NumGroups = 1
  GroupOfWorker <- OneGroup
  Node = {task, state}
  Type = {x, y}
  Datum = {a, b}
  NodesOf <- Together
  IsState <- Kinds
  MaxThreads <- Limits
  MaxDequeue <- OneDatum
  InputTypes <- Fork
  Emits <- ForkEmits
  Successors <- ToState
  SinkTypes <- StateSinks
  GraphInputs <- MixedInputs
  TypeOf <- Mixed
  ResultsPerDatum = 1
  MaxExecs = 2
SPECIFICATION Spec
INVARIANT DfgTypeOK
INVARIANT NodeLimit
INVARIANT CountExact
