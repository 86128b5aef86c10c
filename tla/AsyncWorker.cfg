CONSTANTS
  worker = worker  owner = owner  waiter = waiter
  Worker = worker
  Owner = owner
  Waiter = {waiter}
  MaxJobs = 2
  MaxInits = 2
SPECIFICATION FairSpec
INVARIANT JobsInOrder
INVARIANT WorkerNotified
PROPERTY WaitMeansDone
PROPERTY JobsComplete
PROPERTY FiniReturns
CHECK_DEADLOCK FALSE
