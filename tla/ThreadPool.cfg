CONSTANTS
  waiter = waiter  poller = poller
  NoJob = NoJob  NoWorker = NoWorker
  NumWorkers = 2
  User = {waiter, poller}
  Poller = {poller}
  MaxJobs = 2
  MaxLaunches = 2
SPECIFICATION FairSpec
INVARIANT CountExact
INVARIANT HandleReleased
INVARIANT JobsServed
INVARIANT PoolInv
PROPERTY OpCompletes
PROPERTY FiniReturns
