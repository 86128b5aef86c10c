# thread_utils in TLA+

`thread_utils` is a C++20 library of worker threads: a task manager, a runner
of dataflow graphs, a thread pool, an asynchronous worker, and the lock-free
queues they are built on. This directory holds TLA+ models of its concurrent
parts, the TLC configurations that check them on small instances, and theorems
about them that TLAPS checks for every instance.

Source paths below are relative to `src/thread_utils` of the repository.

## Inventory

| component | state | operations | how it interacts |
|---|---|---|---|
| **task manager** `task_manager/task_manager.{hpp,cpp}` | per group: an operation queue, a semaphore, the workers; per worker: `parked`, `can_terminate`, a bounded cache; per state: a queue and a counter; one `operation_counter`, one mutex and condition variable | `tu_tm_add_thread_group`, `tu_tm_start`, `tu_tm_push_op`, `tu_tm_push_task`, `tu_tm_push_state`, `tu_tm_wait_completion`, `tu_tm_fini`; inside: `worker_run`, `..process_operation_queue`, `..process_operation`, `worker_process_cache` | the program and executed operations push; a semaphore token per push; workers wake the waiting program through the condition variable |
| **dataflow runner** `dfg/dfg.cpp`, the end of `dfg/graph.cpp` | per node input: a queue under a mutex; per node: `thread_count`; per group: a semaphore; per worker: the flags; the result queue, one mutex and condition variable | `tu_dfg_set_graph`, `tu_dfg_exec`, `tu_dfg_push_data`, `tu_dfg_wait_result`, `tu_dfg_term`, `tu_dfg_clear`, `tu_result`; inside: `worker_run`, `worker_process_queues`, `..task_queue`, `..state_queue` | a node's function calls `tu_result`, which pushes to the queues of its successors and releases their groups' semaphores, or pushes to the result queue and notifies |
| **graph construction** `dfg/graph.cpp` 1-384 | nodes, their inputs, outputs and subgraphs, as maps and sets | `tu_graph`, `tu_task`, `tu_state`, `tu_add_input(s)`, `tu_add_output(s)`, `tu_edge(s)` | sequential, before the execution |
| **finite overflow queue** `data_structures/{finite_lock_free_queue,finite_overflow_queue,ring_buffer}.hpp` | a ring of slots with sequence numbers, `head`, `tail`; a list for what the ring has no room for | `push`, `pop` | the queues of the groups and of the states of the task manager |
| **lock-free queue** `data_structures/lock_free_queue.hpp` | a linked list with counted pointers `head_`, `tail_`; a pool `free_` of nodes left behind | `push`, `pop`, `release_node`, destructor | the overflow list above; the queue of the thread pool |
| **cache queue** `data_structures/cache_queue.hpp` | a ring of one thread, `head` and `tail` | `cache`, `pop` | a task manager worker's own tasks |
| **mutex queue** `data_structures/lock_queue.hpp` | a `std::queue` and a mutex | `push`, `pop` | the queues of the dataflow nodes |
| **profiled queue** `data_structures/profiled_queue.hpp` | a queue and counters beside it | `push`, `pop` | wraps the queues of the dataflow graph (`dfg/decl.hpp`); the counters are only printed |
| **thread pool** `tools/thread_pool.{hpp,cpp}` | a queue, a semaphore, flags; per operation a handle with a mutex, a condition variable and a count | `tu_tp_exec`, `tu_tp_lauch`, `tu_tp_op_done`, `tu_tp_op_wait`, `tu_tp_fini` | the program owns the handles the workers complete |
| **async worker** `tools/async_worker.{hpp,cpp}` | `work_done`, `can_terminate`, one job, a mutex, a condition variable | `tu_aw_exec`, `tu_aw_wait`, `tu_aw_fini` | one thread and its users share the condition variable |
| **communication task prototype** `tests/mpi/comm_*` | per rank: the queue of packages to send, a queue of pending rendezvous, a pool of buffers, `can_terminate` | `tu_comm_send`, `tu_comm_task_destroy`; inside: `comm_progress_run`, `comm_am_handler`, `process_send_ops`, `process_recv_ops` | a node of the dataflow graph on every rank; its worker signals a progress thread, which sends, receives, pushes what it received to the node and releases the semaphore of its group |
| type registry, profiling, logging, dot output | tables, clocks, text | | output only |

### Where it is hard

* **Completion.** `tu_tm_wait_completion` reads one flag per worker and then a
  counter, not atomically, while workers wake up, hand operations over to each
  other, keep tasks in caches that the counter does not count, and push more.
* **Ownership of a state.** The operations of a state are executed by one
  worker at a time, without a lock: a counter that says both how many
  operations there are and whether somebody is responsible for them.
* **Tokens and work come apart.** Every push releases one semaphore token, but
  an awake worker takes as many operations as it finds, so there are tokens
  without work; there must never be work without a token or an awake worker.
* **Lost wake-ups.** Both `wait` functions sleep on a condition variable whose
  predicate is changed, and which is notified, without the mutex.
* **Limits.** The dataflow runner admits workers to a node by an optimistic
  counter that refused workers increment and decrement too.
* **Lock-free memory.** The ring claims a slot in one step and fills it in
  another; the linked queue reads nodes that others have removed and put into
  a pool.
* **Order of calls.** A graph is built by calls that copy the lists of other
  graphs as they are at that moment, create entries by looking them up, and
  overwrite a node's only sink.
* **Shared condition variable.** The async worker and those who wait for it
  sleep on the same one, and a job is announced with `notify_one`.
* **Two blocking ends.** A rank that sends a large package waits until the other
  rank, which may be sending too, comes to receive it.
* **Termination.** Flags, tokens and joins while tokens are left over and, in
  the dataflow runner, while data are in the queues.

What makes each component correct:

* task manager: nothing is announced complete that is not; the counter is
  exact; a state's operations exclude each other and always have somebody who
  is responsible; no operation waits without a token or an awake worker;
  everything pushed is executed; `tu_tm_fini` returns.
* dataflow runner: the limit of every node; `thread_count` is balanced; every
  datum becomes a result; `tu_dfg_term` returns.
* queues: no element lost, duplicated or torn; the linked queue is a FIFO; a
  pop that reports an empty queue is right about it to a stated extent.
* thread pool: a handle is not used after its owner may destroy it; every
  operation's handle completes.
* async worker: jobs run once and in order, a wait means that they have, the
  worker does not sleep through a job or its termination.
* communication task: a package is in one place, arrives once and where it was
  sent to; both ends of a termination are reached.
* graph construction: edges and inputs lead to nodes that take the type, sinks
  to graphs that list the node, and registration makes every node known.

## Modules

| module | what it is |
|---|---|
| `WeakQueue` | the promise of the queues the task manager uses: a push claims and publishes, a pop takes any published element, and may fail although some are there if a claimed, unpublished one was in its way |
| `TaskManager` | the task manager between `tu_tm_start` and the end of `tu_tm_fini`, with two instances of `WeakQueue`, one for the groups and one for the states |
| `TaskManagerInd`, `TaskManagerProofs` | its inductive invariants `IndInv` and `ServiceInv`; the proofs |
| `Dfg` | the dataflow runner from `tu_dfg_exec` to `tu_dfg_term` and the next `tu_dfg_exec` |
| `DfgInd`, `DfgProofs` | its inductive invariants `DfgInv` and `ServeInv`; the proofs |
| `OverflowQueue`, `OverflowQueueProofs` | the ring, access by access, and its overflow list; the proofs about the ring and that the whole implements `WeakQueue` |
| `Fifo` | a FIFO with atomic push and pop, as its callers see it |
| `LockFreeQueue`, `LockFreeQueueProofs` | the linked queue, access by access, with its pool of nodes; the proofs that it implements `Fifo` and that the destructor deletes each node once |
| `ThreadPool`, `ThreadPoolProofs` | the thread pool with its users, on an instance of `Fifo`; the proofs |
| `GraphBuild`, `GraphBuildProofs` | the calls that build graphs, and the registration of a graph with a runner; the proofs |
| `AsyncWorker`, `AsyncWorkerProofs` | the async worker with its owner and others that wait; the proofs |
| `CommTask`, `CommTaskProofs` | the communication task on every rank: workers, progress threads, a network; the proof that packages are conserved |
| `CacheQueue` | the ring of a worker's cache, as operators, and the sequence it is to agree with |
| `MC*` | the values of the constants for TLC |

So the task manager is modelled over a queue that the model of the ring is
shown to implement, and the overflow list of the ring, one sequence with
atomic operations there, is what the linked queue is shown to implement. So is
the queue of jobs of the thread pool. The cache of a worker, a bounded sequence
in `TaskManager`, is compared with the ring of the code in `CacheQueue`; that the
two agree is proved in `TaskManagerProofs`.

### How states and actions correspond to the code

A step is what one thread does up to its next access to memory that other
threads use. Memory is sequentially consistent: the acquire and release
operations of the code order all the accesses to data, and the models do not
distinguish the relaxed ones from the others.

**TaskManager.** `push`/`arg` say where a thread is in `tu_tm_push_op`
(count, claim, publish, release), `pc`/`cur`/`own` where a worker is, the
operation it holds and the state it owns; `cnt` is `processed_operation_count`
and `cache` the worker's cache. `phase` is a history of each operation, `batch`
the operations that `cnt` counts; both exist for the properties and the
proofs, except that `phase` also keeps a program from pushing an operation
twice. An executed operation pushes any fresh operations it likes, to its own group (the
cache, with eviction to the queue), to another group, or to a state. `mpc`/`mi`
is the program's thread: it pushes, waits, pushes again, and ends; it calls
`tu_tm_fini` after a wait, as every program of the repository does.
`CheckParked` reads one flag per step, `Block` is the end of the time in which
a notification is missed, `NotifyAll` wakes only a thread that sleeps.

**Dfg.** `todo` is what remains to be done in a call of `tu_result` or
`tu_dfg_push_data`: a sequence of pushes to queues, releases of semaphores and
notifications, in the order of the code. `pc`/`idx` is the walk of a worker
through the nodes of its group, with the preemptive load, the `fetch_add`, the
dequeue from each input in turn, and the unconditional decrement. What a node
emits is a constant (`Emits`). The `parked` flags of the runner are never read
and left out.

**OverflowQueue.** One action per access to `head`, `tail`, a slot's sequence
number or its data; a `compare_exchange_weak` may fail spuriously, which is the
same as retrying. Sequence numbers are unbounded integers (`size_t` wraps after
2^64 operations); `MaxTail` bounds them for TLC.

**LockFreeQueue.** One action per access to `head_`, `tail_`, `free_` or a
`next`. `list` and `pool` are histories: the nodes in the order in which they
were linked, and the nodes in the pool. Nodes are named after the element they
were allocated for, because `push` always allocates (the pool is only drawn
from by the constructor, which finds it empty).

**ThreadPool.** `upc` says where a user is: it launches an operation (`count`
of its handle first, then the jobs one by one, then the tokens), then polls or
waits, and then the handle is its own again (`idle`). `pc`/`job` is a worker:
one token, the flag, then jobs until a pop fails; for each job the mutex of the
handle, the count, the notification, the unlocking. `mutex` matters to the
users in `tu_tp_op_wait` only: `tu_tp_op_done` and the launch do not take it.
The evaluation of the predicate and the beginning of the sleep are one step,
because the worker notifies with the mutex held. `tu_tp_fini` is called by one
thread when no user is pushing; jobs may be in the queue and users may wait.
`process_count` is a plain integer that `tu_tp_op_done` reads while workers
write it; the model lets it read the current value, the finding does not depend
on it.

**GraphBuild.** One action per call of the library, by one thread; a call may
come in any order with any nodes and graphs. A function of the library that
loops over the nodes a graph lists, calling itself for each, is one action on
sets of nodes; this is possible because the lists hold tasks and states only
(`TypeOK`) and are well typed (`Lists` in `GraphBuildProofs`), so that the
inner calls all succeed or all fail. `WithKey` is `std::map::operator[]`.
Registration alone is taken member by member, with its stack of calls
(`frames`), because it may stop half-way (`NoGroup`) or never end (`Nested`).
`Dfg` starts where this module ends: its constants are a graph that has been
built and registered, and that its `Emits` sends each type to nodes that take it
is `Deliverable` here.

**AsyncWorker.** Everything but the notifications happens under one mutex, so
a step is what a thread does with the mutex, or a notification; only the
execution of a job (`run`) keeps the mutex for longer. `NotifyOne` wakes any one
of the threads that sleep, the worker or a user. The owner calls `tu_aw_exec`
when it has waited for the previous job, which the function asserts. Jobs are numbered
(`job` is `exec_data`); `ran` is the history of what was executed. `absorbed`
says that the worker sleeps and that the notification that was meant for it
woke a user.

**CommTask.** Per rank `wpc`/`hold` is the worker of the node's group, `ppc`,
`sending`, `result` and `rndvQueue` the progress thread, and `dpc` the thread
that destroys the task. The network is external, modelled from the calls of
`comm_task.cpp`: messages are a set, so they arrive in any order, and handlers
run inside `ucp_worker_progress` or while a request is waited for (`Progress`,
`WaitProgress`), in the middle of another send or receive. A signal is
remembered until the next `ucp_worker_wait`. For each type in `inputs` the node
has an input for data to send and one for data received. The first is left out:
the worker may find something to send whenever it is idle (`ExecSend`). The
second is `received[r][type]`; the worker takes from any that is not empty
(`ExecReceived`) until it finds all of them empty, which is one step
(`ReceivedEmpty`).
Reading `can_terminate` and what follows are one step. Assertions are compiled
in (`CMakeLists.txt:9` has `-DNDEBUG` commented out); without them the wait of
`:192` would not be made. The one of `comm_progress_result` (`:128`), that the
node has an input for the type of the result, can fail: `ResultAbort` ends the
process, and with it the job of the launcher, so that every rank stops
(`aborted`). Which types the node has is chosen in `Init`, from `NodeTypes`.
`NextType` is the type a rendezvous is announced with: the code reads it after
it has removed the entry (`comm_task.cpp:175`). A rendezvous is transferred
while its receiver waits for it, and the sender may see its own request complete
before the receiver sees its own (`Transferred`, `SendDone`), so that it can
announce the next one in between: the queue of pending receives then grows while
`process_recv_ops` goes through it.
The program destroys the task after a barrier that every rank enters with
everything executed, and after `tu_dfg_term` has stopped the workers, as
`tests/mpi/main.cpp:116-117` does.

**CacheQueue.** `Cache` and `Pop` act on a record of the ring, its `head`, which
grows when a full ring gives up its oldest element, and its `tail`, which goes
back when the newest is popped; both are reduced modulo the size.
`CacheConforms` runs every sequence of calls, up to a length, on the ring and on
the bounded sequence. `MCTaskManager` instantiates it and assumes it for sizes
1, 2 and 4 and up to ten calls, so that TLC evaluates it before each run of the
task manager; `CachesConform` proves it for every size and every sequence of
calls.

## Runs

| run | instance | states | what it shows |
|---|---|---|---|
| `TaskManager_groups` | 2 groups of 1 worker, cache of 1; 2 tasks and an operation of a state in one group, an operation of the same state in the other | 0.43 M | completion, counting, exclusion and service of the state, pushes between groups, the inductive invariants (`AllInv`) |
| `TaskManager_live` | 2 workers of 1 group, a task and two operations of a state | 0.18 M | service of the group's queue; `PushedRuns`, `FiniReturns` under fairness |
| `TaskManager_wait` | 1 worker, 1 task | | *violation*: `tu_tm_wait_completion` sleeps for ever |
| `Dfg_limits` | a task (limit 2) and a state, 2 workers of 1 group, 2 data: one for both nodes and one for the state; 2 executions | 2.9 M | limits and the exactness of `thread_count`, across a restart |
| `Dfg_live` | a task that feeds a state, in groups of one worker, 2 data; 2 executions | 0.18 M | no data left behind, every datum becomes a result, termination, the inductive invariants (`DfgAllInv`), across a restart |
| `Dfg_stranded` | one state, 2 workers, 2 data | | *violation*: a datum left behind |
| `OverflowQueue` | 3 clients, 3 elements, ring of 2 | 0.22 M | no race, exactly once, refinement of `WeakQueue` |
| `LockFreeQueue` | 3 clients, 2 elements | 0.19 M | a pop never follows a null `next`, the destructor, refinement of `Fifo` |
| `ThreadPool` | 2 workers, a user that waits and one that polls, 2 operations of up to 2 jobs | 0.19 M | the count, the release of handles, the tokens, waits and termination return |
| `GraphBuild` | 2 graphs, 2 nodes, 2 types that the graphs declare in part; one group that the second node does not belong to; 7 calls | 0.91 M | the lists, edges and sinks agree; registration is complete up to the first node without a group, and registers none after it |
| `AsyncWorker` | an owner, another user that waits; 2 jobs per initialisation, 2 initialisations | 1.3 k | jobs in order and once, what a wait means, who has the notification, jobs and the end complete unless somebody else has it; only a dropped job leaves somebody waiting |
| `CommTask` | 2 ranks; two large packages one way, a small one the other, all of type 1; a node that takes {1}, or {0, 1} | 0.21 M | packages conserved; delivered, unless the type of a last rendezvous ends the program; both ranks terminate |

**Bounds.** Two workers of a group are the smallest number for which an
operation is handed over, a slot is in somebody's way or a token is taken by the
wrong worker (`TaskManager_live`); a second group (`TaskManager_groups`), whose
worker shares the state with the first, is needed for pushes that bypass the
cache, and a cache of one is full with one task, so that evictions happen with
two. Two operations of one state make a handover. The four phases of a
completion (flag, wake-up, push, park) need no more than one child of a parent.
In `OverflowQueue` the ring of two slots overflows with the third element, and
`MaxTail = 4` lets every slot be reused, so that a client can be a lap behind.
In `LockFreeQueue` the third client runs late while the two others push and pop
everything, which exercises lagging tails and released nodes. In `ThreadPool`
the two workers count jobs of the same handle in either order, or of different
handles, and the second operation may be the first user's again or the other's;
an operation may have no jobs at all. In `GraphBuild` seven calls suffice to
create both nodes, list one in the inner graph, add that graph to the outer one
and connect it, in any order, with two calls to spare (`MaxCalls`); two nested
registrations show that the recursion does not advance (`MaxDepth`). In
`AsyncWorker` the second job of an owner finds the traces of the first, another
user may be asleep at any notification, and the second initialisation may follow
a job left behind (`MaxJobs`, `MaxInits`). In `CommTask` the second of the two
large packages may be announced while the first is fetched, which gives the
first a type of its own kind, or after it, which gives it type 0; the last always
has type 0. With the types {1} of `tests/mpi/main.cpp` this ends the program;
with {0, 1} the package goes to an input of another type, and everything after it
is reached too. The second rank sends while it is to receive, and the first
handles the small package while it waits for a rendezvous of its own. Deadlock is not checked in `GraphBuild`, where the
program stops making calls, nor in `AsyncWorker`, where it may stop too and
where a notification that went to somebody else leaves everybody asleep.
Symmetry is used for clients and elements, in runs without liveness.

**Fairness.** `FairSpec` assumes weak fairness of every worker and of the
program's thread inside a function of the library: the operating system runs
every thread that can run, and executed functions return. Nothing is assumed of
what the program decides (to push, to wait, to end), of spurious wake-ups
(`SpuriousWakeup` is an action without fairness), or of which worker a
semaphore lets through. In `CommTask` it includes the progress threads and that a
rank past the barrier destroys its task, but not that a worker sends anything;
in `AsyncWorker` that a job returns. A worker that spins over a slot that another thread
has claimed is not helped by fairness of its own, only by that of the other.

### What the violations say

* `TaskManager_wait`: the predicate of the condition variable is changed and the
  condition variable notified without the mutex (`task_manager.cpp:273-274`).
  Between the evaluation of the predicate and the sleep the only
  notification is lost. The work is done, and the program does not learn of it.
  `tu_dfg_wait_result` has the same defect (`graph.cpp:418-419`), and `Dfg` the
  same steps (`Block`, `NotifyResult`); no run repeats it.
* `Dfg_stranded`: worker 1 has found the queue of a state empty and not yet
  decremented `thread_count`; a datum is pushed; worker 2 takes its token,
  is refused (`dfg.cpp:225`), executed nothing and sleeps; worker 1 decrements
  and, if it executed nothing in its round, sleeps too. The datum stays until
  the next push to the group. With one worker per group this cannot happen
  (`Dfg_live`).

### What the other models show

No run counts these as violations: no doc or test of the repository says
otherwise. A reader should know them.

* *Thread pool.* The worker keeps the mutex of a handle until it has notified,
  so that an owner that waits cannot destroy the handle too early
  (`thread_pool.cpp:102-104`; `HandleReleased`, proved). An owner that polls
  `tu_tp_op_done` reads the count without the mutex and is not held back:
  `HandleReleased` is about owners that wait.
* *Async worker.* `tu_aw_exec` and `tu_aw_fini` call `notify_one` on the
  condition variable that the worker shares with those in `tu_aw_wait`
  (`async_worker.cpp:35`, `:18`). With a user asleep the notification may be
  his: he finds the predicate false and sleeps again, and the worker sleeps on.
  `WorkerNotified` and the liveness properties say that this (`absorbed`) is the
  only way; an owner that is the only user is safe. A job handed over just
  before `tu_aw_fini` may never be executed (`JobRuns` excepts it), and since
  `tu_aw_fini` notifies once, other users asleep over it may never return.
  `WaitReturns` says that they are the only ones the termination leaves behind.
* *Communication task.* The entry of a rendezvous is removed before its type is
  read (`comm_task.cpp:172`, `:175`), so the result has the type of the next
  entry, or 0 when it was the last. A node without type 0, such as those of
  `tests/mpi/main.cpp`, then fails the assertion of `:128`: `Delivered` excepts
  this end of the program (`LastLostType`), and `OnlyLastTypeAborts` proves that
  nothing else makes the assertion fail. A node with type 0 executes the
  package as one of type 0. `Conserved`
  therefore speaks of the types of small packages only. Two ranks that each send
  the other a large package wait for each other for ever (`:192`): each only
  fetches data after its own sends (`SendDone`, `Receive`). The run has large
  packages one way.

### What the model of graph construction shows

`GraphBuild` follows the code where its comments and messages suggest another
behaviour. No run counts these as violations either.

* `tu_add_inputs_graph` and `tu_add_outputs_graph` copy the lists for the types
  that the outer graph does *not* declare (`graph.cpp:173`, `:199`), to those
  that it does declare.
* `dfg_register_nodes` recurses on the outer graph instead of the subgraph
  (`dfg.cpp:60`): `tu_dfg_set_graph` of a graph with a subgraph never returns.
* `tu_dfg_clear` leaves `dfg->graph` (`dfg.cpp:37`), so that the next
  `tu_dfg_set_graph` refuses another graph with the message that the runner
  must be cleared, and registers the same graph's nodes afresh; without a clear
  in between it registers them twice.
* A type that a graph does not declare becomes one it declares when an edge or
  an input asks for it (`graph.cpp:157`, `:187`, `:310`, `:320`).
* `tu_sub_graph` after `tu_add_output(graph, sub_graph, type)` takes the sinks
  away again (`graph.cpp:76`): `SinkListed` holds, its converse does not.

## Theorems

All theorems hold for any values of the constants under the named assumptions
of the modules (`ConstantsAssumption` and `GroupsAssumption` of `TaskManager`;
`DfgAssumption`, `GraphAssumption`, `GroupsAssumption` and `EdgesAssumption`;
`BuildAssumption`, `AwAssumption`, `PoolAssumption`, `NodeAssumption`,
`CtAssumption`, the assumptions on `SIZE` and the clients). Those of `Dfg` say what
the calls that build a graph ensure: `dfg_register_nodes` puts a node in one
group (`GroupsAssumption`), and `tu_edge` and `tu_add_input` refuse to send a
type to a node that does not take it (`EdgesAssumption`; `Lists` and `Deliverable` of
`GraphBuild` are the same, proved for the calls). Hypotheses that
only one theorem needs are in its statement.

| theorem | says | argument |
|---|---|---|
| `TaskManagerProofs!Invariance` | `Spec => []IndInv` | below |
| `TypeCorrect`, `CounterIsExact`, `StatesAreExclusive`, `CompletionIsSound` | the properties of the runs | from `IndInv` |
| `ServiceInvariance`, `QueuesAreServed`, `StatesAreServed`, `OwnersHaveWork` | no operation waits without somebody to see to it; the owner of a state spins only while there is work | below |
| `CachesConform` | the ring of a cache behaves as a bounded sequence, for every size and all calls | below |
| `DfgProofs!DfgInvariance`, `ThreadCountIsExact`, `NodeLimitHolds`, `StateExclusion` | limits of the nodes | below |
| `DfgAllInvariance`, `DfgTypesAreCorrect` | types; what is added to a queue is announced; the service invariant | below |
| `SingleGroupsAreServed`, `GraphsOfSingleGroupsAreServed` | a group of one worker leaves no data behind, in any graph; `Served` when all groups are such | below |
| `OverflowQueueProofs!RingInvariance`, `RaceFreedom` | the ring | below |
| `OverflowQueueProofs!QueueInvariance`, `ElementsExactlyOnce`, `Refinement` | the queue implements `WeakQueue` | below |
| `LockFreeQueueProofs!LfqInvariance`, `NoPopFollowsNull`, `FifoRefinement` | the queue implements `Fifo` | below |
| `DestructorDeletesOnce` | the destructor deletes every node once | below |
| `CommTaskProofs!CtInvariance`, `PackagesAreConserved`, `OnlyLastTypeAborts` | a package is in one place, and arrives where it was sent to; only the type of a last rendezvous fails the assertion | below |
| `ThreadPoolProofs!PoolInvariance`, `PoolTyped`, `CountIsExact`, `HandlesAreReleased`, `JobsAreServed` | the properties of the run | below |
| `GraphBuildProofs!BuildInvariance`, `BuildTyped`, `DataDeliverable`, `ResultsListed`, `RegistrationComplete` | the properties of the run | below |
| `AsyncWorkerProofs!AwInvariance`, `JobsAreInOrder`, `WorkerIsNotified`, `WaitsMeanDone` | the safety properties of the run | below |

*Task manager.* `CompletionSound` is far from inductive. `IndInv` says who
holds an operation in each of its phases: one thread in `tu_tm_push_op`
(`PushInv`), a queue (`QueueInv`), one worker (`HoldInv`), a worker's batch
(`BatchInv`), a cache whose worker still has a counted operation to discharge
(`CacheInv`); that no operation is in a phase without a holder (`HeldInv`);
and that a state's counter is positive while the state is owned (`OwnInv`).
With `CounterExact` a counter of 0 means that nothing is counted, therefore
that every batch and every cache is empty, therefore that everything pushed is
settled. The flags do not occur in this argument: the counter alone makes the
announcement right, and reading `parked` is redundant for it.

`ServiceInv` is about the operations that wait. For the queue of a group, the
property of the run is not inductive: that a worker is awake does not help an
operation its last pop is going to miss. `GroupServiceInv` asks for a token, a
push that has still to release its token, a worker that has still to begin its
last pop (`Expected`), or one whose pop cannot fail before it has taken the
operation (`SeenBy`): `WeakQueue` lets a pop fail only when a claimed,
unpublished element was in its way, and the push of that element has its
token still to release. For the queue of a state, `StateServiceInv` says what the
state's counter counts, across the gap between the publication and the
`fetch_add` and that between the pop and the `fetch_sub`: with those in the
gaps, exactly the operations in the queue; and it is positive only while there
is an owner. So an owner that finds the counter positive has something to pop
(`OwnerHasWork`), and an operation without an owner is one whose pusher is
about to add (`StateServed`).

*Cache.* `Agrees` relates the ring to the sequence of its elements: a cached
element overwrites the slot of an element that has been evicted or popped,
because two positions less than a lap apart have different slots. `CachesConform`
puts the steps together for every sequence of calls.

*Dataflow runner.* `DfgInv` says that `thread_count` is the number of workers
between their `fetch_add` and their decrement, and that those inside the node
are no more than its limit: one enters only when the count before its own
increment is below the limit. For the restart it adds which workers
`tu_dfg_term` has joined and `tu_dfg_exec` has started (`JoinInv`).

`Served` fails with two workers in a group (`Dfg_stranded`), so the theorem is
about groups of one (`Single`), in a graph whose other groups may be of any
size. It also needs that `max_thread_count` is not 0, which `tu_task` accepts
(`graph.cpp:61`) and which would close the node to everybody (`dfg.cpp:225`).
`TodoInv` says that every datum a thread has still to add to a queue is
followed, in what it has to do, by the release of a token of the node's group
(`Announced`). `ServeInv` weighs tokens against what the worker needs: while
there are data in a queue of the group, either its present walk will look at
that queue (`Visits`), or the tokens that are there or about to come cover one
wake-up, unless it has just been woken, and one more if it has been told to
terminate (`Needs`). Two releases that are still to come count as one
(`Coming`), since the worker takes all it finds in one round. A worker that
enters a node of its group is never refused: nobody else is counted there
(`SingleCount`). A worker that has processed something walks on until it finds
nothing, so that the walk that does not look at a queue again begins after the
datum's token has come.

*Ring.* `Claims` says what a sequence number means for each of the positions
between `head` and `tail` and for the lap to come; `Accesses` that a client
inside a slot is alone on its position; `Compared` what a
`compare_exchange` that is going to succeed may assume although `sequence`
was read before it. Two positions share a slot only when they are a multiple
of `SIZE` apart, from which `NoDataRace` follows. For the refinement, `PopInv`
relates a pop that found the ring empty, or blocked, to what was there when it
started.

*Linked queue.* The counts of `head_` and `tail_` are positions in the list
(`ListInv`), so that `head == tail`, which compares counts too, says that both
point at the same node. A node that has been left behind has a `next` with a
positive count, also when `release_node` overwrites it, so that a late push,
which expects count 0, fails on it: this is why `release_node` adds 1. What late
pushes and pops know of the nodes they hold is in `PushKnows`, `PopKnows` and
`ReleaseKnows`; the pool is one chain with every node once (`PoolInv`). For the
destructor, `DestructorDeletesOnce` computes its two walks: from `head_` it
meets `list[head.count + 1]` and what follows, from `free_` the pool backwards;
both end, a sequence without repetitions being no longer than the number of
nodes, and with no client inside a call the nodes left behind are exactly those
of the pool. It assumes that finitely many elements are ever pushed
(`IsFiniteSet(Elem)`), without which the walk of the model, one step per node,
is not defined.

*Thread pool.* A job is in one place: still to be pushed, in the queue, or in
the hands of one worker (`UniqueInv`); `Pending` are those of a handle in any
of them, and `CountExact` counts them. A worker between the lock and the unlock
of a handle holds its mutex (`HandsInv`). A user that finds the count at 0 has
no pending job, so no worker is before its decrement; if it holds the mutex
too, none is after it (`CountZero`). Without the mutex only the first half
holds, which is all a user that polls can have (`IdleInv`).

*Graph construction.* `BuildInv` adds to the properties that the lists of
outputs are well typed as those of inputs are: edges and sinks come from them.
Lists only grow (`Grows`), so a sink that is listed stays so (`SinkKept`), and
a call that sets a sink lists the node first. For the registration, `Passed`
says that in a graph without subgraphs there is one active call, and that the
members it has passed have a group that knows them. That no later node is
registered needs more: a node is in one list and once (`MembersOnce`), so that
no other place of the list registers it, and what the groups know was reached
with all groups before it there (`OnlyReached`), which stays true when the graph
is extended and set again.

*Async worker.* `CountInv` says that the jobs handed over are those executed or
in execution, and one more while `work_done` is false and the worker has not
taken it: hence their order, and that a wait that finds `work_done` covers all
of them. `FlagsInv` ties `can_terminate` to where the owner is, and keeps an
owner that has waited from overwriting a job. Any number of other users may
wait.

*Communication task.* `Conserved` counts the copies of a package over all places
of all ranks. `CtInv` says the same without counting: `In(k, r, p)` is that `p`
is in the place `k` of rank `r`, `PlaceInv` that this holds for exactly one
pair, and `OnceInv` that no queue holds a package twice, nor two inputs of a
rank. Each step moves one
package from one place to another, or none. `SoundInv` carries the destination
and, for small packages, the type along with the message; a large package has
the type of whatever is next in the queue (see above). `CauseInv` follows a
result of a type that the node does not have (`Foreign`): it is of type 0, of a
rendezvous, and the queue it came from is empty, and stays so until the result
is dealt with, because the progress thread handles no message meanwhile.

Some invariants (`QueueInv`, `LfqInv`, `AwInv`, `CtInv`, and the types of
`ThreadPool` and `AsyncWorker`) are in no configuration of their own: they are proved,
and what the runs check follows from them. TLC agrees with `CtInv` and `CauseInv` on the constants of
`CommTask.cfg`.

*Recursive definitions.* The induction theorems of the library take a predicate
as a parameter and cannot be used. Where something recursive had to be reasoned
about (the steps of `tu_result` in `Dfg`, the walks of the destructor, the
sequences of calls of a cache), the proofs use `Descent` instead: a set of
numbers that holds the predecessor of each of its numbers is empty, which
follows from the well-foundedness of the strict subset relation on finite sets.
It is applied to the set of the numbers for which a statement fails, once to
show that the recursion defines a function and once for what the function
returns.

**Only model-checked.** Liveness under fairness (`PushedRuns`, `FiniReturns`,
`ResultProduced`, `TermReturns`, `OpCompletes`, `JobsComplete`, `Delivered`,
`DestroyReturns`), which needs `ENABLED`, out of reach of the prover. Every
safety property of a passing run is a theorem.

## Not modelled

Weak memory; the maximum of `std::counting_semaphore<512>` (releasing beyond it
is undefined, and the library does not count tokens); wrap-around of 64-bit
counters; allocation failure; profiling, logging and dot output; the counters of
`ProfiledQueue`, which are only printed; moving queues;
`tu_tm_add_thread_group` and `tu_dfg_add_worker_group`, which run before any
worker; `tu_exec`, `tu_graph_check` and `tu_graph_destroy`; of the communication task the
pool of buffers, the links of the queue of pending receives and the set-up of
the endpoints;
the destructors, except for what the linked queue's would delete. A ring of size 1,
which `ring_buffer.hpp:7` admits and for which the sequence numbers of a free and an
occupied slot coincide, is excluded by assumption; nothing instantiates it.

## Plan

Done: `WeakQueue`, `TaskManager`, `Dfg`, `OverflowQueue`, `Fifo`,
`LockFreeQueue`, `ThreadPool`, `GraphBuild`, `AsyncWorker`, `CommTask`,
`CacheQueue`, their runs and theorems. Left, in this order:

1. Theorems about what no run checks yet: that the data in the queues of `Dfg` are
   those pushed and not yet processed.
2. The counters of `ProfiledQueue`, the pool of buffers of `CommTask`.
