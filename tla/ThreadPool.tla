----------------------------- MODULE ThreadPool -----------------------------
(***************************************************************************)
(* The thread pool: worker threads that execute the jobs of launched       *)
(* operations, from tu_tp_init to the end of tu_tp_fini.                   *)
(*                                                                         *)
(* A user launches an operation, that is a number of jobs, with a handle   *)
(* of its own (tu_tp_lauch; tu_tp_exec is the launch of one job).  It then *)
(* waits for the operation (tu_tp_op_wait) or polls it (tu_tp_op_done),    *)
(* after which the handle is its own again: it launches the next operation *)
(* with it, or destroys it.  One thread, Main in this module, terminates   *)
(* the pool.                                                               *)
(*                                                                         *)
(* The queue of jobs is a TU_LockFreeQueue, which implements Fifo.         *)
(***************************************************************************)
EXTENDS Integers, FiniteSets, Sequences

CONSTANTS
  NumWorkers,
  User,
  Poller,       \* the users that poll
  MaxJobs,      \* bound: jobs of an operation
  MaxLaunches,  \* bound: operations in all
  NoJob, NoWorker

Worker == 1 .. NumWorkers
Job == [handle : User, index : 1 .. MaxJobs]

ASSUME PoolAssumption ==
  /\ NumWorkers \in Nat \ {0}
  /\ MaxJobs \in Nat
  /\ Poller \subseteq User
  /\ NoJob \notin Job
  /\ NoWorker \notin Worker

VARIABLES
  items, call, sawEmpty, result, \* operation_queue (Fifo)
  sem,           \* tokens of the semaphore
  canTerminate,
  pc, job,       \* where each worker is, and the job it has popped
  mutex,         \* the worker that holds the mutex of a handle
  count,         \* process_count of each handle
  upc,           \* where each user is
  len, next,     \* jobs_len, and the next job to push
  launches,
  mpc, mi        \* where tu_tp_fini is

queueVars  == <<items, call, sawEmpty, result>>
handleVars == <<mutex, count>>
workerVars == <<pc, job>>
userVars   == <<upc, len, next, launches>>
mainVars   == <<mpc, mi>>
vars == <<queueVars, sem, canTerminate, workerVars, handleVars, userVars, mainVars>>

Queue == INSTANCE Fifo WITH Elem <- Job, Client <- Worker, NoElem <- NoJob

WorkerPC == {"park", "check", "pop", "popping", "return", "exec", "sub",
             "notify", "unlock", "exited"}
UserPC == {"idle", "push", "launched", "lock", "waiting"}
MainPC == {"run", "flags", "join", "end"}

TypeOK ==
  /\ items \in Seq(Job)
  /\ call \in [Worker -> {"none", "pop", "return"}]
  /\ sawEmpty \in [Worker -> BOOLEAN]
  /\ result \in [Worker -> Job \cup {NoJob}]
  /\ sem \in Nat
  /\ canTerminate \in [Worker -> BOOLEAN]
  /\ pc \in [Worker -> WorkerPC]
  /\ job \in [Worker -> Job \cup {NoJob}]
  /\ mutex \in [User -> Worker \cup {NoWorker}]
  /\ count \in [User -> Nat]
  /\ upc \in [User -> UserPC]
  /\ len \in [User -> 0 .. MaxJobs]
  /\ next \in [User -> 1 .. MaxJobs + 1]
  /\ launches \in Nat
  /\ mpc \in MainPC
  /\ mi \in 1 .. NumWorkers + 1

(* tu_tp_init has returned. *)
Init ==
  /\ Queue!FifoInit
  /\ sem = 0
  /\ canTerminate = [w \in Worker |-> FALSE]
  /\ pc = [w \in Worker |-> "park"]
  /\ job = [w \in Worker |-> NoJob]
  /\ mutex = [u \in User |-> NoWorker]
  /\ count = [u \in User |-> 0]
  /\ upc = [u \in User |-> "idle"]
  /\ len = [u \in User |-> 0]
  /\ next = [u \in User |-> 1]
  /\ launches = 0
  /\ mpc = "run" /\ mi = 1

-----------------------------------------------------------------------------
(* The users                                                               *)

UserGoto(u, l) == upc' = [upc EXCEPT ![u] = l]

(* Mutant: the last job is not counted. *)
Launch_OffByOne(u, n) ==
  /\ upc[u] = "idle" /\ mpc = "run"
  /\ launches < MaxLaunches
  /\ count' = [count EXCEPT ![u] = IF n > 0 THEN n - 1 ELSE n]
  /\ len' = [len EXCEPT ![u] = n]
  /\ next' = [next EXCEPT ![u] = 1]
  /\ launches' = launches + 1
  /\ UserGoto(u, "push")
  /\ UNCHANGED <<queueVars, sem, canTerminate, workerVars, mutex, mainVars>>

(* tu_tp_exec and tu_tp_lauch set the count before any job is pushed; they *)
(* do not take the mutex.                                                  *)
Launch(u, n) ==
  /\ upc[u] = "idle" /\ mpc = "run"
  /\ launches < MaxLaunches
  /\ count' = [count EXCEPT ![u] = n]
  /\ len' = [len EXCEPT ![u] = n]
  /\ next' = [next EXCEPT ![u] = 1]
  /\ launches' = launches + 1
  /\ UserGoto(u, "push")
  /\ UNCHANGED <<queueVars, sem, canTerminate, workerVars, mutex, mainVars>>

PushJob(u) ==
  /\ upc[u] = "push" /\ next[u] <= len[u]
  /\ Queue!Push([handle |-> u, index |-> next[u]])
  /\ next' = [next EXCEPT ![u] = @ + 1]
  /\ UNCHANGED <<sem, canTerminate, workerVars, handleVars, upc, len, launches,
                 mainVars>>

(* Mutant: the tokens are forgotten. *)
Release_Missing(u) ==
  /\ upc[u] = "push" /\ next[u] > len[u]
  /\ UserGoto(u, "launched")
  /\ UNCHANGED <<queueVars, sem, canTerminate, workerVars, handleVars, len, next,
                 launches, mainVars>>

Release(u) ==
  /\ upc[u] = "push" /\ next[u] > len[u]
  /\ sem' = sem + len[u]
  /\ UserGoto(u, "launched")
  /\ UNCHANGED <<queueVars, canTerminate, workerVars, handleVars, len, next,
                 launches, mainVars>>

(* tu_tp_op_done: without the mutex, over and over again. *)
Poll(u) ==
  /\ upc[u] = "launched" /\ u \in Poller
  /\ count[u] = 0
  /\ UserGoto(u, "idle")
  /\ UNCHANGED <<queueVars, sem, canTerminate, workerVars, handleVars, len, next,
                 launches, mainVars>>

(* tu_tp_op_wait: the predicate is evaluated, and the sleep begins, with   *)
(* the mutex held, which is why this is one step.                          *)
OpWait(u) ==
  /\ upc[u] = "launched" /\ u \notin Poller
  /\ UserGoto(u, "lock")
  /\ UNCHANGED <<queueVars, sem, canTerminate, workerVars, handleVars, len, next,
                 launches, mainVars>>

TestCount(u) ==
  /\ upc[u] = "lock"
  /\ mutex[u] = NoWorker
  /\ UserGoto(u, IF count[u] = 0 THEN "idle" ELSE "waiting")
  /\ UNCHANGED <<queueVars, sem, canTerminate, workerVars, handleVars, len, next,
                 launches, mainVars>>

SpuriousWakeup(u) ==
  /\ upc[u] = "waiting"
  /\ UserGoto(u, "lock")
  /\ UNCHANGED <<queueVars, sem, canTerminate, workerVars, handleVars, len, next,
                 launches, mainVars>>

-----------------------------------------------------------------------------
(* tu_tp_worker_run                                                        *)

Goto(w, l) == pc' = [pc EXCEPT ![w] = l]

Acquire(w) ==
  /\ pc[w] = "park" /\ sem > 0
  /\ sem' = sem - 1
  /\ Goto(w, "check")
  /\ UNCHANGED <<queueVars, canTerminate, job, handleVars, userVars, mainVars>>

CheckTerminate(w) ==
  /\ pc[w] = "check"
  /\ Goto(w, IF canTerminate[w] THEN "exited" ELSE "pop")
  /\ UNCHANGED <<queueVars, sem, canTerminate, job, handleVars, userVars, mainVars>>

(* tu_tp_worker_process_operation_queue and tu_tp_worker_try_pop           *)
PopStart(w) ==
  /\ pc[w] = "pop"
  /\ Queue!PopStart(w)
  /\ Goto(w, "popping")
  /\ UNCHANGED <<sem, canTerminate, job, handleVars, userVars, mainVars>>

PopTake(w) ==
  /\ pc[w] = "popping"
  /\ Queue!PopTake(w)
  /\ Goto(w, "return")
  /\ UNCHANGED <<sem, canTerminate, job, handleVars, userVars, mainVars>>

PopReturn(w) ==
  /\ pc[w] = "return"
  /\ Queue!PopReturn(w)
  /\ job' = [job EXCEPT ![w] = result[w]]
  /\ Goto(w, "exec")
  /\ UNCHANGED <<sem, canTerminate, handleVars, userVars, mainVars>>

PopFail(w) ==
  /\ pc[w] = "popping"
  /\ Queue!PopFail(w)
  /\ Goto(w, "park")
  /\ UNCHANGED <<sem, canTerminate, job, handleVars, userVars, mainVars>>

(* The job is executed; then tu_tp_progress_op takes the mutex of the      *)
(* handle, ...                                                             *)
Lock(w) ==
  LET u == job[w].handle IN
  /\ pc[w] = "exec" /\ mutex[u] = NoWorker
  /\ mutex' = [mutex EXCEPT ![u] = w]
  /\ Goto(w, "sub")
  /\ UNCHANGED <<queueVars, sem, canTerminate, job, count, userVars, mainVars>>

(* Mutant: the commented-out lck.unlock() before the notification. *)
Sub_Unlocked(w) ==
  LET u == job[w].handle IN
  /\ pc[w] = "sub"
  /\ count' = [count EXCEPT ![u] = @ - 1]
  /\ mutex' = [mutex EXCEPT ![u] = NoWorker]
  /\ Goto(w, "notify")
  /\ UNCHANGED <<queueVars, sem, canTerminate, job, userVars, mainVars>>

(* ... counts the job, ...                                                 *)
Sub(w) ==
  LET u == job[w].handle IN
  /\ pc[w] = "sub"
  /\ count' = [count EXCEPT ![u] = @ - 1]
  /\ Goto(w, "notify")
  /\ UNCHANGED <<queueVars, sem, canTerminate, job, mutex, userVars, mainVars>>

(* ... wakes up the user if it was the last, ...                           *)
Notify(w) ==
  LET u == job[w].handle IN
  /\ pc[w] = "notify"
  /\ upc' = IF count[u] = 0 /\ upc[u] = "waiting"
            THEN [upc EXCEPT ![u] = "lock"] ELSE upc
  /\ Goto(w, "unlock")
  /\ UNCHANGED <<queueVars, sem, canTerminate, job, handleVars, len, next, launches,
                 mainVars>>

(* ... and releases the mutex.                                             *)
Unlock(w) ==
  /\ pc[w] = "unlock"
  /\ mutex' = [mutex EXCEPT ![job[w].handle] = NoWorker]
  /\ job' = [job EXCEPT ![w] = NoJob]
  /\ Goto(w, "pop")
  /\ UNCHANGED <<queueVars, sem, canTerminate, count, userVars, mainVars>>

-----------------------------------------------------------------------------
(* tu_tp_fini.  No user launches an operation during or after the call;    *)
(* jobs may still be in the queue, and users may still wait.               *)

MainGoto(l, i) == mpc' = l /\ mi' = i

Fini ==
  /\ mpc = "run"
  /\ \A u \in User : upc[u] # "push"
  /\ MainGoto("flags", 1)
  /\ UNCHANGED <<queueVars, sem, canTerminate, workerVars, handleVars, userVars>>

SetTerminate ==
  /\ mpc = "flags" /\ mi <= NumWorkers
  /\ canTerminate' = [canTerminate EXCEPT ![mi] = TRUE]
  /\ MainGoto("flags", mi + 1)
  /\ UNCHANGED <<queueVars, sem, workerVars, handleVars, userVars>>

(* Mutant: one token for all workers. *)
ReleaseAll_One ==
  /\ mpc = "flags" /\ mi > NumWorkers
  /\ sem' = sem + 1
  /\ MainGoto("join", 1)
  /\ UNCHANGED <<queueVars, canTerminate, workerVars, handleVars, userVars>>

ReleaseAll ==
  /\ mpc = "flags" /\ mi > NumWorkers
  /\ sem' = sem + NumWorkers
  /\ MainGoto("join", 1)
  /\ UNCHANGED <<queueVars, canTerminate, workerVars, handleVars, userVars>>

JoinAll ==
  /\ mpc = "join"
  /\ \A w \in Worker : pc[w] = "exited"
  /\ MainGoto("end", 1)
  /\ UNCHANGED <<queueVars, sem, canTerminate, workerVars, handleVars, userVars>>

Terminated == mpc = "end" /\ UNCHANGED vars

-----------------------------------------------------------------------------
WorkerStep(w) ==
  \/ Acquire(w) \/ CheckTerminate(w)
  \/ PopStart(w) \/ PopTake(w) \/ PopReturn(w) \/ PopFail(w)
  \/ Lock(w) \/ Sub(w) \/ Notify(w) \/ Unlock(w)

(* What a user does inside the functions of the pool. *)
UserStep(u) ==
  PushJob(u) \/ Release(u) \/ Poll(u) \/ TestCount(u)

FiniStep == SetTerminate \/ ReleaseAll \/ JoinAll

(* What the program decides. *)
Decide ==
  \/ \E u \in User : OpWait(u) \/ \E n \in 0 .. MaxJobs : Launch(u, n)
  \/ Fini

Next ==
  \/ \E w \in Worker : WorkerStep(w)
  \/ \E u \in User : UserStep(u) \/ SpuriousWakeup(u)
  \/ FiniStep
  \/ Decide
  \/ Terminated

Spec == Init /\ [][Next]_vars

(* Every thread that can run does, and jobs return. *)
Fairness ==
  /\ \A w \in Worker : WF_vars(WorkerStep(w))
  /\ \A u \in User : WF_vars(UserStep(u))
  /\ WF_vars(FiniStep)

FairSpec == Spec /\ Fairness

-----------------------------------------------------------------------------
(* Properties                                                              *)

(* The jobs of a handle that are still to be counted: those to be pushed,  *)
(* those in the queue and those in the hands of a worker.                  *)
Holds(w, j) ==
  \/ pc[w] = "return" /\ result[w] = j
  \/ pc[w] \in {"exec", "sub"} /\ job[w] = j

ToPush(u, i) == upc[u] = "push" /\ next[u] <= i /\ i <= len[u]
Queued(j) == \E k \in 1 .. Len(items) : items[k] = j
Held(j) == \E w \in Worker : Holds(w, j)

Pending(u) ==
  {i \in 1 .. MaxJobs :
     LET j == [handle |-> u, index |-> i] IN ToPush(u, i) \/ Queued(j) \/ Held(j)}

(* process_count, which is unsigned and tested for 0 only, is the number   *)
(* of the jobs that are still to be counted, whichever workers execute     *)
(* them in whatever order, while the user may still be pushing the rest:   *)
(* it never drops below 0, and is not 0 early.                             *)
CountExact == \A u \in User : count[u] = Cardinality(Pending(u))

(* The comment in tu_tp_progress_op: the owner of a handle may destroy it  *)
(* once the operation is done.  When tu_tp_op_wait has returned, no worker *)
(* will use the handle any more, not even to unlock it.                    *)
Using(w, u) ==
  pc[w] \in {"exec", "sub", "notify", "unlock"} /\ job[w].handle = u

Released(u) == Pending(u) = {} /\ \A w \in Worker : ~ Using(w, u)

HandleReleased ==
  \A u \in User \ Poller : upc[u] = "idle" => Released(u)

(* A job in the queue of a running pool has a token, or a worker that is   *)
(* awake and will look at the queue once more.                             *)
JobsServed ==
  mpc = "run" /\ items # <<>> =>
    \/ sem > 0
    \/ \E u \in User : upc[u] = "push" /\ len[u] > 0
    \/ \E w \in Worker : pc[w] \notin {"park", "exited"}
                           /\ (pc[w] = "popping" => ~ sawEmpty[w])

(* The inductive invariant behind the three: every job is in one place.    *)
HandsInv ==
  /\ \A w \in Worker :
       /\ pc[w] = "return" => result[w] \in Job
       /\ pc[w] \in {"exec", "sub", "notify", "unlock"} => job[w] \in Job
       /\ pc[w] \in {"sub", "notify", "unlock"} => mutex[job[w].handle] = w
  /\ mpc = "run" => \A w \in Worker : ~ canTerminate[w]

UniqueInv ==
  /\ \A i, k \in 1 .. Len(items) : items[i] = items[k] => i = k
  /\ \A j \in Job :
       /\ Queued(j) => ~ Held(j)
       /\ ToPush(j.handle, j.index) => ~ Queued(j) /\ ~ Held(j)
       /\ \A v, w \in Worker : Holds(v, j) /\ Holds(w, j) => v = w

IdleInv == \A u \in User : upc[u] = "idle" => Pending(u) = {}

PoolInv ==
  /\ TypeOK /\ HandsInv /\ UniqueInv /\ IdleInv
  /\ CountExact /\ HandleReleased /\ JobsServed

(* tu_tp_op_wait returns, unless the pool is terminated meanwhile.         *)
OpCompletes ==
  \A u \in User : upc[u] \in {"push", "lock"} ~> upc[u] \in {"idle", "launched"}
                                                   \/ mpc # "run"

(* tu_tp_fini returns, also when it is called with jobs in the queue.      *)
FiniReturns == mpc = "flags" ~> mpc = "end"
=============================================================================
