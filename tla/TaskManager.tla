----------------------------- MODULE TaskManager -----------------------------
(***************************************************************************)
(* The task manager: groups of worker threads that execute the operations  *)
(* pushed to the queue of their group, from tu_tm_start to tu_tm_fini.     *)
(*                                                                         *)
(* One thread owns the task manager (Main, a user program); it pushes      *)
(* operations, waits for their completion, and in the end joins the        *)
(* workers.  An operation is executed by a worker and may itself push      *)
(* operations.  An operation that belongs to a state goes through the      *)
(* state's own queue, which one worker at a time empties.                  *)
(*                                                                         *)
(* A step is what one thread does up to its next access to memory that     *)
(* other threads use.                                                      *)
(***************************************************************************)
EXTENDS Integers, FiniteSets, Sequences

CONSTANTS
  NumWorkers,     \* the workers are numbered in the order of the groups
  NumGroups,
  GroupOfWorker,  \* worker->group
  Op,             \* the operations a run of the program can push
  GroupOf,        \* the group an operation is pushed to
  StateOf,        \* the state it belongs to, or NoState for a task
  State, NoState,
  NoOp, NoGroup,
  CacheSize       \* of a worker's cache (4 in the code)

Worker == 1 .. NumWorkers
Main == 0
Thread == Worker \cup {Main}
Group == 1 .. NumGroups

Members(g) == {w \in Worker : GroupOfWorker[w] = g}

ASSUME ConstantsAssumption ==
  /\ NumWorkers \in Nat \ {0}
  /\ NumGroups \in Nat \ {0}
  /\ GroupOfWorker \in [Worker -> Group]
  /\ GroupOf \in [Op -> Group]
  /\ StateOf \in [Op -> State \cup {NoState}]
  /\ NoState \notin State
  /\ NoOp \notin Op
  /\ NoGroup \notin Group
  /\ CacheSize \in Nat \ {0}
  /\ IsFiniteSet(Op)

(* group_init asserts that a group has workers; they are stored by group.  *)
ASSUME GroupsAssumption ==
  /\ \A g \in Group : Members(g) # {}
  /\ \A v, w \in Worker : v < w => GroupOfWorker[v] <= GroupOfWorker[w]

StateOp == {o \in Op : StateOf[o] # NoState}

VARIABLES
  phase,         \* what became of each operation
  counter,       \* operation_counter
  sem,           \* tokens of each group's semaphore
  gstatus, gon, gmust, gblocked, \* the groups' queues (WeakQueue)
  sstatus, son, smust, sblocked, \* the states' queues (WeakQueue)
  stateCnt,      \* TU_TaskManagerStateContext::counter
  parked, canTerminate,
  push, arg,     \* where each thread is in tu_tm_push_op, and its operation
  pc, cur,       \* where each worker is, and the operation it holds
  own,           \* the state each worker owns, or NoState
  cnt,           \* processed_operation_count
  cache,         \* the worker's cache, oldest operation first
  mpc, mi,       \* where the main thread is; the worker or group it is at
  batch          \* history: the operations that cnt counts

mainVars   == <<mpc, mi>>
groupVars  == <<gstatus, gon, gmust, gblocked>>
squeueVars == <<sstatus, son, smust, sblocked>>
stateVars  == <<squeueVars, stateCnt>>
pushVars   == <<push, arg>>
workerVars == <<pc, cur, own, cnt, cache, batch>>
flagVars   == <<parked, canTerminate>>
vars == <<phase, counter, sem, groupVars, stateVars, flagVars, pushVars,
          workerVars, mainVars>>

GQ == INSTANCE WeakQueue WITH
        Elem <- Op, Queue <- Group, Client <- Worker, Home <- GroupOf,
        NoQueue <- NoGroup, status <- gstatus, on <- gon,
        must <- gmust, blocked <- gblocked

SQ == INSTANCE WeakQueue WITH
        Elem <- StateOp, Queue <- State, Client <- Worker, Home <- StateOf,
        NoQueue <- NoState, status <- sstatus, on <- son,
        must <- smust, blocked <- sblocked

(* fresh   not pushed yet                                                  *)
(* called  given to tu_tm_push_op, which has not counted it yet            *)
(* counted counted, on its way to a group's queue or in it                 *)
(* taken   popped by a worker, possibly handed over to its state's queue   *)
(* running being executed                                                  *)
(* done    executed, and its worker has not yet reduced the counter        *)
(* settled executed and no longer in operation_counter                     *)
(* cached  in a worker's cache, not in operation_counter                   *)
(* inline  being executed from the cache                                   *)
Phase == {"fresh", "called", "counted", "taken", "running", "done",
          "settled", "cached", "inline"}

Outstanding == {o \in Op : phase[o] \in {"counted", "taken", "running", "done"}}

WorkerPC == {"park", "notify", "acquire", "check", "unpark", "pop", "popping",
             "spush", "spublish", "sadd", "spop", "spopping", "exec", "ssub",
             "cache", "settle", "exited"}

MainPC == {"user", "check", "block", "waiting", "returned", "flags",
           "release", "join", "end"}

TypeOK ==
  /\ phase \in [Op -> Phase]
  /\ counter \in Int
  /\ sem \in [Group -> Nat]
  /\ GQ!QueueTypeOK
  /\ SQ!QueueTypeOK
  /\ stateCnt \in [State -> Int]
  /\ parked \in [Worker -> BOOLEAN]
  /\ canTerminate \in [Worker -> BOOLEAN]
  /\ push \in [Thread -> {"idle", "count", "push", "publish", "release"}]
  /\ arg \in [Thread -> Op \cup {NoOp}]
  /\ pc \in [Worker -> WorkerPC]
  /\ cur \in [Worker -> Op \cup {NoOp}]
  /\ own \in [Worker -> State \cup {NoState}]
  /\ cnt \in [Worker -> Nat]
  /\ cache \in [Worker -> Seq(Op)]
  /\ mpc \in MainPC
  /\ mi \in Nat
  /\ batch \in [Worker -> SUBSET Op]

(* tu_tm_start has returned: group_init has parked every worker.           *)
Init ==
  /\ phase = [o \in Op |-> "fresh"]
  /\ counter = 0
  /\ sem = [g \in Group |-> 0]
  /\ GQ!QueueInit
  /\ SQ!QueueInit
  /\ stateCnt = [s \in State |-> 0]
  /\ parked = [w \in Worker |-> TRUE]
  /\ canTerminate = [w \in Worker |-> FALSE]
  /\ push = [t \in Thread |-> "idle"]
  /\ arg = [t \in Thread |-> NoOp]
  /\ pc = [w \in Worker |-> "park"]
  /\ cur = [w \in Worker |-> NoOp]
  /\ own = [w \in Worker |-> NoState]
  /\ cnt = [w \in Worker |-> 0]
  /\ cache = [w \in Worker |-> <<>>]
  /\ mpc = "user"
  /\ mi = 1
  /\ batch = [w \in Worker |-> {}]

-----------------------------------------------------------------------------
(* tu_tm_push_op, called by any thread.                                    *)

(* The counter is incremented before the operation can be seen. *)
CountOp(t) ==
  /\ push[t] = "count"
  /\ counter' = counter + 1
  /\ phase' = [phase EXCEPT ![arg[t]] = "counted"]
  /\ push' = [push EXCEPT ![t] = "push"]
  /\ UNCHANGED <<arg, sem, groupVars, stateVars, flagVars, workerVars, mainVars>>

(* queue.push claims a slot of the ring, unless the ring is full. *)
ClaimOp(t) ==
  /\ push[t] = "push"
  /\ GQ!PushClaim(arg[t])
  /\ push' = [push EXCEPT ![t] = "publish"]
  /\ UNCHANGED <<arg, phase, counter, sem, stateVars, flagVars, workerVars, mainVars>>

PublishOp(t) ==
  /\ push[t] \in {"push", "publish"}
  /\ GQ!PushPublish(arg[t])
  /\ push' = [push EXCEPT ![t] = "release"]
  /\ UNCHANGED <<arg, phase, counter, sem, stateVars, flagVars, workerVars, mainVars>>

(* Mutant: the semaphore is forgotten. *)
ReleaseToken_Missing(t) ==
  /\ push[t] = "release"
  /\ push' = [push EXCEPT ![t] = "idle"]
  /\ arg' = [arg EXCEPT ![t] = NoOp]
  /\ UNCHANGED <<phase, counter, sem, groupVars, stateVars, flagVars, workerVars,
                 mainVars>>

ReleaseToken(t) ==
  /\ push[t] = "release"
  /\ sem' = [sem EXCEPT ![GroupOf[arg[t]]] = @ + 1]
  /\ push' = [push EXCEPT ![t] = "idle"]
  /\ arg' = [arg EXCEPT ![t] = NoOp]
  /\ UNCHANGED <<phase, counter, groupVars, stateVars, flagVars, workerVars,
                 mainVars>>

PushOp(t) == CountOp(t) \/ ClaimOp(t) \/ PublishOp(t) \/ ReleaseToken(t)

Busy(t) == push[t] # "idle"

Call(t, o) ==
  /\ push' = [push EXCEPT ![t] = "count"]
  /\ arg' = [arg EXCEPT ![t] = o]

-----------------------------------------------------------------------------
(* What an executed operation does: it pushes operations, one after the    *)
(* other, and returns.                                                     *)

(* tu_tm_push_state, or tu_tm_push_task to another group *)
ExecPushOp(w, o) ==
  /\ pc[w] = "exec" /\ ~ Busy(w)
  /\ phase[o] = "fresh"
  /\ StateOf[o] # NoState \/ GroupOf[o] # GroupOfWorker[w]
  /\ Call(w, o)
  /\ phase' = [phase EXCEPT ![o] = "called"]
  /\ UNCHANGED <<counter, sem, groupVars, stateVars, flagVars, workerVars,
                 mainVars>>

(* tu_tm_push_task to the worker's own group: the task goes to the cache,  *)
(* and a full cache gives up its oldest task to the group's queue.         *)
OwnTask(w, o) ==
  /\ pc[w] = "exec" /\ ~ Busy(w)
  /\ phase[o] = "fresh"
  /\ StateOf[o] = NoState /\ GroupOf[o] = GroupOfWorker[w]
  /\ UNCHANGED <<counter, sem, groupVars, stateVars, flagVars, pc, cur, own, cnt,
                 batch, mainVars>>

ExecCacheTask(w, o) ==
  /\ OwnTask(w, o)
  /\ Len(cache[w]) < CacheSize
  /\ phase' = [phase EXCEPT ![o] = "cached"]
  /\ cache' = [cache EXCEPT ![w] = Append(@, o)]
  /\ UNCHANGED pushVars

ExecEvictTask(w, o) ==
  LET oldest == Head(cache[w]) IN
  /\ OwnTask(w, o)
  /\ Len(cache[w]) >= CacheSize
  /\ Call(w, oldest)
  /\ phase' = [phase EXCEPT ![o] = "cached", ![oldest] = "called"]
  /\ cache' = [cache EXCEPT ![w] = Append(Tail(@), o)]

(* An operation that came from a queue returns and is counted ...          *)
ExecReturn(w) ==
  /\ pc[w] = "exec" /\ ~ Busy(w)
  /\ phase[cur[w]] = "running"
  /\ phase' = [phase EXCEPT ![cur[w]] = "done"]
  /\ cnt' = [cnt EXCEPT ![w] = @ + 1]
  /\ batch' = [batch EXCEPT ![w] = @ \cup {cur[w]}]
  /\ cur' = [cur EXCEPT ![w] = NoOp]
  /\ pc' = [pc EXCEPT ![w] = IF own[w] = NoState THEN "cache" ELSE "ssub"]
  /\ UNCHANGED <<counter, sem, groupVars, stateVars, flagVars, pushVars, own, cache,
                 mainVars>>

(* ... one that came from the cache is not.                                *)
CachedReturn(w) ==
  /\ pc[w] = "exec" /\ ~ Busy(w)
  /\ phase[cur[w]] = "inline"
  /\ phase' = [phase EXCEPT ![cur[w]] = "settled"]
  /\ cur' = [cur EXCEPT ![w] = NoOp]
  /\ pc' = [pc EXCEPT ![w] = "cache"]
  /\ UNCHANGED <<counter, sem, groupVars, stateVars, flagVars, pushVars, own, cache,
                 cnt, batch, mainVars>>

-----------------------------------------------------------------------------
(* worker_run                                                              *)

Goto(w, l) == pc' = [pc EXCEPT ![w] = l]

Park(w) ==
  /\ pc[w] = "park"
  /\ parked' = [parked EXCEPT ![w] = TRUE]
  /\ Goto(w, "notify")
  /\ UNCHANGED <<phase, counter, sem, groupVars, stateVars, canTerminate, pushVars,
                 cur, own, cnt, cache, batch, mainVars>>

(* The mutex is not held: a main thread that has evaluated its predicate   *)
(* and does not wait yet is not woken up.                                  *)
NotifyAll(w) ==
  /\ pc[w] = "notify"
  /\ mpc' = IF mpc = "waiting" THEN "check" ELSE mpc
  /\ mi' = IF mpc = "waiting" THEN 1 ELSE mi
  /\ Goto(w, "acquire")
  /\ UNCHANGED <<phase, counter, sem, groupVars, stateVars, flagVars, pushVars,
                 cur, own, cnt, cache, batch>>

Acquire(w) ==
  /\ pc[w] = "acquire"
  /\ sem[GroupOfWorker[w]] > 0
  /\ sem' = [sem EXCEPT ![GroupOfWorker[w]] = @ - 1]
  /\ Goto(w, "check")
  /\ UNCHANGED <<phase, counter, groupVars, stateVars, flagVars, pushVars, cur, own,
                 cnt, cache, batch, mainVars>>

CheckTerminate(w) ==
  /\ pc[w] = "check"
  /\ Goto(w, IF canTerminate[w] THEN "exited" ELSE "unpark")
  /\ UNCHANGED <<phase, counter, sem, groupVars, stateVars, flagVars, pushVars, cur,
                 own, cnt, cache, batch, mainVars>>

Unpark(w) ==
  /\ pc[w] = "unpark"
  /\ parked' = [parked EXCEPT ![w] = FALSE]
  /\ Goto(w, "pop")
  /\ UNCHANGED <<phase, counter, sem, groupVars, stateVars, canTerminate, pushVars,
                 cur, own, cnt, cache, batch, mainVars>>

-----------------------------------------------------------------------------
(* tu_tm_worker_process_operation_queue                                    *)

GroupPopStart(w) ==
  /\ pc[w] = "pop"
  /\ GQ!PopStart(w, GroupOfWorker[w])
  /\ Goto(w, "popping")
  /\ UNCHANGED <<phase, counter, sem, stateVars, flagVars, pushVars, cur, own, cnt,
                 cache, batch, mainVars>>

GroupPopBlocked(w) ==
  /\ pc[w] = "popping"
  /\ GQ!PopBlocked(w)
  /\ UNCHANGED <<phase, counter, sem, stateVars, flagVars, pushVars, workerVars,
                 mainVars>>

(* A task is executed at once, an operation of a state is handed over.     *)
TakeTask(w, o) ==
  /\ pc[w] = "popping"
  /\ StateOf[o] = NoState
  /\ GQ!PopTake(w, o)
  /\ cur' = [cur EXCEPT ![w] = o]
  /\ phase' = [phase EXCEPT ![o] = "running"]
  /\ Goto(w, "exec")
  /\ UNCHANGED <<counter, sem, stateVars, flagVars, pushVars, own, cnt, cache,
                 batch, mainVars>>

TakeStateOp(w, o) ==
  /\ pc[w] = "popping"
  /\ StateOf[o] # NoState
  /\ GQ!PopTake(w, o)
  /\ cur' = [cur EXCEPT ![w] = o]
  /\ phase' = [phase EXCEPT ![o] = "taken"]
  /\ Goto(w, "spush")
  /\ UNCHANGED <<counter, sem, stateVars, flagVars, pushVars, own, cnt, cache,
                 batch, mainVars>>

GroupPopFail(w) ==
  /\ pc[w] = "popping"
  /\ GQ!PopFail(w)
  /\ Goto(w, "settle")
  /\ UNCHANGED <<phase, counter, sem, stateVars, flagVars, pushVars, cur, own, cnt,
                 cache, batch, mainVars>>

(* worker_process_cache: the youngest task first *)
CachePop(w) ==
  LET n == Len(cache[w]) IN
  /\ pc[w] = "cache" /\ n > 0
  /\ cur' = [cur EXCEPT ![w] = cache[w][n]]
  /\ phase' = [phase EXCEPT ![cache[w][n]] = "inline"]
  /\ cache' = [cache EXCEPT ![w] = SubSeq(@, 1, n - 1)]
  /\ Goto(w, "exec")
  /\ UNCHANGED <<counter, sem, groupVars, stateVars, flagVars, pushVars, own,
                 cnt, batch, mainVars>>

(* Mutant: a worker executes one operation of the queue per token. *)
CacheEmpty_OnePerToken(w) ==
  /\ pc[w] = "cache" /\ cache[w] = <<>>
  /\ Goto(w, "settle")
  /\ UNCHANGED <<phase, counter, sem, groupVars, stateVars, flagVars, pushVars,
                 cur, own, cnt, cache, batch, mainVars>>

CacheEmpty(w) ==
  /\ pc[w] = "cache" /\ cache[w] = <<>>
  /\ Goto(w, "pop")
  /\ UNCHANGED <<phase, counter, sem, groupVars, stateVars, flagVars, pushVars,
                 cur, own, cnt, cache, batch, mainVars>>

(* Mutant: the number of processed operations is not reset. *)
Settle_NoReset(w) ==
  /\ pc[w] = "settle"
  /\ counter' = counter - cnt[w]
  /\ phase' = [o \in Op |-> IF o \in batch[w] THEN "settled" ELSE phase[o]]
  /\ batch' = [batch EXCEPT ![w] = {}]
  /\ Goto(w, "park")
  /\ UNCHANGED <<sem, groupVars, stateVars, flagVars, pushVars, cur, own, cnt, cache,
                 mainVars>>

(* operation_counter -= processed_operation_count *)
Settle(w) ==
  /\ pc[w] = "settle"
  /\ counter' = counter - cnt[w]
  /\ cnt' = [cnt EXCEPT ![w] = 0]
  /\ phase' = [o \in Op |-> IF o \in batch[w] THEN "settled" ELSE phase[o]]
  /\ batch' = [batch EXCEPT ![w] = {}]
  /\ Goto(w, "park")
  /\ UNCHANGED <<sem, groupVars, stateVars, flagVars, pushVars, cur, own, cache,
                 mainVars>>

-----------------------------------------------------------------------------
(* tu_tm_worker_process_operation, for an operation that belongs to a      *)
(* state.                                                                  *)

StateClaim(w) ==
  /\ pc[w] = "spush"
  /\ SQ!PushClaim(cur[w])
  /\ Goto(w, "spublish")
  /\ UNCHANGED <<phase, counter, sem, groupVars, stateCnt, flagVars, pushVars, cur,
                 own, cnt, cache, batch, mainVars>>

StatePublish(w) ==
  /\ pc[w] \in {"spush", "spublish"}
  /\ SQ!PushPublish(cur[w])
  /\ Goto(w, "sadd")
  /\ UNCHANGED <<phase, counter, sem, groupVars, stateCnt, flagVars, pushVars, cur,
                 own, cnt, cache, batch, mainVars>>

(* counter.fetch_add(1) == 0 gives the ownership of the state; otherwise   *)
(* the operation is left to the owner.                                     *)
StateFetchAdd(w) ==
  /\ pc[w] = "sadd"
  /\ stateCnt' = [stateCnt EXCEPT ![StateOf[cur[w]]] = @ + 1]
  /\ cur' = [cur EXCEPT ![w] = NoOp]
  /\ UNCHANGED <<phase, counter, sem, groupVars, squeueVars, flagVars, pushVars,
                 cnt, cache, batch, mainVars>>

(* Mutant: the thread that makes the counter 2 becomes an owner too. *)
StateEnter_OffByOne(w) ==
  /\ StateFetchAdd(w)
  /\ stateCnt[StateOf[cur[w]]] <= 1
  /\ own' = [own EXCEPT ![w] = StateOf[cur[w]]]
  /\ Goto(w, "spop")

StateEnter(w) ==
  /\ StateFetchAdd(w)
  /\ stateCnt[StateOf[cur[w]]] = 0
  /\ own' = [own EXCEPT ![w] = StateOf[cur[w]]]
  /\ Goto(w, "spop")

StateHandOver(w) ==
  /\ StateFetchAdd(w)
  /\ stateCnt[StateOf[cur[w]]] # 0
  /\ UNCHANGED own
  /\ Goto(w, "cache")

StatePopStart(w) ==
  /\ pc[w] = "spop"
  /\ SQ!PopStart(w, own[w])
  /\ Goto(w, "spopping")
  /\ UNCHANGED <<phase, counter, sem, groupVars, stateCnt, flagVars, pushVars, cur,
                 own, cnt, cache, batch, mainVars>>

StatePopBlocked(w) ==
  /\ pc[w] = "spopping"
  /\ SQ!PopBlocked(w)
  /\ UNCHANGED <<phase, counter, sem, groupVars, stateCnt, flagVars, pushVars,
                 workerVars, mainVars>>

StatePopTake(w, o) ==
  /\ pc[w] = "spopping"
  /\ SQ!PopTake(w, o)
  /\ cur' = [cur EXCEPT ![w] = o]
  /\ phase' = [phase EXCEPT ![o] = "running"]
  /\ Goto(w, "exec")
  /\ UNCHANGED <<counter, sem, groupVars, stateCnt, flagVars, pushVars, own, cnt,
                 cache, batch, mainVars>>

(* Mutant: the owner leaves when it finds the queue empty. *)
StatePopFail_Leave(w) ==
  /\ pc[w] = "spopping"
  /\ SQ!PopFail(w)
  /\ own' = [own EXCEPT ![w] = NoState]
  /\ Goto(w, "cache")
  /\ UNCHANGED <<phase, counter, sem, groupVars, stateCnt, flagVars, pushVars, cur,
                 cnt, cache, batch, mainVars>>

(* The owner spins: another thread has pushed or is about to. *)
StatePopFail(w) ==
  /\ pc[w] = "spopping"
  /\ SQ!PopFail(w)
  /\ Goto(w, "spop")
  /\ UNCHANGED <<phase, counter, sem, groupVars, stateCnt, flagVars, pushVars, cur,
                 own, cnt, cache, batch, mainVars>>

(* counter.fetch_sub(1) == 1 gives the ownership up *)
StateFetchSub(w) ==
  /\ pc[w] = "ssub"
  /\ stateCnt' = [stateCnt EXCEPT ![own[w]] = @ - 1]
  /\ UNCHANGED <<phase, counter, sem, groupVars, squeueVars, flagVars, pushVars,
                 cur, cnt, cache, batch, mainVars>>

StateLeave(w) ==
  /\ StateFetchSub(w)
  /\ stateCnt[own[w]] = 1
  /\ own' = [own EXCEPT ![w] = NoState]
  /\ Goto(w, "cache")

(* Mutant: the owner stays, whatever the counter was. *)
StateContinue_Always(w) ==
  /\ StateFetchSub(w)
  /\ UNCHANGED own
  /\ Goto(w, "spop")

StateContinue(w) ==
  /\ StateFetchSub(w)
  /\ stateCnt[own[w]] # 1
  /\ UNCHANGED own
  /\ Goto(w, "spop")

-----------------------------------------------------------------------------
(* The thread that owns the task manager                                   *)

MainGoto(l, i) == mpc' = l /\ mi' = i

threadVars == <<groupVars, stateVars, workerVars>>

MainPush(o) ==
  /\ mpc = "user" /\ ~ Busy(Main)
  /\ phase[o] = "fresh"
  /\ Call(Main, o)
  /\ phase' = [phase EXCEPT ![o] = "called"]
  /\ UNCHANGED <<counter, sem, flagVars, threadVars, mainVars>>

MainWait ==
  /\ mpc = "user" /\ ~ Busy(Main)
  /\ MainGoto("check", 1)
  /\ UNCHANGED <<phase, counter, sem, flagVars, pushVars, threadVars>>

(* The predicate of tu_tm_wait_completion reads the parked flags one by    *)
(* one, and then the counter.                                              *)
CheckParked ==
  /\ mpc = "check" /\ mi \in Worker
  /\ IF parked[mi] THEN MainGoto("check", mi + 1) ELSE MainGoto("block", 1)
  /\ UNCHANGED <<phase, counter, sem, flagVars, pushVars, threadVars>>

(* Mutant: parked workers are taken for the absence of work. *)
CheckCounter_ParkedOnly ==
  /\ mpc = "check" /\ mi = NumWorkers + 1
  /\ MainGoto("returned", 1)
  /\ UNCHANGED <<phase, counter, sem, flagVars, pushVars, threadVars>>

CheckCounter ==
  /\ mpc = "check" /\ mi = NumWorkers + 1
  /\ MainGoto(IF counter = 0 THEN "returned" ELSE "block", 1)
  /\ UNCHANGED <<phase, counter, sem, flagVars, pushVars, threadVars>>

(* The predicate was false: the thread starts waiting.                     *)
Block ==
  /\ mpc = "block"
  /\ MainGoto("waiting", 1)
  /\ UNCHANGED <<phase, counter, sem, flagVars, pushVars, threadVars>>

(* std::condition_variable allows it, and nothing guarantees it.           *)
SpuriousWakeup ==
  /\ mpc = "waiting"
  /\ MainGoto("check", 1)
  /\ UNCHANGED <<phase, counter, sem, flagVars, pushVars, threadVars>>

(* After the wait, the program pushes again or ends.                       *)
MainAgain ==
  /\ mpc = "returned"
  /\ MainGoto("user", 1)
  /\ UNCHANGED <<phase, counter, sem, flagVars, pushVars, threadVars>>

MainFini ==
  /\ mpc = "returned"
  /\ MainGoto("flags", 1)
  /\ UNCHANGED <<phase, counter, sem, flagVars, pushVars, threadVars>>

(* group_fini, for one group after the other *)
SetTerminate(w) ==
  /\ mpc = "flags" /\ w \in Members(mi) /\ ~ canTerminate[w]
  /\ \A v \in Members(mi) : v < w => canTerminate[v]
  /\ canTerminate' = [canTerminate EXCEPT ![w] = TRUE]
  /\ IF \A v \in Members(mi) \ {w} : canTerminate[v]
     THEN MainGoto("release", mi)
     ELSE UNCHANGED mainVars
  /\ UNCHANGED <<phase, counter, sem, parked, pushVars, threadVars>>

(* Mutant: one token for the group. *)
ReleaseAll_One ==
  /\ mpc = "release"
  /\ sem' = [sem EXCEPT ![mi] = @ + 1]
  /\ MainGoto("join", mi)
  /\ UNCHANGED <<phase, counter, flagVars, pushVars, threadVars>>

ReleaseAll ==
  /\ mpc = "release"
  /\ sem' = [sem EXCEPT ![mi] = @ + Cardinality(Members(mi))]
  /\ MainGoto("join", mi)
  /\ UNCHANGED <<phase, counter, flagVars, pushVars, threadVars>>

JoinAll ==
  /\ mpc = "join"
  /\ \A w \in Members(mi) : pc[w] = "exited"
  /\ IF mi < NumGroups THEN MainGoto("flags", mi + 1) ELSE MainGoto("end", 1)
  /\ UNCHANGED <<phase, counter, sem, flagVars, pushVars, threadVars>>

Terminated == mpc = "end" /\ UNCHANGED vars

-----------------------------------------------------------------------------
Exec(w) ==
  \/ \E o \in Op : ExecPushOp(w, o) \/ ExecCacheTask(w, o) \/ ExecEvictTask(w, o)
  \/ ExecReturn(w)
  \/ CachedReturn(w)

Run(w) ==
  \/ Park(w) \/ NotifyAll(w) \/ Acquire(w) \/ CheckTerminate(w) \/ Unpark(w)

ProcessQueue(w) ==
  \/ GroupPopStart(w) \/ GroupPopBlocked(w) \/ GroupPopFail(w)
  \/ \E o \in Op : TakeTask(w, o) \/ TakeStateOp(w, o)
  \/ CachePop(w) \/ CacheEmpty(w) \/ Settle(w)

ProcessState(w) ==
  \/ StateClaim(w) \/ StatePublish(w) \/ StateEnter(w) \/ StateHandOver(w)
  \/ StatePopStart(w) \/ StatePopBlocked(w) \/ StatePopFail(w)
  \/ \E o \in StateOp : StatePopTake(w, o)
  \/ StateLeave(w) \/ StateContinue(w)

WorkerStep(w) ==
  PushOp(w) \/ Exec(w) \/ Run(w) \/ ProcessQueue(w) \/ ProcessState(w)

(* What the main thread does inside the task manager's functions.          *)
MainStep ==
  \/ PushOp(Main)
  \/ CheckParked \/ CheckCounter \/ Block
  \/ \E w \in Worker : SetTerminate(w)
  \/ ReleaseAll \/ JoinAll

(* What the user program decides.                                          *)
UserStep ==
  \/ \E o \in Op : MainPush(o)
  \/ MainWait \/ MainAgain \/ MainFini

Next ==
  \/ \E w \in Worker : WorkerStep(w)
  \/ MainStep
  \/ UserStep
  \/ SpuriousWakeup
  \/ Terminated

(* The operating system runs every thread that can run, and the executed   *)
(* operations return.  Nothing is assumed of the user program, of spurious *)
(* wake-ups, or of which worker gets a token.                              *)
Fairness ==
  /\ \A w \in Worker : WF_vars(WorkerStep(w))
  /\ WF_vars(MainStep)

Spec == Init /\ [][Next]_vars

FairSpec == Spec /\ Fairness

-----------------------------------------------------------------------------
(* Properties                                                              *)

(* The last call to tu_tm_wait_completion has returned. *)
Finished == {"returned", "flags", "release", "join", "end"}

(* tu_tm_wait_completion returns only when everything that was pushed,     *)
(* directly or by an executed operation, has been executed: nothing is     *)
(* left in a queue, a cache or a worker's hands, although the parked flags *)
(* are read one by one and tasks in the caches are not counted.            *)
CompletionSound ==
  mpc \in Finished =>
    \A o \in Op : phase[o] \in {"fresh", "settled"}

(* operation_counter is the number of operations that were counted by      *)
(* tu_tm_push_op and not yet discharged by the worker that executed them,  *)
(* whichever thread took the operation over; the assertion at the end of   *)
(* tu_tm_worker_process_operation_queue (counter >= 0) follows.            *)
CounterExact == counter = Cardinality(Outstanding)

(* The operations of a state are executed one at a time, by the state's    *)
(* owner, without a lock.                                                  *)
StateExclusive ==
  /\ \A v, w \in Worker : own[v] # NoState /\ own[v] = own[w] => v = w
  /\ \A w \in Worker : pc[w] = "exec" /\ phase[cur[w]] = "running"
                         => own[w] = StateOf[cur[w]]

(* The comment on counter.fetch_sub: "one thread should have the ownership *)
(* if the queue is not empty".  A thread between its push and its          *)
(* fetch_add will see to the queue itself, or finds an owner.              *)
StateServed ==
  \A s \in State :
    SQ!Inside(s, "ready") # {} =>
      \/ \E w \in Worker : own[w] = s
      \/ \E w \in Worker : pc[w] = "sadd" /\ StateOf[cur[w]] = s

(* The owner of a state that has nothing left to pop gives the state up:   *)
(* it spins only while an operation is in the queue.                       *)
OwnerHasWork ==
  \A w \in Worker : pc[w] = "spop" => SQ!Inside(own[w], "ready") # {}

(* An operation available in a group's queue is never forgotten: a token   *)
(* is left, or a push to the group has its token still to release, or a    *)
(* worker of the group is awake and has not given up its last pop.         *)
Awake == {"check", "unpark", "pop", "popping", "spush", "spublish", "sadd",
          "spop", "spopping", "exec", "ssub", "cache"}

QueueServed ==
  \A g \in Group :
    GQ!Inside(g, "ready") # {} =>
      \/ sem[g] > 0
      \/ \E t \in Thread : /\ push[t] \in {"publish", "release"}
                           /\ GroupOf[arg[t]] = g
      \/ \E w \in Members(g) : pc[w] \in Awake

(* Every operation given to tu_tm_push_op or to a cache is executed.       *)
PushedRuns ==
  \A o \in Op : phase[o] # "fresh" ~> phase[o] = "settled"

(* tu_tm_fini, called after tu_tm_wait_completion, returns.                *)
FiniReturns == mpc = "flags" ~> mpc = "end"

(* tu_tm_wait_completion returns: what every test and demo program relies  *)
(* on.  It does not hold (see the README).                                 *)
WaitReturns == mpc = "check" ~> mpc = "returned"

=============================================================================
