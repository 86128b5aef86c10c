--------------------------------- MODULE Dfg ---------------------------------
(***************************************************************************)
(* The runner of data flow graphs: groups of worker threads that execute   *)
(* the nodes of a graph, from tu_dfg_exec to tu_dfg_term and, possibly, a  *)
(* new tu_dfg_exec.                                                        *)
(*                                                                         *)
(* A node has one queue per type of data it takes.  A worker that is       *)
(* awake walks through the nodes of its group; it processes the data of a  *)
(* node when fewer workers than the node allows do so already.  Executing  *)
(* a datum adds results to the queues of other nodes or to the result      *)
(* queue of the graph, from which the main thread takes them.              *)
(*                                                                         *)
(* A step is what one thread does up to its next access to memory that     *)
(* other threads use.  The queues are protected by a mutex: adding to one  *)
(* and taking from one are steps.  The parked flags are written and never  *)
(* read; they are left out.                                                *)
(***************************************************************************)
EXTENDS Integers, FiniteSets, Sequences

CONSTANTS
  NumWorkers, NumGroups,
  GroupOfWorker,    \* the workers are numbered in the order of the groups
  Node, Type, Datum,
  NodesOf,          \* group->nodes: the nodes of each group, as registered
  IsState,          \* node->kind = NODE_KIND_STATE
  MaxThreads,       \* max_thread_count
  MaxDequeue,       \* max_dequeue_count of each group
  InputTypes,       \* the types a node takes, in the order of the map
  Emits,            \* the types an execution adds results of, in order
  Successors,       \* outputs: type -> sequence of nodes, for each node
  SinkTypes,        \* the types a node adds to the result queue
  GraphInputs,      \* graph->inputs: type -> sequence of nodes
  TypeOf,           \* the type of the data the main thread pushes
  ResultsPerDatum,  \* how many results the main thread waits for
  MaxExecs,         \* bound: calls of tu_dfg_exec
  NoDatum

Worker == 1 .. NumWorkers
Main == 0
Thread == Worker \cup {Main}
Group == 1 .. NumGroups
Members(g) == {w \in Worker : GroupOfWorker[w] = g}
Input == Node \X Type

GroupOf(n) == CHOOSE g \in Group : \E i \in DOMAIN NodesOf[g] : NodesOf[g][i] = n

ASSUME DfgAssumption ==
  /\ NumWorkers \in Nat \ {0} /\ NumGroups \in Nat \ {0}
  /\ GroupOfWorker \in [Worker -> Group]
  /\ NodesOf \in [Group -> Seq(Node)]
  /\ MaxThreads \in [Node -> Nat]
  /\ MaxDequeue \in [Group -> Nat]
  /\ InputTypes \in [Node -> Seq(Type)]
  /\ NoDatum \notin Datum

(* tu_state creates a state with a max_thread_count of 1;                  *)
(* tu_dfg_add_worker_group asserts that a group has workers, and           *)
(* worker_process_queues that it has nodes.                                *)
ASSUME GraphAssumption ==
  /\ IsState \in [Node -> BOOLEAN]
  /\ \A n \in Node : IsState[n] => MaxThreads[n] = 1
  /\ \A g \in Group : Members(g) # {} /\ NodesOf[g] # <<>>

(* dfg_register_nodes adds a node to the nodes of its group.               *)
ASSUME GroupsAssumption ==
  /\ \A n \in Node : \E g \in Group : \E i \in DOMAIN NodesOf[g] : NodesOf[g][i] = n
  /\ \A g, h \in Group : \A i \in DOMAIN NodesOf[g], j \in DOMAIN NodesOf[h] :
       NodesOf[g][i] = NodesOf[h][j] => g = h

(* The nodes listed for a type take it: tu_edge and tu_add_input refuse    *)
(* the others (Lists of GraphBuildProofs).                                 *)
Takes(n, ty) == \E i \in DOMAIN InputTypes[n] : InputTypes[n][i] = ty

ASSUME EdgesAssumption ==
  /\ \A n \in Node : \A ty \in Type : Takes(n, ty) => Emits[n][ty] \in Seq(Type)
  /\ \A n \in Node : \A ty \in DOMAIN Successors[n] :
       /\ Successors[n][ty] \in Seq(Node)
       /\ \A i \in DOMAIN Successors[n][ty] : Takes(Successors[n][ty][i], ty)
  /\ \A d \in Datum :
       /\ TypeOf[d] \in Type /\ GraphInputs[TypeOf[d]] \in Seq(Node)
       /\ \A i \in DOMAIN GraphInputs[TypeOf[d]] :
            Takes(GraphInputs[TypeOf[d]][i], TypeOf[d])

VARIABLES
  queue,        \* the data in the queue of each input of a node
  sink,         \* the result queue of the graph
  sem,          \* tokens of each group's semaphore
  threadCount,  \* thread_count of each node
  canTerminate,
  pc, idx,      \* where each worker is, and the index of the node it is at
  processed,    \* process_count
  round,        \* i, in worker_process_task_queue
  input,        \* the input that tu_internal_node_dequeue looks at
  todo, item,   \* what each thread has still to do in tu_result or
                \* tu_dfg_push_data, and the datum it does it with
  mpc, mi,      \* where the main thread is, and the group it is at
  pushed, got,  \* what the program has pushed, and the results it has
  execs         \* number of calls of tu_dfg_exec

dataVars   == <<queue, sink>>
walkVars   == <<idx, processed, round, input>>
workVars   == <<todo, item>>
mainVars   == <<mpc, mi>>
userVars   == <<pushed, got, execs>>
vars == <<dataVars, sem, threadCount, canTerminate, pc, walkVars, workVars,
          mainVars, userVars>>

WorkerPC == {"park", "check", "load", "add", "dequeue", "exec", "sub", "next",
             "exited"}
MainPC == {"user", "check", "block", "waiting", "flags", "release", "join",
           "start",
           "end"}

(* The steps of tu_result and of tu_internal_node_enqueue. *)
Sink(ty) == [op |-> "sink", type |-> ty]
Notify == [op |-> "notify"]
Add(n, ty) == [op |-> "push", node |-> n, type |-> ty]
Release(n) == [op |-> "release", node |-> n]

Step == {Sink(ty) : ty \in Type} \cup {Notify}
          \cup {Add(n, ty) : n \in Node, ty \in Type}
          \cup {Release(n) : n \in Node}

DfgTypeOK ==
  /\ queue \in [Input -> Seq(Datum)]
  /\ sink \in Seq(Datum \X Type)
  /\ sem \in [Group -> Nat]
  /\ threadCount \in [Node -> Nat]
  /\ canTerminate \in [Worker -> BOOLEAN]
  /\ pc \in [Worker -> WorkerPC]
  /\ idx \in [Worker -> Nat]
  /\ processed \in [Worker -> Nat]
  /\ round \in [Worker -> Nat]
  /\ input \in [Worker -> Nat \ {0}]
  /\ todo \in [Thread -> Seq(Step)]
  /\ item \in [Thread -> Datum \cup {NoDatum}]
  /\ mpc \in MainPC
  /\ mi \in Nat
  /\ pushed \subseteq Datum
  /\ got \in Seq(Datum \X Type)
  /\ execs \in Nat

(* tu_dfg_exec has started the workers. *)
Init ==
  /\ queue = [q \in Input |-> <<>>]
  /\ sink = <<>>
  /\ sem = [g \in Group |-> 0]
  /\ threadCount = [n \in Node |-> 0]
  /\ canTerminate = [w \in Worker |-> FALSE]
  /\ pc = [w \in Worker |-> "park"]
  /\ idx = [w \in Worker |-> 1]
  /\ processed = [w \in Worker |-> 0]
  /\ round = [w \in Worker |-> 1]
  /\ input = [w \in Worker |-> 1]
  /\ todo = [t \in Thread |-> <<>>]
  /\ item = [t \in Thread |-> NoDatum]
  /\ mpc = "user"
  /\ mi = 1
  /\ pushed = {}
  /\ got = <<>>
  /\ execs = 1

NodeAt(w) == NodesOf[GroupOfWorker[w]][idx[w]]
InputAt(w) == <<NodeAt(w), InputTypes[NodeAt(w)][input[w]]>>

Goto(w, l) == pc' = [pc EXCEPT ![w] = l]

-----------------------------------------------------------------------------
(* tu_result and tu_internal_node_enqueue, step by step                    *)

(* Mutant: the workers are notified before the data are in the queues. *)
ResultSteps_NotifyFirst(n, ty) ==
  LET succ == IF ty \in DOMAIN Successors[n] THEN Successors[n][ty] ELSE <<>> IN
  (IF ty \in SinkTypes[n] THEN <<Sink(ty), Notify>> ELSE <<>>)
    \o [i \in DOMAIN succ |-> Release(succ[i])]
    \o [i \in DOMAIN succ |-> Add(succ[i], ty)]

(* The whole work of tu_result for one result. *)
ResultSteps(n, ty) ==
  LET succ == IF ty \in DOMAIN Successors[n] THEN Successors[n][ty] ELSE <<>> IN
  (IF ty \in SinkTypes[n] THEN <<Sink(ty), Notify>> ELSE <<>>)
    \o [i \in DOMAIN succ |-> Add(succ[i], ty)]
    \o [i \in DOMAIN succ |-> Release(succ[i])]

(* One after the other, what an execution on a datum adds. *)
ExecSteps(n, ty) ==
  LET f[k \in 0 .. Len(Emits[n][ty])] ==
        IF k = 0 THEN <<>> ELSE f[k - 1] \o ResultSteps(n, Emits[n][ty][k])
  IN  f[Len(Emits[n][ty])]

Rest(t) == todo' = [todo EXCEPT ![t] = Tail(@)]

At(t, op) == todo[t] # <<>> /\ Head(todo[t]).op = op

PushSink(t) ==
  /\ At(t, "sink")
  /\ sink' = Append(sink, <<item[t], Head(todo[t]).type>>)
  /\ Rest(t)
  /\ UNCHANGED <<queue, sem, threadCount, canTerminate, pc, walkVars, item, mainVars,
                 userVars>>

(* The mutex of the dfg is held neither here nor when the result is added. *)
NotifyResult(t) ==
  /\ At(t, "notify")
  /\ mpc' = IF mpc = "waiting" THEN "check" ELSE mpc
  /\ Rest(t)
  /\ UNCHANGED <<dataVars, sem, threadCount, canTerminate, pc, walkVars, item, mi,
                 userVars>>

PushQueue(t) ==
  /\ At(t, "push")
  /\ LET s == Head(todo[t]) IN
       queue' = [queue EXCEPT ![<<s.node, s.type>>] = Append(@, item[t])]
  /\ Rest(t)
  /\ UNCHANGED <<sink, sem, threadCount, canTerminate, pc, walkVars, item, mainVars,
                 userVars>>

(* Mutant: the semaphore is forgotten. *)
NotifyWorkers_Missing(t) ==
  /\ At(t, "release")
  /\ Rest(t)
  /\ UNCHANGED <<dataVars, sem, threadCount, canTerminate, pc, walkVars, item,
                 mainVars, userVars>>

NotifyWorkers(t) ==
  /\ At(t, "release")
  /\ sem' = [sem EXCEPT ![GroupOf(Head(todo[t]).node)] = @ + 1]
  /\ Rest(t)
  /\ UNCHANGED <<dataVars, threadCount, canTerminate, pc, walkVars, item, mainVars,
                 userVars>>

Send(t) == PushSink(t) \/ NotifyResult(t) \/ PushQueue(t) \/ NotifyWorkers(t)

-----------------------------------------------------------------------------
(* worker_run                                                              *)

(* Mutant: the semaphore does not block. *)
Acquire_NoWait(w) ==
  /\ pc[w] = "park"
  /\ sem' = [sem EXCEPT ![GroupOfWorker[w]] = @ - 1]
  /\ Goto(w, "check")
  /\ UNCHANGED <<dataVars, threadCount, canTerminate, walkVars, workVars, mainVars,
                 userVars>>

Acquire(w) ==
  /\ pc[w] = "park"
  /\ sem[GroupOfWorker[w]] > 0
  /\ sem' = [sem EXCEPT ![GroupOfWorker[w]] = @ - 1]
  /\ Goto(w, "check")
  /\ UNCHANGED <<dataVars, threadCount, canTerminate, walkVars, workVars, mainVars,
                 userVars>>

CheckTerminate(w) ==
  /\ pc[w] = "check"
  /\ Goto(w, IF canTerminate[w] THEN "exited" ELSE "load")
  /\ idx' = [idx EXCEPT ![w] = 1]
  /\ processed' = [processed EXCEPT ![w] = 0]
  /\ UNCHANGED <<dataVars, sem, threadCount, canTerminate, round, input, workVars,
                 mainVars, userVars>>

(* worker_process_queues: the count is loaded first, ... *)
LoadCount(w) ==
  /\ pc[w] = "load"
  /\ Goto(w, IF threadCount[NodeAt(w)] < MaxThreads[NodeAt(w)] THEN "add" ELSE "next")
  /\ UNCHANGED <<dataVars, sem, threadCount, canTerminate, walkVars, workVars,
                 mainVars, userVars>>

FetchAdd(w) ==
  /\ pc[w] = "add"
  /\ threadCount' = [threadCount EXCEPT ![NodeAt(w)] = @ + 1]
  /\ UNCHANGED <<dataVars, sem, canTerminate, idx, processed, workVars, mainVars,
                 userVars>>

(* Mutant: fetch_add(1) is compared with <=. *)
Enter_OffByOne(w) ==
  /\ FetchAdd(w)
  /\ threadCount[NodeAt(w)] <= MaxThreads[NodeAt(w)]
  /\ round' = [round EXCEPT ![w] = 1]
  /\ input' = [input EXCEPT ![w] = 1]
  /\ Goto(w, "dequeue")

(* ... then fetch_add decides.                                             *)
Enter(w) ==
  /\ FetchAdd(w)
  /\ threadCount[NodeAt(w)] < MaxThreads[NodeAt(w)]
  /\ round' = [round EXCEPT ![w] = 1]
  /\ input' = [input EXCEPT ![w] = 1]
  /\ Goto(w, "dequeue")

Refused(w) ==
  /\ FetchAdd(w)
  /\ threadCount[NodeAt(w)] >= MaxThreads[NodeAt(w)]
  /\ UNCHANGED <<round, input>>
  /\ Goto(w, "sub")

(* tu_internal_node_dequeue tries the inputs one after the other.          *)
Dequeue(w) ==
  /\ pc[w] = "dequeue" /\ input[w] <= Len(InputTypes[NodeAt(w)])
  /\ queue[InputAt(w)] # <<>>
  /\ queue' = [queue EXCEPT ![InputAt(w)] = Tail(@)]
  /\ item' = [item EXCEPT ![w] = Head(queue[InputAt(w)])]
  /\ todo' = [todo EXCEPT ![w] = ExecSteps(NodeAt(w), InputAt(w)[2])]
  /\ Goto(w, "exec")
  /\ UNCHANGED <<sink, sem, threadCount, canTerminate, walkVars, mainVars, userVars>>

InputEmpty(w) ==
  /\ pc[w] = "dequeue" /\ input[w] <= Len(InputTypes[NodeAt(w)])
  /\ queue[InputAt(w)] = <<>>
  /\ input' = [input EXCEPT ![w] = @ + 1]
  /\ UNCHANGED <<dataVars, sem, threadCount, canTerminate, pc, idx, processed, round,
                 workVars, mainVars, userVars>>

DequeueFail(w) ==
  /\ pc[w] = "dequeue" /\ input[w] > Len(InputTypes[NodeAt(w)])
  /\ Goto(w, "sub")
  /\ UNCHANGED <<dataVars, sem, threadCount, canTerminate, walkVars, workVars,
                 mainVars, userVars>>

(* A worker stays at a state until its queues are empty, and at a task for *)
(* max_dequeue_count data, or one.                                         *)
Stays(w) ==
  IsState[NodeAt(w)] \/ round[w] < MaxDequeue[GroupOfWorker[w]]

ExecReturn(w) ==
  /\ pc[w] = "exec" /\ todo[w] = <<>>
  /\ processed' = [processed EXCEPT ![w] = @ + 1]
  /\ round' = [round EXCEPT ![w] = @ + 1]
  /\ input' = [input EXCEPT ![w] = 1]
  /\ item' = [item EXCEPT ![w] = NoDatum]
  /\ Goto(w, IF Stays(w) THEN "dequeue" ELSE "sub")
  /\ UNCHANGED <<dataVars, sem, threadCount, canTerminate, idx, todo, mainVars,
                 userVars>>

(* Mutant: a worker that was refused does not give its count back.         *)
FetchSub_Guarded(w) ==
  /\ pc[w] = "sub"
  /\ threadCount' = IF threadCount[NodeAt(w)] <= MaxThreads[NodeAt(w)]
                    THEN [threadCount EXCEPT ![NodeAt(w)] = @ - 1]
                    ELSE threadCount
  /\ Goto(w, "next")
  /\ UNCHANGED <<dataVars, sem, canTerminate, walkVars, workVars, mainVars, userVars>>

FetchSub(w) ==
  /\ pc[w] = "sub"
  /\ threadCount' = [threadCount EXCEPT ![NodeAt(w)] = @ - 1]
  /\ Goto(w, "next")
  /\ UNCHANGED <<dataVars, sem, canTerminate, walkVars, workVars, mainVars, userVars>>

NextNode(w) ==
  /\ pc[w] = "next" /\ idx[w] < Len(NodesOf[GroupOfWorker[w]])
  /\ idx' = [idx EXCEPT ![w] = @ + 1]
  /\ Goto(w, "load")
  /\ UNCHANGED <<dataVars, sem, threadCount, canTerminate, processed, round, input,
                 workVars, mainVars, userVars>>

(* After the last node the walk starts again, unless it has found nothing. *)
Restart(w) ==
  /\ pc[w] = "next" /\ idx[w] >= Len(NodesOf[GroupOfWorker[w]])
  /\ IF processed[w] = 0
     THEN Goto(w, "park") /\ UNCHANGED <<idx, processed>>
     ELSE /\ Goto(w, "load")
          /\ idx' = [idx EXCEPT ![w] = 1]
          /\ processed' = [processed EXCEPT ![w] = 0]
  /\ UNCHANGED <<dataVars, sem, threadCount, canTerminate, round, input, workVars,
                 mainVars, userVars>>

-----------------------------------------------------------------------------
(* The thread that owns the dfg                                            *)

MainGoto(l, g) == mpc' = l /\ mi' = g

(* tu_dfg_push_data: the nodes that take the type, one after the other     *)
MainPush(d) ==
  LET nodes == GraphInputs[TypeOf[d]] IN
  /\ mpc = "user" /\ todo[Main] = <<>>
  /\ d \notin pushed
  /\ pushed' = pushed \cup {d}
  /\ item' = [item EXCEPT ![Main] = d]
  /\ todo' = [todo EXCEPT ![Main] =
               [i \in 1 .. 2 * Len(nodes) |->
                  IF i % 2 = 1 THEN Add(nodes[(i + 1) \div 2], TypeOf[d])
                               ELSE Release(nodes[i \div 2])]]
  /\ UNCHANGED <<dataVars, sem, threadCount, canTerminate, pc, walkVars, mainVars,
                 got, execs>>

(* tu_dfg_wait_result, called for a result that is still to come           *)
MainWait ==
  /\ mpc = "user" /\ todo[Main] = <<>>
  /\ Len(got) < ResultsPerDatum * Cardinality(pushed)
  /\ MainGoto("check", 1)
  /\ UNCHANGED <<dataVars, sem, threadCount, canTerminate, pc, walkVars, workVars,
                 userVars>>

TakeResult ==
  /\ mpc = "check" /\ sink # <<>>
  /\ sink' = Tail(sink)
  /\ got' = Append(got, Head(sink))
  /\ MainGoto("user", 1)
  /\ UNCHANGED <<queue, sem, threadCount, canTerminate, pc, walkVars, workVars,
                 pushed, execs>>

NoResult ==
  /\ mpc = "check" /\ sink = <<>>
  /\ MainGoto("block", 1)
  /\ UNCHANGED <<dataVars, sem, threadCount, canTerminate, pc, walkVars, workVars,
                 userVars>>

Block ==
  /\ mpc = "block"
  /\ MainGoto("waiting", 1)
  /\ UNCHANGED <<dataVars, sem, threadCount, canTerminate, pc, walkVars, workVars,
                 userVars>>

(* std::condition_variable allows it, and nothing guarantees it.           *)
SpuriousWakeup ==
  /\ mpc = "waiting"
  /\ MainGoto("check", 1)
  /\ UNCHANGED <<dataVars, sem, threadCount, canTerminate, pc, walkVars, workVars,
                 userVars>>

(* Mutant: the workers are released without their can_terminate flags.     *)
MainTerm_Unflagged ==
  /\ mpc = "user" /\ todo[Main] = <<>>
  /\ MainGoto("release", 1)
  /\ UNCHANGED <<dataVars, sem, threadCount, canTerminate, pc, walkVars, workVars,
                 userVars>>

(* tu_dfg_term: group after group.  Data that are not processed stay in    *)
(* the queues.                                                             *)
MainTerm ==
  /\ mpc = "user" /\ todo[Main] = <<>>
  /\ MainGoto("flags", 1)
  /\ UNCHANGED <<dataVars, sem, threadCount, canTerminate, pc, walkVars, workVars,
                 userVars>>

SetTerminate(w) ==
  /\ mpc = "flags" /\ w \in Members(mi) /\ ~ canTerminate[w]
  /\ \A v \in Members(mi) : v < w => canTerminate[v]
  /\ canTerminate' = [canTerminate EXCEPT ![w] = TRUE]
  /\ IF \A v \in Members(mi) \ {w} : canTerminate[v]
     THEN MainGoto("release", mi)
     ELSE UNCHANGED mainVars
  /\ UNCHANGED <<dataVars, sem, threadCount, pc, walkVars, workVars, userVars>>

ReleaseAll ==
  /\ mpc = "release"
  /\ sem' = [sem EXCEPT ![mi] = @ + Cardinality(Members(mi))]
  /\ MainGoto("join", mi)
  /\ UNCHANGED <<dataVars, threadCount, canTerminate, pc, walkVars, workVars, userVars>>

JoinAll ==
  /\ mpc = "join"
  /\ \A w \in Members(mi) : pc[w] = "exited"
  /\ IF mi < NumGroups THEN MainGoto("flags", mi + 1) ELSE MainGoto("end", 1)
  /\ UNCHANGED <<dataVars, sem, threadCount, canTerminate, pc, walkVars, workVars,
                 userVars>>

(* tu_dfg_exec again: the queues and the semaphores are as they were left. *)
MainExec ==
  /\ mpc = "end" /\ execs < MaxExecs
  /\ execs' = execs + 1
  /\ MainGoto("start", 1)
  /\ UNCHANGED <<dataVars, sem, threadCount, canTerminate, pc, walkVars, workVars,
                 pushed, got>>

StartWorker(w) ==
  /\ mpc = "start" /\ mi = w
  /\ canTerminate' = [canTerminate EXCEPT ![w] = FALSE]
  /\ Goto(w, "park")
  /\ IF w < NumWorkers THEN MainGoto("start", w + 1) ELSE MainGoto("user", 1)
  /\ UNCHANGED <<dataVars, sem, threadCount, walkVars, workVars, userVars>>

Terminated == mpc = "end" /\ UNCHANGED vars

-----------------------------------------------------------------------------
WorkerStep(w) ==
  \/ Send(w)
  \/ Acquire(w) \/ CheckTerminate(w)
  \/ LoadCount(w) \/ Enter(w) \/ Refused(w)
  \/ Dequeue(w) \/ InputEmpty(w) \/ DequeueFail(w) \/ ExecReturn(w)
  \/ FetchSub(w) \/ NextNode(w) \/ Restart(w)

(* What the main thread does inside the functions of the dfg. *)
MainStep ==
  \/ Send(Main)
  \/ TakeResult \/ NoResult \/ Block
  \/ \E w \in Worker : SetTerminate(w) \/ StartWorker(w)
  \/ ReleaseAll \/ JoinAll

(* What the program decides. *)
UserStep ==
  \/ \E d \in Datum : MainPush(d)
  \/ MainWait \/ MainTerm \/ MainExec

Next ==
  \/ \E w \in Worker : WorkerStep(w)
  \/ MainStep
  \/ UserStep
  \/ SpuriousWakeup
  \/ Terminated

Spec == Init /\ [][Next]_vars

(* Every thread that can run does, and the executed functions return.      *)
Fairness ==
  /\ \A w \in Worker : WF_vars(WorkerStep(w))
  /\ WF_vars(MainStep)

FairSpec == Spec /\ Fairness

-----------------------------------------------------------------------------
(* Properties                                                              *)

(* The workers that are between the increment and the decrement of the     *)
(* thread_count of a node, and those that process its data.                *)
Counted(n) == {w \in Worker : pc[w] \in {"dequeue", "exec", "sub"} /\ NodeAt(w) = n}
Processing(n) == {w \in Worker : pc[w] \in {"dequeue", "exec"} /\ NodeAt(w) = n}

(* At most max_thread_count workers process the queues of a node at a      *)
(* time, and one worker those of a state, whichever of them are refused    *)
(* between their load of thread_count and their fetch_add.                 *)
NodeLimit == \A n \in Node : Cardinality(Processing(n)) <= MaxThreads[n]

(* Nothing is left to happen to the workers of a group without a new push. *)
Quiet(g) ==
  /\ sem[g] = 0
  /\ \A w \in Members(g) : pc[w] = "park"
  /\ \A t \in Thread : \A i \in DOMAIN todo[t] :
       todo[t][i].op = "release" => GroupOf(todo[t][i].node) # g

(* The workers of a group do not all go to sleep while data are in a queue *)
(* of the group.  It holds as long as each group has one worker.           *)
GroupServed(g) ==
  Quiet(g) => \A q \in Input : GroupOf(q[1]) = g => queue[q] = <<>>

Served == \A g \in Group : GroupServed(g)

(* A thread_count is the number of workers between their fetch_add and     *)
(* their decrement.  In particular it is back to 0 when the workers have   *)
(* been joined: a node can be entered again after the next tu_dfg_exec.    *)
CountExact ==
  \A n \in Node : threadCount[n] = Cardinality(Counted(n))

Results == {got[i][1] : i \in DOMAIN got} \cup {sink[i][1] : i \in DOMAIN sink}

(* Every datum pushed leads to a result, unless the dfg is terminated.     *)
ResultProduced ==
  \A d \in Datum :
    d \in pushed ~> d \in Results \/ mpc \in {"flags", "release", "join", "end"}

(* tu_dfg_term returns, whatever the workers are doing when it is called.  *)
TermReturns == mpc \in {"flags", "release", "join"} ~> mpc = "end"
=============================================================================
