------------------------------ MODULE DfgProofs ------------------------------
(***************************************************************************)
(* For any graph, any groups of workers and any number of data: the limit  *)
(* on the workers that process a node, and the exclusion between those of  *)
(* a state.                                                                *)
(***************************************************************************)
EXTENDS DfgInd, FiniteSetTheorems, SequenceTheorems, WellFoundedInduction, TLAPS

USE DEF Goto, MainGoto, dataVars, walkVars, workVars, mainVars, userVars

(* The sets of workers that the invariant counts are finite. *)
LEMMA WorkersFinite ==
  ASSUME NEW n
  PROVE  /\ IsFiniteSet(Counted(n)) /\ Cardinality(Counted(n)) \in Nat
         /\ IsFiniteSet(Processing(n)) /\ Cardinality(Processing(n)) \in Nat
         /\ Processing(n) \subseteq Counted(n)
         /\ Cardinality(Processing(n)) <= Cardinality(Counted(n))
<1>1. IsFiniteSet(Worker)
  BY DfgAssumption, FS_Interval DEF Worker
<1>2. Counted(n) \subseteq Worker /\ Processing(n) \subseteq Counted(n)
  BY DEF Counted, Processing
<1>3. IsFiniteSet(Counted(n)) /\ IsFiniteSet(Processing(n))
  BY <1>1, <1>2, FS_Subset
<1>4. Cardinality(Processing(n)) <= Cardinality(Counted(n))
  BY <1>2, <1>3, FS_Subset
<1> QED BY <1>2, <1>3, <1>4, FS_CardinalityType

(* A worker that walks through the nodes of its group is at a node. *)
LEMMA AtNode ==
  ASSUME WalkInv, NEW w \in Worker, pc[w] \in Walking
  PROVE  NodeAt(w) \in Node
<1>1. NodesOf[GroupOfWorker[w]] \in Seq(Node)
  BY DfgAssumption
<1>2. idx[w] \in 1 .. Len(NodesOf[GroupOfWorker[w]])
  BY DEF WalkInv
<1> QED BY <1>1, <1>2 DEF NodeAt

(* A step in which no worker reaches or leaves the part of the walk that   *)
(* thread_count counts changes neither the counts nor the limits.          *)
LEMMA SameCount ==
  ASSUME CountExact, NodeLimit, threadCount' = threadCount,
         \A v \in Worker :
           /\ pc'[v] \in {"dequeue", "exec", "sub"}
                <=> pc[v] \in {"dequeue", "exec", "sub"}
           /\ pc'[v] \in {"dequeue", "exec"} => pc[v] \in {"dequeue", "exec"}
           /\ pc[v] \in {"dequeue", "exec", "sub"} => idx'[v] = idx[v]
  PROVE  CountExact' /\ NodeLimit'
<1>1. ASSUME NEW n \in Node
      PROVE  Counted(n)' = Counted(n) /\ Processing(n)' \subseteq Processing(n)
  BY DEF Counted, Processing, NodeAt
<1>2. CountExact'
  BY <1>1 DEF CountExact
<1>3. ASSUME NEW n \in Node
      PROVE  Cardinality(Processing(n)') <= MaxThreads[n]
  <2>1. Cardinality(Processing(n)') <= Cardinality(Processing(n))
        /\ Cardinality(Processing(n)') \in Nat
    BY <1>1, WorkersFinite, FS_Subset, FS_CardinalityType
  <2>2. Cardinality(Processing(n)) \in Nat /\ MaxThreads[n] \in Nat
        /\ Cardinality(Processing(n)) <= MaxThreads[n]
    BY WorkersFinite, DfgAssumption DEF NodeLimit
  <2> QED BY <2>1, <2>2
<1>4. NodeLimit'
  BY <1>3 DEF NodeLimit
<1> QED BY <1>2, <1>4

(* Adding results and notifying touches neither the walk nor the counts.   *)
LEMMA SendInv ==
  ASSUME DfgInv, NEW t \in Thread, Send(t)
  PROVE  DfgInv'
<1>1. /\ UNCHANGED <<threadCount, idx, pc, mi>>
      /\ \/ mpc' = mpc
         \/ mpc = "waiting" /\ mpc' = "check"
  <2>1. CASE NotifyResult(t)
    BY <2>1 DEF NotifyResult
  <2>2. CASE PushSink(t) \/ PushQueue(t) \/ NotifyWorkers(t)
    BY <2>2 DEF PushSink, PushQueue, NotifyWorkers
  <2> QED BY <2>1, <2>2 DEF Send
<1>2. CountExact' /\ NodeLimit'
  BY <1>1, SameCount DEF DfgInv
<1>3. WalkInv'
  BY <1>1 DEF DfgInv, WalkInv
<1>4. JoinInv'
  BY <1>1 DEF DfgInv, JoinInv, Exited, MainPC
<1> QED BY <1>2, <1>3, <1>4 DEF DfgInv

(* A worker that fetch_add admits to a node found fewer workers counted    *)
(* there than the node allows, and those that process its data are among   *)
(* them.                                                                   *)
LEMMA EnterInv ==
  ASSUME DfgInv, NEW w \in Worker, Enter(w)
  PROVE  DfgInv'
<1>0. PICK m \in Node : m = NodeAt(w)
  BY AtNode DEF Enter, FetchAdd, DfgInv, Walking
<1>1. /\ pc[w] = "add" /\ pc' = [pc EXCEPT ![w] = "dequeue"]
      /\ threadCount' = [threadCount EXCEPT ![m] = @ + 1]
      /\ threadCount[m] < MaxThreads[m]
      /\ UNCHANGED <<idx, mpc, mi>>
  BY <1>0 DEF Enter, FetchAdd
<1>3. /\ w \notin Counted(m)
      /\ Counted(m)' = Counted(m) \cup {w}
      /\ Processing(m)' = Processing(m) \cup {w}
  BY <1>0, <1>1 DEF DfgInv, WalkInv, Counted, Processing, NodeAt
<1>4. ASSUME NEW n \in Node, n # m
      PROVE  Counted(n)' = Counted(n) /\ Processing(n)' = Processing(n)
  BY <1>0, <1>1, <1>4 DEF DfgInv, WalkInv, Counted, Processing, NodeAt
<1>5. /\ threadCount[m] \in Nat /\ MaxThreads[m] \in Nat
      /\ threadCount'[m] = threadCount[m] + 1
      /\ threadCount' \in [Node -> Nat]
      /\ \A n \in Node : n # m => threadCount'[n] = threadCount[n]
  <2>1. MaxThreads[m] \in Nat
    BY DfgAssumption
  <2> QED BY <1>1, <2>1 DEF DfgInv, WalkInv
<1>6. /\ Cardinality(Counted(m)') = Cardinality(Counted(m)) + 1
      /\ Cardinality(Processing(m)') = Cardinality(Processing(m)) + 1
  <2>1. w \notin Processing(m)
    BY <1>3, WorkersFinite
  <2> QED BY <1>3, <2>1, WorkersFinite, FS_AddElement
<1>7. CountExact'
  BY <1>4, <1>5, <1>6 DEF DfgInv, CountExact
<1>8. Cardinality(Processing(m)') <= MaxThreads[m]
  <2>1. threadCount[m] = Cardinality(Counted(m))
    BY DEF DfgInv, CountExact
  <2> QED BY <1>1, <1>5, <1>6, <2>1, WorkersFinite
<1>9. NodeLimit'
  BY <1>4, <1>8 DEF DfgInv, NodeLimit
<1>10. WalkInv'
  BY <1>1, <1>5 DEF DfgInv, WalkInv, WorkerPC, Walking
<1>11. JoinInv'
  BY <1>1 DEF DfgInv, WalkInv, JoinInv, Exited
<1> QED BY <1>7, <1>9, <1>10, <1>11 DEF DfgInv

(* A worker that fetch_add refuses is counted until it has given its count *)
(* back.                                                                   *)
LEMMA RefusedInv ==
  ASSUME DfgInv, NEW w \in Worker, Refused(w)
  PROVE  DfgInv'
<1>0. PICK m \in Node : m = NodeAt(w)
  BY AtNode DEF Refused, FetchAdd, DfgInv, Walking
<1>1. /\ pc[w] = "add" /\ pc' = [pc EXCEPT ![w] = "sub"]
      /\ threadCount' = [threadCount EXCEPT ![m] = @ + 1]
      /\ UNCHANGED <<idx, mpc, mi>>
  BY <1>0 DEF Refused, FetchAdd
<1>3. w \notin Counted(m) /\ Counted(m)' = Counted(m) \cup {w}
  BY <1>0, <1>1 DEF DfgInv, WalkInv, Counted, NodeAt
<1>4. \A n \in Node : /\ Processing(n)' = Processing(n)
                      /\ n # m => Counted(n)' = Counted(n)
  BY <1>0, <1>1 DEF DfgInv, WalkInv, Counted, Processing, NodeAt
<1>5. /\ threadCount'[m] = threadCount[m] + 1
      /\ threadCount' \in [Node -> Nat]
      /\ \A n \in Node : n # m => threadCount'[n] = threadCount[n]
  BY <1>1 DEF DfgInv, WalkInv
<1>6. Cardinality(Counted(m)') = Cardinality(Counted(m)) + 1
  BY <1>3, WorkersFinite, FS_AddElement
<1>7. CountExact'
  BY <1>4, <1>5, <1>6 DEF DfgInv, CountExact
<1>8. NodeLimit'
  BY <1>4 DEF DfgInv, NodeLimit
<1>9. WalkInv'
  BY <1>1, <1>5 DEF DfgInv, WalkInv, WorkerPC, Walking
<1>10. JoinInv'
  BY <1>1 DEF DfgInv, WalkInv, JoinInv, Exited
<1> QED BY <1>7, <1>8, <1>9, <1>10 DEF DfgInv

(* A worker leaves a node with exactly its own count.                      *)
LEMMA FetchSubInv ==
  ASSUME DfgInv, NEW w \in Worker, FetchSub(w)
  PROVE  DfgInv'
<1>0. PICK m \in Node : m = NodeAt(w)
  BY AtNode DEF FetchSub, DfgInv, Walking
<1>1. /\ pc[w] = "sub" /\ pc' = [pc EXCEPT ![w] = "next"]
      /\ threadCount' = [threadCount EXCEPT ![m] = @ - 1]
      /\ UNCHANGED <<idx, mpc, mi>>
  BY <1>0 DEF FetchSub
<1>3. w \in Counted(m) /\ Counted(m)' = Counted(m) \ {w}
  BY <1>0, <1>1 DEF DfgInv, WalkInv, Counted, NodeAt
<1>4. \A n \in Node : /\ Processing(n)' = Processing(n)
                      /\ n # m => Counted(n)' = Counted(n)
  BY <1>0, <1>1 DEF DfgInv, WalkInv, Counted, Processing, NodeAt
<1>5. /\ Cardinality(Counted(m)') = Cardinality(Counted(m)) - 1
      /\ Cardinality(Counted(m)') \in Nat
  <2>1. IsFiniteSet(Counted(m)')
    BY <1>3, WorkersFinite, FS_Subset
  <2> QED BY <1>3, <2>1, WorkersFinite, FS_RemoveElement, FS_CardinalityType
<1>6. threadCount[m] = Cardinality(Counted(m))
  BY DEF DfgInv, CountExact
<1>7. /\ threadCount'[m] = threadCount[m] - 1
      /\ threadCount' \in [Node -> Nat]
      /\ \A n \in Node : n # m => threadCount'[n] = threadCount[n]
  BY <1>1, <1>5, <1>6 DEF DfgInv, WalkInv
<1>8. CountExact'
  BY <1>4, <1>5, <1>6, <1>7 DEF DfgInv, CountExact
<1>9. NodeLimit'
  BY <1>4 DEF DfgInv, NodeLimit
<1>10. WalkInv'
  BY <1>1, <1>7 DEF DfgInv, WalkInv, WorkerPC, Walking
<1>11. JoinInv'
  BY <1>1 DEF DfgInv, WalkInv, JoinInv, Exited
<1> QED BY <1>8, <1>9, <1>10, <1>11 DEF DfgInv

(* The other steps of a worker leave thread_count alone. *)
LEMMA WorkerInv ==
  ASSUME DfgInv, NEW w \in Worker, WorkerStep(w)
  PROVE  DfgInv'
<1>1. CASE Enter(w)
  BY <1>1, EnterInv
<1>2. CASE Refused(w)
  BY <1>2, RefusedInv
<1>3. CASE FetchSub(w)
  BY <1>3, FetchSubInv
<1>4. CASE Send(w)
  <2>1. w \in Thread
    BY DEF Thread
  <2> QED BY <1>4, <2>1, SendInv
<1>5. CASE Acquire(w) \/ CheckTerminate(w) \/ LoadCount(w) \/ NextNode(w) \/ Restart(w)
  <2>1. /\ threadCount' = threadCount /\ UNCHANGED <<mpc, mi>>
        /\ pc[w] \in {"park", "check", "load", "next"}
        /\ \E l \in {"check", "exited", "load", "add", "next", "park"} :
             pc' = [pc EXCEPT ![w] = l]
        /\ \A v \in Worker : v # w => idx'[v] = idx[v]
    BY <1>5 DEF Acquire, CheckTerminate, LoadCount, NextNode, Restart, DfgInv, WalkInv
  <2>2. CountExact' /\ NodeLimit'
    BY <2>1, SameCount DEF DfgInv, WalkInv
  <2>3. idx' \in [Worker -> Nat]
    BY <1>5 DEF Acquire, CheckTerminate, LoadCount, NextNode, Restart, DfgInv, WalkInv
  <2>4. pc'[w] \in Walking => idx'[w] \in 1 .. Len(NodesOf[GroupOfWorker[w]])
    <3>1. /\ NodesOf[GroupOfWorker[w]] \in Seq(Node)
          /\ NodesOf[GroupOfWorker[w]] # <<>>
      BY DfgAssumption, GraphAssumption
    <3>2. 1 \in 1 .. Len(NodesOf[GroupOfWorker[w]])
      BY <3>1
    <3>3. pc[w] \in Walking => idx[w] \in 1 .. Len(NodesOf[GroupOfWorker[w]])
      BY DEF DfgInv, WalkInv
    <3>4. CASE Acquire(w)
      BY <3>4 DEF Acquire, DfgInv, WalkInv, Walking
    <3>5. CASE CheckTerminate(w)
      BY <3>2, <3>5 DEF CheckTerminate, DfgInv, WalkInv
    <3>6. CASE LoadCount(w)
      BY <3>3, <3>6 DEF LoadCount, DfgInv, WalkInv, Walking
    <3>7. CASE NextNode(w)
      BY <3>1, <3>3, <3>7 DEF NextNode, DfgInv, WalkInv, Walking
    <3>8. CASE Restart(w)
      BY <3>2, <3>8 DEF Restart, DfgInv, WalkInv, Walking
    <3> QED BY <1>5, <3>4, <3>5, <3>6, <3>7, <3>8
  <2>5. WalkInv'
    BY <2>1, <2>3, <2>4 DEF DfgInv, WalkInv, WorkerPC
  <2>6. JoinInv'
    BY <2>1 DEF DfgInv, WalkInv, JoinInv, Exited
  <2> QED BY <2>2, <2>5, <2>6 DEF DfgInv
<1>6. CASE Dequeue(w) \/ InputEmpty(w) \/ DequeueFail(w) \/ ExecReturn(w)
  <2>1. /\ UNCHANGED <<threadCount, idx, mpc, mi>>
        /\ pc[w] \in {"dequeue", "exec"}
        /\ \/ pc' = pc
           \/ \E l \in {"dequeue", "exec", "sub"} : pc' = [pc EXCEPT ![w] = l]
    BY <1>6 DEF Dequeue, InputEmpty, DequeueFail, ExecReturn
  <2>2. CountExact' /\ NodeLimit'
    BY <2>1, SameCount DEF DfgInv, WalkInv
  <2>3. WalkInv'
    BY <2>1 DEF DfgInv, WalkInv, WorkerPC, Walking
  <2>4. JoinInv'
    BY <2>1 DEF DfgInv, WalkInv, JoinInv, Exited
  <2> QED BY <2>2, <2>3, <2>4 DEF DfgInv
<1> QED BY <1>1, <1>2, <1>3, <1>4, <1>5, <1>6 DEF WorkerStep

(* tu_dfg_term joins the groups one after the other, and tu_dfg_exec       *)
(* starts the workers when all of them have been joined.                   *)
LEMMA MainInv ==
  ASSUME DfgInv, MainStep \/ UserStep \/ SpuriousWakeup
  PROVE  DfgInv'
<1>1. CASE Send(Main)
  <2>1. Main \in Thread
    BY DEF Thread
  <2> QED BY <1>1, <2>1, SendInv
<1>2. CASE \E w \in Worker : StartWorker(w)
  <2>1. PICK w \in Worker : StartWorker(w)
    BY <1>2
  <2>2. /\ mpc = "start" /\ mi = w /\ Exited(w)
        /\ UNCHANGED <<threadCount, idx>>
        /\ pc' = [pc EXCEPT ![w] = "park"]
        /\ \/ w < NumWorkers /\ mpc' = "start" /\ mi' = w + 1
           \/ mpc' = "user"
    <3>1. mpc = "start" /\ mi = w /\ Exited(w)
      <4>1. w >= w
        BY DEF Worker
      <4> QED BY <2>1, <4>1 DEF StartWorker, DfgInv, JoinInv
    <3> QED BY <2>1, <3>1 DEF StartWorker
  <2>3. CountExact' /\ NodeLimit'
    BY <2>2, SameCount DEF DfgInv, WalkInv, Exited
  <2>4. WalkInv'
    BY <2>2 DEF DfgInv, WalkInv, WorkerPC, Walking
  <2>5. JoinInv'
    <3>1. CASE mpc' = "user"
      BY <3>1 DEF JoinInv, MainPC
    <3>2. CASE w < NumWorkers /\ mpc' = "start" /\ mi' = w + 1
      <4>1. \A v \in Worker : v >= w => Exited(v)
        BY <2>2 DEF DfgInv, JoinInv
      <4>2. \A v \in Worker : v >= w + 1 => v >= w /\ v # w
        BY DEF Worker
      <4>3. \A v \in Worker : v >= w + 1 => Exited(v)'
        BY <2>2, <4>1, <4>2 DEF DfgInv, WalkInv, Exited
      <4>4. w + 1 \in Worker
        BY <3>2, DfgAssumption DEF Worker
      <4> QED BY <3>2, <4>3, <4>4 DEF JoinInv, MainPC
    <3> QED BY <2>2, <3>1, <3>2
  <2> QED BY <2>3, <2>4, <2>5 DEF DfgInv
<1>3. CASE /\ MainStep \/ UserStep \/ SpuriousWakeup
           /\ ~ Send(Main) /\ ~ \E w \in Worker : StartWorker(w)
  <2>1. UNCHANGED <<threadCount, idx, pc>>
    BY <1>3 DEF MainStep, UserStep, TakeResult, NoResult, Block, SpuriousWakeup,
       SetTerminate, ReleaseAll, JoinAll, MainPush, MainWait, MainTerm, MainExec
  <2>2. CountExact' /\ NodeLimit'
    BY <2>1, SameCount DEF DfgInv
  <2>3. WalkInv'
    BY <2>1 DEF DfgInv, WalkInv
  <2>4. JoinInv'
    <3>1. CASE JoinAll
      <4>1. /\ mpc = "join" /\ mi \in Group /\ mpc' \in MainPC
            /\ \A w \in Worker : GroupOfWorker[w] <= mi => Exited(w)
            /\ \/ mi < NumGroups /\ mpc' = "flags" /\ mi' = mi + 1
               \/ mi = NumGroups /\ mpc' = "end"
        <5>1. \A w \in Worker : GroupOfWorker[w] \in Group
          BY DfgAssumption
        <5> QED BY <3>1, <5>1, DfgAssumption
                DEF JoinAll, DfgInv, JoinInv, Exited, MainPC, Members, Group
      <4>2. \A w \in Worker : Exited(w)' = Exited(w) /\ GroupOfWorker[w] \in 1 .. NumGroups
        BY <2>1, DfgAssumption DEF Exited, Group
      <4> QED BY <4>1, <4>2, DfgAssumption DEF JoinInv, Group
    <3>2. CASE \E w \in Worker : SetTerminate(w)
      BY <3>2, <2>1 DEF SetTerminate, DfgInv, JoinInv, Exited, MainPC
    <3>3. CASE ReleaseAll
      BY <3>3, <2>1 DEF ReleaseAll, DfgInv, JoinInv, Exited, MainPC
    <3>4. CASE MainTerm
      BY <3>4, <2>1, DfgAssumption
         DEF MainTerm, DfgInv, JoinInv, Exited, MainPC, Group
    <3>5. CASE MainExec
      BY <3>5, <2>1, DfgAssumption
         DEF MainExec, DfgInv, JoinInv, Exited, MainPC, Worker
    <3>6. CASE \/ TakeResult \/ NoResult \/ Block \/ SpuriousWakeup \/ MainWait
               \/ \E d \in Datum : MainPush(d)
      BY <3>6, <2>1 DEF TakeResult, NoResult, Block, SpuriousWakeup, MainWait,
         MainPush, DfgInv, JoinInv, Exited, MainPC
    <3> QED BY <1>3, <3>1, <3>2, <3>3, <3>4, <3>5, <3>6 DEF MainStep, UserStep
  <2> QED BY <2>2, <2>3, <2>4 DEF DfgInv
<1> QED BY <1>1, <1>2, <1>3

(* The invariant holds in every reachable state. *)
THEOREM DfgInvariance == Spec => []DfgInv
<1>1. Init => DfgInv
  <2> SUFFICES ASSUME Init PROVE DfgInv
    OBVIOUS
  <2>1. WalkInv /\ JoinInv
    BY DEF Init, WalkInv, JoinInv, WorkerPC, MainPC, Walking
  <2>2. \A n \in Node : Counted(n) = {} /\ Processing(n) = {}
    BY DEF Init, Counted, Processing
  <2>3. CountExact /\ NodeLimit
    <3>1. Cardinality({}) = 0
      BY FS_EmptySet
    <3>2. \A n \in Node : MaxThreads[n] >= 0
      BY DfgAssumption
    <3> QED BY <2>2, <3>1, <3>2 DEF Init, CountExact, NodeLimit
  <2> QED BY <2>1, <2>3 DEF DfgInv
<1>2. DfgInv /\ [Next]_vars => DfgInv'
  <2> SUFFICES ASSUME DfgInv, [Next]_vars PROVE DfgInv'
    OBVIOUS
  <2>1. CASE \E w \in Worker : WorkerStep(w)
    BY <2>1, WorkerInv
  <2>2. CASE MainStep \/ UserStep \/ SpuriousWakeup
    BY <2>2, MainInv
  <2>3. CASE Terminated \/ UNCHANGED vars
    <3>1. UNCHANGED <<threadCount, idx, pc, mpc, mi>>
      BY <2>3 DEF Terminated, vars
    <3>2. CountExact' /\ NodeLimit'
      BY <3>1, SameCount DEF DfgInv
    <3> QED BY <3>1, <3>2 DEF DfgInv, WalkInv, JoinInv, Exited
  <2> QED BY <2>1, <2>2, <2>3 DEF Next
<1> QED BY <1>1, <1>2, PTL DEF Spec

(* thread_count never exceeds nor falls below the number of workers        *)
(* between fetch_add and the decrement: it cannot underflow, and it is     *)
(* zero again when the workers have been joined.                           *)
THEOREM ThreadCountIsExact == Spec => []CountExact
<1>1. DfgInv => CountExact
  BY DEF DfgInv
<1> QED BY <1>1, DfgInvariance, PTL

(* At most max_thread_count workers process the data of a node at a time.  *)
THEOREM NodeLimitHolds == Spec => []NodeLimit
<1>1. DfgInv => NodeLimit
  BY DEF DfgInv
<1> QED BY <1>1, DfgInvariance, PTL

(* A state is processed by one worker at a time: the comment before        *)
(* worker_process_state_queue.                                             *)
THEOREM StateExclusion ==
  Spec => [](\A n \in Node : IsState[n] =>
               \A v, w \in Worker : v \in Processing(n) /\ w \in Processing(n) => v = w)
<1> DEFINE Excl == \A n \in Node : IsState[n] =>
                     \A v, w \in Worker :
                       v \in Processing(n) /\ w \in Processing(n) => v = w
<1>1. ASSUME NodeLimit, NEW n \in Node, IsState[n], NEW v \in Worker, NEW w \in Worker,
             v \in Processing(n), w \in Processing(n), v # w
      PROVE  FALSE
  <2>1. {v, w} \subseteq Processing(n) /\ IsFiniteSet(Processing(n))
    BY <1>1, WorkersFinite
  <2>2. Cardinality({v, w}) <= Cardinality(Processing(n))
    BY <2>1, FS_Subset
  <2>3. Cardinality({v, w}) = 2
    <3>1. IsFiniteSet({v}) /\ Cardinality({v}) = 1
      BY FS_Singleton
    <3>2. Cardinality({v} \cup {w}) = Cardinality({v}) + 1
      BY <1>1, <3>1, FS_AddElement
    <3>3. {v, w} = {v} \cup {w}
      OBVIOUS
    <3> QED BY <3>1, <3>2, <3>3
  <2>4. Cardinality(Processing(n)) <= 1 /\ Cardinality(Processing(n)) \in Nat
    BY <1>1, GraphAssumption, WorkersFinite DEF NodeLimit
  <2> QED BY <2>2, <2>3, <2>4
<1>2. NodeLimit => Excl
  BY <1>1
<1> QED BY <1>2, NodeLimitHolds, PTL

-----------------------------------------------------------------------------
(* What tu_result does for one execution, for any number of results.         *)

(* A set of numbers has a smallest one: this is the induction that the       *)
(* concatenation of the steps needs.                                         *)
LEMMA LeastNumber ==
  ASSUME NEW T, T \subseteq Nat, T # {}
  PROVE  \E x \in T : \A y \in T : x <= y
<1> DEFINE R == StrictSubsetOrdering(Nat)
           Lower == {1 .. n : n \in T}
<1>1. IsWellFoundedOn(R, FiniteSubsetsOf(Nat))
  BY FS_StrictSubsetOrderingWellFounded
<1>2. Lower \subseteq FiniteSubsetsOf(Nat) /\ Lower # {}
  <2>1. ASSUME NEW n \in T
        PROVE  1 .. n \in FiniteSubsetsOf(Nat)
    <3>1. IsFiniteSet(1 .. n)
      BY FS_Interval
    <3>2. 1 .. n \in SUBSET Nat
      OBVIOUS
    <3> QED BY <3>1, <3>2 DEF FiniteSubsetsOf
  <2> QED BY <2>1
<1>3. PICK L \in Lower : \A M \in Lower : ~ (<<M, L>> \in R)
  <2> HIDE DEF R, Lower
  <2> QED BY <1>1, <1>2, WFMin
<1>4. PICK x \in T : L = 1 .. x
  OBVIOUS
<1>5. ASSUME NEW y \in T, y < x
      PROVE FALSE
  <2>1. 1 .. y \in Lower /\ 1 .. y \subseteq Nat /\ 1 .. x \subseteq Nat
    OBVIOUS
  <2>2. x \in 1 .. x /\ x \notin 1 .. y /\ 1 .. y \subseteq 1 .. x
    BY <1>5
  <2>3. <<1 .. y, L>> \in R
    BY <1>4, <2>1, <2>2 DEF StrictSubsetOrdering
  <2> QED BY <1>3, <2>1, <2>3
<1> QED BY <1>5

LEMMA Descent ==
  ASSUME NEW T, T \subseteq Nat, \A m \in T : m # 0 /\ m - 1 \in T
  PROVE  T = {}
<1> SUFFICES ASSUME T # {} PROVE FALSE
  OBVIOUS
<1>1. PICK m \in T : \A y \in T : m <= y
  BY LeastNumber
<1>2. m - 1 \in T /\ m \in Nat
  OBVIOUS
<1> QED BY <1>1, <1>2

(* Sequences of steps that announce what they add can be put together, and   *)
(* executed from the front.                                                  *)
LEMMA AnnouncedConcat ==
  ASSUME NEW r, NEW s, Announced(r), Announced(s)
  PROVE  Announced(r \o s)
<1>1. r \in Seq(Step) /\ s \in Seq(Step)
  BY DEF Announced
<1>2. /\ r \o s \in Seq(Step) /\ Len(r \o s) = Len(r) + Len(s)
      /\ \A i \in 1 .. Len(r) : (r \o s)[i] = r[i]
      /\ \A i \in 1 .. Len(s) : (r \o s)[Len(r) + i] = s[i]
  BY <1>1, ConcatProperties
<1>3. ASSUME NEW i \in DOMAIN (r \o s), (r \o s)[i].op = "push"
      PROVE  /\ Takes((r \o s)[i].node, (r \o s)[i].type)
             /\ \E j \in DOMAIN (r \o s) : j > i /\ (r \o s)[j] = Release((r \o s)[i].node)
  <2>1. CASE i \in 1 .. Len(r)
    <3>1. (r \o s)[i] = r[i] /\ i \in DOMAIN r
      BY <1>1, <1>2, <2>1
    <3>2. PICK j \in DOMAIN r : j > i /\ r[j] = Release(r[i].node)
      BY <1>3, <3>1 DEF Announced
    <3>3. j \in DOMAIN (r \o s) /\ (r \o s)[j] = r[j]
      BY <1>1, <1>2, <3>2
    <3> QED BY <1>3, <3>1, <3>2, <3>3 DEF Announced
  <2>2. CASE i \notin 1 .. Len(r)
    <3>1. PICK k \in DOMAIN s : i = Len(r) + k /\ (r \o s)[i] = s[k]
      <4>1. i - Len(r) \in 1 .. Len(s) /\ i = Len(r) + (i - Len(r))
        BY <1>1, <1>2, <2>2
      <4> QED BY <1>1, <1>2, <4>1
    <3>2. PICK j \in DOMAIN s : j > k /\ s[j] = Release(s[k].node)
      BY <1>3, <3>1 DEF Announced
    <3>3. Len(r) + j \in DOMAIN (r \o s) /\ (r \o s)[Len(r) + j] = s[j] /\ Len(r) + j > i
      BY <1>1, <1>2, <3>1, <3>2
    <3> QED BY <1>3, <3>1, <3>2, <3>3 DEF Announced
  <2> QED BY <2>1, <2>2
<1> QED BY <1>2, <1>3 DEF Announced

LEMMA AnnouncedTail ==
  ASSUME NEW s, Announced(s), s # <<>>
  PROVE  /\ Announced(Tail(s))
         /\ Head(s).op = "push" =>
              \E j \in DOMAIN Tail(s) : Tail(s)[j] = Release(Head(s).node)
<1>1. s \in Seq(Step)
  BY DEF Announced
<1>2. /\ Tail(s) \in Seq(Step) /\ Len(Tail(s)) = Len(s) - 1 /\ Len(s) \in Nat
      /\ \A i \in 1 .. Len(s) - 1 : Tail(s)[i] = s[i + 1]
      /\ Head(s) = s[1] /\ DOMAIN s = 1 .. Len(s) /\ DOMAIN Tail(s) = 1 .. Len(s) - 1
      /\ Len(s) >= 1
  BY <1>1
<1>3. ASSUME NEW j \in DOMAIN s, j > 1
      PROVE  j - 1 \in DOMAIN Tail(s) /\ Tail(s)[j - 1] = s[j]
  BY <1>2, <1>3
<1>4. ASSUME NEW i \in DOMAIN Tail(s), Tail(s)[i].op = "push"
      PROVE  /\ Takes(Tail(s)[i].node, Tail(s)[i].type)
             /\ \E j \in DOMAIN Tail(s) : j > i /\ Tail(s)[j] = Release(Tail(s)[i].node)
  <2>1. i + 1 \in DOMAIN s /\ Tail(s)[i] = s[i + 1]
    BY <1>2
  <2>2. PICK j \in DOMAIN s : j > i + 1 /\ s[j] = Release(s[i + 1].node)
    BY <1>4, <2>1 DEF Announced
  <2>3. j - 1 > i /\ j > 1
    BY <1>2, <2>2
  <2> QED BY <1>3, <1>4, <2>1, <2>2, <2>3 DEF Announced
<1>5. ASSUME Head(s).op = "push"
      PROVE  \E j \in DOMAIN Tail(s) : Tail(s)[j] = Release(Head(s).node)
  <2>1. PICK j \in DOMAIN s : j > 1 /\ s[j] = Release(s[1].node)
    BY <1>2, <1>5 DEF Announced
  <2> QED BY <1>2, <1>3, <2>1
<1> QED BY <1>2, <1>4, <1>5 DEF Announced

(* The steps of tu_result for one result: the data are added to the queues   *)
(* of all successors before the first of them is notified.                   *)
LEMMA ResultAnnounced ==
  ASSUME NEW n \in Node, NEW ty \in Type
  PROVE  Announced(ResultSteps(n, ty))
<1> DEFINE succ == IF ty \in DOMAIN Successors[n] THEN Successors[n][ty] ELSE <<>>
           sinks == IF ty \in SinkTypes[n] THEN <<Sink(ty), Notify>> ELSE <<>>
           adds == [i \in DOMAIN succ |-> Add(succ[i], ty)]
           releases == [i \in DOMAIN succ |-> Release(succ[i])]
<1>1. succ \in Seq(Node) /\ \A i \in DOMAIN succ : Takes(succ[i], ty)
  BY EdgesAssumption
<1>2. ResultSteps(n, ty) = sinks \o adds \o releases
  BY DEF ResultSteps
<1> HIDE DEF succ
<1>3. /\ Len(succ) \in Nat /\ DOMAIN succ = 1 .. Len(succ)
      /\ \A i \in DOMAIN succ : succ[i] \in Node
  BY <1>1
<1>4. sinks \in Seq(Step) /\ \A i \in DOMAIN sinks : sinks[i].op # "push"
  <2>1. Sink(ty) \in Step /\ Notify \in Step
    BY DEF Step
  <2>2. Sink(ty).op # "push" /\ Notify.op # "push"
    BY DEF Sink, Notify
  <2>3. CASE ty \in SinkTypes[n]
    <3>1. sinks = <<Sink(ty), Notify>>
      BY <2>3
    <3> HIDE DEF sinks
    <3>2. DOMAIN sinks = 1 .. 2 /\ sinks[1] = Sink(ty) /\ sinks[2] = Notify
      BY <3>1
    <3>3. sinks \in Seq(Step)
      BY <2>1, <3>1
    <3> QED BY <2>2, <3>2, <3>3
  <2>4. CASE ty \notin SinkTypes[n]
    <3>1. sinks = <<>>
      BY <2>4
    <3> HIDE DEF sinks
    <3> QED BY <3>1
  <2> QED BY <2>3, <2>4
<1>5. adds \in Seq(Step) /\ releases \in Seq(Step)
  <2>1. \A i \in DOMAIN succ : Add(succ[i], ty) \in Step /\ Release(succ[i]) \in Step
    BY <1>3 DEF Step
  <2> QED BY <1>3, <2>1
<1>6. /\ DOMAIN adds = DOMAIN succ /\ DOMAIN releases = DOMAIN succ
      /\ Len(adds) = Len(succ) /\ Len(releases) = Len(succ)
      /\ \A i \in DOMAIN succ : adds[i] = Add(succ[i], ty) /\ releases[i] = Release(succ[i])
  BY <1>3, <1>5
<1> HIDE DEF sinks, adds, releases
<1>7. Announced(sinks)
  BY <1>4 DEF Announced
<1>8. Announced(adds \o releases)
  <2>1. /\ adds \o releases \in Seq(Step)
        /\ DOMAIN (adds \o releases) = 1 .. Len(succ) + Len(succ)
        /\ \A i \in 1 .. Len(succ) + Len(succ) : (adds \o releases)[i] =
             IF i <= Len(succ) THEN adds[i] ELSE releases[i - Len(succ)]
    <3>1. /\ adds \o releases \in Seq(Step)
          /\ Len(adds \o releases) = Len(adds) + Len(releases)
          /\ \A i \in 1 .. Len(adds) + Len(releases) : (adds \o releases)[i] =
               IF i <= Len(adds) THEN adds[i] ELSE releases[i - Len(adds)]
      BY <1>5, ConcatProperties
    <3> QED BY <1>3, <1>6, <3>1
  <2>2. ASSUME NEW i \in 1 .. Len(succ) + Len(succ), (adds \o releases)[i].op = "push"
        PROVE  /\ Takes((adds \o releases)[i].node, (adds \o releases)[i].type)
               /\ \E j \in 1 .. Len(succ) + Len(succ) :
                    j > i /\ (adds \o releases)[j] = Release((adds \o releases)[i].node)
    <3>1. i \in DOMAIN succ
      <4>1. CASE i > Len(succ)
        <5>1. i - Len(succ) \in DOMAIN succ /\ (adds \o releases)[i] = releases[i - Len(succ)]
          BY <1>3, <2>1, <4>1
        <5> QED BY <1>6, <2>2, <5>1 DEF Release
      <4> QED BY <1>3, <4>1
    <3>2. (adds \o releases)[i] = Add(succ[i], ty)
      BY <1>3, <1>6, <2>1, <3>1
    <3>3. /\ Len(succ) + i \in 1 .. Len(succ) + Len(succ) /\ Len(succ) + i > i
          /\ (adds \o releases)[Len(succ) + i] = Release(succ[i])
      BY <1>3, <1>6, <2>1, <3>1
    <3>4. Add(succ[i], ty).node = succ[i] /\ Add(succ[i], ty).type = ty
      BY DEF Add
    <3> QED BY <1>1, <3>1, <3>2, <3>3, <3>4
  <2> QED BY <2>1, <2>2 DEF Announced
<1>9. sinks \o adds \o releases = sinks \o (adds \o releases)
  BY <1>4, <1>5, ConcatAssociative
<1> QED BY <1>2, <1>7, <1>8, <1>9, AnnouncedConcat

(* The recursion of ExecSteps defines a function: were there a shortest part *)
(* of the results without one, the function for the part before it could be  *)
(* extended.  The same argument shows that what it returns is announced.     *)
LEMMA ExecAnnounced ==
  ASSUME NEW n \in Node, NEW ty \in Type, Takes(n, ty)
  PROVE  Announced(ExecSteps(n, ty))
<1> DEFINE results == Emits[n][ty]
           N == Len(results)
           Def(m, g) ==
             g = [k \in 0 .. m |->
                    IF k = 0 THEN <<>> ELSE g[k - 1] \o ResultSteps(n, results[k])]
           Undefined == {m \in 0 .. N : ~ \E g : Def(m, g)}
<1>1. N \in Nat /\ \A k \in 1 .. N : results[k] \in Type
  BY EdgesAssumption
<1>2. Undefined = {}
  <2>1. ASSUME NEW m \in Undefined
        PROVE  m # 0 /\ m - 1 \in Undefined
    <3>1. m # 0
      <4>1. Def(0, [k \in 0 .. 0 |-> <<>>])
        OBVIOUS
      <4> QED BY <4>1
    <3>a. m \in Nat
      <4> HIDE DEF Def, N
      <4> QED BY <1>1
    <3>2. ASSUME NEW g, Def(m - 1, g)
          PROVE  FALSE
      <4> DEFINE h == [k \in 0 .. m |->
                         IF k < m THEN g[k] ELSE g[m - 1] \o ResultSteps(n, results[m])]
      <4>1. ASSUME NEW k \in 0 .. m
            PROVE  h[k] = IF k = 0 THEN <<>> ELSE h[k - 1] \o ResultSteps(n, results[k])
        <5>1. CASE k < m
          BY <3>1, <3>2, <5>1
        <5>2. CASE k = m
          <6>1. k # 0 /\ k - 1 \in 0 .. m /\ k - 1 < m
            BY <3>1, <3>a, <5>2
          <6>2. h[k - 1] = g[m - 1] /\ h[k] = g[m - 1] \o ResultSteps(n, results[m])
            <7>1. h[k - 1] = g[k - 1]
              BY <6>1
            <7>2. ~ (k < m)
              BY <3>a, <5>2
            <7>3. h[k] = g[m - 1] \o ResultSteps(n, results[m])
              BY <7>2
            <7> QED BY <5>2, <7>1, <7>3
          <6> QED BY <5>2, <6>1, <6>2
        <5> QED BY <5>1, <5>2
      <4>2. Def(m, h)
        BY <4>1
      <4> QED BY <4>2
    <3>3. m - 1 \in 0 .. N
      BY <1>1, <3>1
    <3> QED BY <3>1, <3>2, <3>3
  <2>2. Undefined \subseteq Nat
    <3> HIDE DEF Def, N
    <3> QED BY <1>1
  <2> HIDE DEF Undefined
  <2> QED BY <2>1, <2>2, Descent
<1> DEFINE F == CHOOSE g : Def(N, g)
<1>3. ExecSteps(n, ty) = F[N]
  BY DEF ExecSteps
<1>4. Def(N, F)
  <2>1. \E g : Def(N, g)
    <3> HIDE DEF Def, N
    <3> QED BY <1>1, <1>2
  <2> HIDE DEF Def
  <2> QED BY <2>1
<1>5. F[0] = <<>> /\ \A k \in 1 .. N : F[k] = F[k - 1] \o ResultSteps(n, results[k])
  <2>1. \A k \in 0 .. N : F[k] = IF k = 0 THEN <<>> ELSE F[k - 1] \o ResultSteps(n, results[k])
    <3>1. F = [k \in 0 .. N |->
                 IF k = 0 THEN <<>> ELSE F[k - 1] \o ResultSteps(n, results[k])]
      <4> HIDE DEF F
      <4> QED BY <1>4
    <3> HIDE DEF F, N, results
    <3> QED BY <3>1
  <2>2. 0 \in 0 .. N /\ \A k \in 1 .. N : k \in 0 .. N /\ k # 0
    <3> HIDE DEF N
    <3> QED BY <1>1
  <2> HIDE DEF F, N, results
  <2> QED BY <2>1, <2>2
<1> HIDE DEF F, Def, Undefined
<1> DEFINE Bad == {m \in 0 .. N : ~ Announced(F[m])}
<1>6. Bad = {}
  <2>1. ASSUME NEW m \in Bad
        PROVE  m # 0 /\ m - 1 \in Bad
    <3>1. m # 0
      <4>1. Announced(<<>>)
        BY DEF Announced
      <4> QED BY <1>5, <4>1
    <3>2. m \in 1 .. N /\ m - 1 \in 0 .. N
      BY <1>1, <3>1
    <3>3. Announced(F[m - 1]) => Announced(F[m])
      <4>1. Announced(ResultSteps(n, results[m]))
        BY <1>1, <3>2, ResultAnnounced
      <4> QED BY <1>5, <3>2, <4>1, AnnouncedConcat
    <3> QED BY <3>1, <3>2, <3>3
  <2>2. Bad \subseteq Nat
    BY <1>1
  <2> HIDE DEF Bad
  <2> QED BY <2>1, <2>2, Descent
<1> QED BY <1>1, <1>3, <1>6

(* (The pairs of steps that the next lemma needs.)                           *)
LEMMA Pairs ==
  ASSUME NEW k \in Nat, NEW i \in 1 .. 2 * k
  PROVE  /\ i % 2 = 1 => /\ (i + 1) \div 2 \in 1 .. k
                         /\ i + 1 \in 1 .. 2 * k /\ (i + 1) % 2 # 1
         /\ i % 2 # 1 => i \div 2 \in 1 .. k
<1>1. i \in Int
  OBVIOUS
<1>2. CASE i % 2 = 1
  <2>1. (i + 1) \div 2 \in 1 .. k
    BY <1>1, <1>2
  <2>2. (i + 1) % 2 # 1
    BY <1>1, <1>2
  <2>3. i + 1 \in 1 .. 2 * k
    BY <1>1, <1>2
  <2> QED BY <1>2, <2>1, <2>2, <2>3
<1>3. CASE i % 2 # 1
  BY <1>1, <1>3
<1> QED BY <1>2, <1>3

(* tu_dfg_push_data notifies the group of a node after it has added the      *)
(* datum to the node's queue.                                                *)
LEMMA PushAnnounced ==
  ASSUME NEW d \in Datum, MainPush(d), DfgTypeOK
  PROVE  Announced(todo'[Main])
<1>1. PICK nodes : nodes = GraphInputs[TypeOf[d]]
  OBVIOUS
<1>2. PICK ty \in Type : ty = TypeOf[d]
  BY EdgesAssumption
<1>3. /\ nodes \in Seq(Node) /\ Len(nodes) \in Nat /\ DOMAIN nodes = 1 .. Len(nodes)
      /\ \A i \in 1 .. Len(nodes) : nodes[i] \in Node /\ Takes(nodes[i], ty)
  <2>1. /\ nodes \in Seq(Node)
        /\ \A i \in DOMAIN nodes : Takes(nodes[i], ty)
    BY <1>1, <1>2, EdgesAssumption
  <2> QED BY <2>1
<1>4. PICK s : s = [i \in 1 .. 2 * Len(nodes) |->
                      IF i % 2 = 1 THEN Add(nodes[(i + 1) \div 2], ty)
                                   ELSE Release(nodes[i \div 2])]
  OBVIOUS
<1>5. todo'[Main] = s
  BY <1>1, <1>2, <1>4 DEF MainPush, DfgTypeOK, Thread
<1>6. ASSUME NEW i \in 1 .. 2 * Len(nodes), i % 2 = 1
      PROVE  /\ (i + 1) \div 2 \in 1 .. Len(nodes)
             /\ s[i] = Add(nodes[(i + 1) \div 2], ty)
             /\ i + 1 \in 1 .. 2 * Len(nodes) /\ (i + 1) % 2 # 1
  BY <1>3, <1>4, <1>6, Pairs
<1>7. ASSUME NEW i \in 1 .. 2 * Len(nodes), i % 2 # 1
      PROVE  i \div 2 \in 1 .. Len(nodes) /\ s[i] = Release(nodes[i \div 2])
  BY <1>3, <1>4, <1>7, Pairs
<1>8. s \in Seq(Step)
  <2>1. \A i \in 1 .. 2 * Len(nodes) : s[i] \in Step
    BY <1>3, <1>6, <1>7 DEF Step
  <2>2. 2 * Len(nodes) \in Nat
    BY <1>3
  <2> QED BY <1>4, <2>1, <2>2
<1>9. ASSUME NEW i \in DOMAIN s, s[i].op = "push"
      PROVE  /\ Takes(s[i].node, s[i].type)
             /\ \E j \in DOMAIN s : j > i /\ s[j] = Release(s[i].node)
  <2>1. i \in 1 .. 2 * Len(nodes) /\ DOMAIN s = 1 .. 2 * Len(nodes)
    BY <1>4
  <2>2. i % 2 = 1
    <3>1. CASE i % 2 # 1
      BY <1>7, <1>9, <2>1, <3>1 DEF Release
    <3> QED BY <3>1
  <2>3. s[i] = Add(nodes[(i + 1) \div 2], ty) /\ Takes(nodes[(i + 1) \div 2], ty)
    BY <1>3, <1>6, <2>1, <2>2
  <2>4. s[i + 1] = Release(nodes[(i + 1) \div 2]) /\ i + 1 \in DOMAIN s /\ i + 1 > i
    <3>1. i + 1 \in 1 .. 2 * Len(nodes) /\ (i + 1) % 2 # 1
      BY <1>6, <2>1, <2>2
    <3>2. s[i + 1] = Release(nodes[(i + 1) \div 2])
      BY <1>7, <3>1
    <3> QED BY <2>1, <3>1, <3>2
  <2> QED BY <2>3, <2>4 DEF Add
<1> QED BY <1>5, <1>8, <1>9 DEF Announced

-----------------------------------------------------------------------------
(* Types, and what the threads have still to do.                             *)

LEMMA StepTypes ==
  ASSUME NEW s \in Step
  PROVE  /\ s.op = "sink" => s.type \in Type
         /\ s.op = "push" => <<s.node, s.type>> \in Input /\ s.node \in Node
         /\ s.op = "release" => s.node \in Node
<1>1. CASE \E ty \in Type : s = Sink(ty)
  BY <1>1 DEF Sink
<1>2. CASE s = Notify
  BY <1>2 DEF Notify
<1>3. CASE \E n \in Node, ty \in Type : s = Add(n, ty)
  BY <1>3 DEF Add, Input
<1>4. CASE \E n \in Node : s = Release(n)
  BY <1>4 DEF Release
<1> QED BY <1>1, <1>2, <1>3, <1>4 DEF Step

(* The group of a node is the one that lists it.                             *)
LEMMA GroupOfNode ==
  ASSUME NEW n \in Node
  PROVE  /\ GroupOf(n) \in Group
         /\ \E i \in DOMAIN NodesOf[GroupOf(n)] : NodesOf[GroupOf(n)][i] = n
         /\ \A g \in Group : \A i \in DOMAIN NodesOf[g] : NodesOf[g][i] = n => g = GroupOf(n)
<1>1. \E g \in Group : \E i \in DOMAIN NodesOf[g] : NodesOf[g][i] = n
  BY GroupsAssumption
<1>2. /\ GroupOf(n) \in Group
      /\ \E i \in DOMAIN NodesOf[GroupOf(n)] : NodesOf[GroupOf(n)][i] = n
  BY <1>1 DEF GroupOf
<1> QED BY <1>2, GroupsAssumption

(* A step of tu_result or tu_internal_node_enqueue.                          *)
LEMMA SendTypes ==
  ASSUME DfgAllInv, NEW t \in Thread, Send(t)
  PROVE  DfgTypeOK' /\ TodoInv'
<1>0. DfgTypeOK /\ TodoInv
  BY DEF DfgAllInv
<1>1. /\ todo[t] # <<>> /\ todo' = [todo EXCEPT ![t] = Tail(@)]
      /\ UNCHANGED <<item, pc, threadCount, canTerminate, walkVars, mi, userVars>>
  BY DEF Send, PushSink, NotifyResult, PushQueue, NotifyWorkers, At, Rest
<1>2. /\ Head(todo[t]) \in Step /\ item[t] \in Datum
      /\ Announced(Tail(todo[t])) /\ Tail(todo[t]) \in Seq(Step)
      /\ Tail(todo[t]) # <<>> => todo[t] # <<>>
  <2>1. Announced(todo[t]) /\ todo[t] \in Seq(Step)
    BY <1>0 DEF TodoInv, Announced
  <2>2. Head(todo[t]) \in Step /\ Tail(todo[t]) \in Seq(Step)
    BY <1>1, <2>1
  <2> QED BY <1>0, <1>1, <2>1, <2>2, AnnouncedTail DEF TodoInv
<1>3. /\ todo' \in [Thread -> Seq(Step)]
      /\ todo'[t] = Tail(todo[t]) /\ \A u \in Thread : u # t => todo'[u] = todo[u]
  BY <1>0, <1>1, <1>2 DEF DfgTypeOK
<1>4. mpc' \in MainPC /\ (todo'[Main] # <<>> => mpc' = "user")
  <2>1. todo'[Main] # <<>> => mpc = "user"
    BY <1>0, <1>1, <1>3 DEF TodoInv, Thread
  <2>2. mpc' = mpc \/ (mpc = "waiting" /\ mpc' = "check")
    BY DEF Send, PushSink, NotifyResult, PushQueue, NotifyWorkers
  <2> QED BY <1>0, <2>1, <2>2 DEF DfgTypeOK, MainPC
<1>5. /\ queue' \in [Input -> Seq(Datum)] /\ sem' \in [Group -> Nat]
      /\ sink' \in Seq(Datum \X Type)
  <2>1. CASE PushSink(t)
    <3>1. Head(todo[t]).type \in Type
      BY <1>2, <2>1, StepTypes DEF PushSink, At
    <3>2. sink' \in Seq(Datum \X Type)
      BY <1>0, <1>2, <2>1, <3>1 DEF PushSink, DfgTypeOK
    <3> QED BY <1>0, <2>1, <3>2 DEF PushSink, DfgTypeOK
  <2>2. CASE NotifyResult(t)
    BY <1>0, <2>2 DEF NotifyResult, DfgTypeOK
  <2>3. CASE PushQueue(t)
    <3>1. PICK q : q = <<Head(todo[t]).node, Head(todo[t]).type>>
      OBVIOUS
    <3>2. queue' = [queue EXCEPT ![q] = Append(@, item[t])]
      BY <2>3, <3>1 DEF PushQueue
    <3>3. q \in Input
      BY <1>2, <2>3, <3>1, StepTypes DEF PushQueue, At
    <3>4. Append(queue[q], item[t]) \in Seq(Datum)
      BY <1>0, <1>2, <3>3 DEF DfgTypeOK
    <3> QED BY <1>0, <2>3, <3>2, <3>4 DEF PushQueue, DfgTypeOK
  <2>4. CASE NotifyWorkers(t)
    <3>1. PICK g \in Group : g = GroupOf(Head(todo[t]).node)
      BY <1>2, <2>4, StepTypes, GroupOfNode DEF NotifyWorkers, At
    <3>2. sem' = [sem EXCEPT ![g] = @ + 1]
      BY <2>4, <3>1 DEF NotifyWorkers
    <3>3. sem \in [Group -> Nat] /\ UNCHANGED <<queue, sink>>
      BY <1>0, <2>4 DEF NotifyWorkers, DfgTypeOK
    <3>4. sem' \in [Group -> Nat]
      BY <3>2, <3>3
    <3> QED BY <1>0, <3>3, <3>4 DEF DfgTypeOK
  <2> QED BY <2>1, <2>2, <2>3, <2>4 DEF Send
<1>6. DfgTypeOK'
  BY <1>0, <1>1, <1>3, <1>4, <1>5 DEF DfgTypeOK
<1>7. TodoInv'
  BY <1>0, <1>1, <1>2, <1>3, <1>4 DEF TodoInv, Thread
<1> QED BY <1>6, <1>7

(* A step of a worker that executes nothing.                                 *)
LEMMA WalkTypes ==
  ASSUME DfgAllInv, NEW w \in Worker,
         \/ Acquire(w) \/ CheckTerminate(w) \/ LoadCount(w) \/ NextNode(w) \/ Restart(w)
         \/ InputEmpty(w) \/ DequeueFail(w)
         \/ Enter(w) \/ Refused(w) \/ FetchSub(w)
  PROVE  DfgTypeOK' /\ TodoInv'
<1>0. DfgTypeOK /\ TodoInv /\ DfgInv
  BY DEF DfgAllInv
<1>1. /\ UNCHANGED <<dataVars, canTerminate, workVars, mainVars, userVars>>
      /\ \E l \in WorkerPC : pc' = [pc EXCEPT ![w] = l]
      /\ pc[w] # "exec"
  BY <1>0 DEF DfgTypeOK, WorkerPC, Acquire, CheckTerminate, LoadCount, NextNode, Restart,
     InputEmpty, DequeueFail, Enter, Refused, FetchAdd, FetchSub
<1>2. sem' \in [Group -> Nat]
  <2>1. CASE Acquire(w)
    <3>1. GroupOfWorker[w] \in Group
      BY DfgAssumption
    <3> QED BY <1>0, <2>1, <3>1 DEF Acquire, DfgTypeOK
  <2>2. CASE sem' = sem
    BY <1>0, <2>2 DEF DfgTypeOK
  <2> QED BY <2>1, <2>2 DEF CheckTerminate, LoadCount, NextNode, Restart, InputEmpty,
          DequeueFail, Enter, Refused, FetchAdd, FetchSub
<1>3. threadCount' \in [Node -> Nat]
  <2>1. DfgInv'
    <3>1. WorkerStep(w)
      BY DEF WorkerStep
    <3> QED BY <1>0, <3>1, WorkerInv
  <2> QED BY <2>1 DEF DfgInv, WalkInv
<1>4. /\ idx' \in [Worker -> Nat] /\ processed' \in [Worker -> Nat]
      /\ round' \in [Worker -> Nat] /\ input' \in [Worker -> Nat \ {0}]
  <2>0. /\ idx \in [Worker -> Nat] /\ processed \in [Worker -> Nat]
        /\ round \in [Worker -> Nat] /\ input \in [Worker -> Nat \ {0}]
    BY <1>0 DEF DfgTypeOK
  <2>1. CASE UNCHANGED <<idx, processed>>
    <3>1. /\ UNCHANGED <<round, input>> \/ Enter(w) \/ InputEmpty(w)
      BY DEF Acquire, CheckTerminate, LoadCount, NextNode, Restart,
         InputEmpty, DequeueFail, Refused, FetchAdd, FetchSub
    <3>2. CASE UNCHANGED <<round, input>>
      BY <2>0, <2>1, <3>2
    <3>3. CASE Enter(w)
      BY <2>0, <2>1, <3>3 DEF Enter
    <3>4. CASE InputEmpty(w)
      BY <2>0, <2>1, <3>4 DEF InputEmpty
    <3> QED BY <3>1, <3>2, <3>3, <3>4
  <2>2. CASE CheckTerminate(w)
    BY <2>0, <2>2 DEF CheckTerminate
  <2>3. CASE NextNode(w)
    BY <2>0, <2>3 DEF NextNode
  <2>4. CASE Restart(w)
    <3>1. /\ idx' = idx \/ idx' = [idx EXCEPT ![w] = 1]
          /\ processed' = processed \/ processed' = [processed EXCEPT ![w] = 0]
          /\ UNCHANGED <<round, input>>
      BY <2>4 DEF Restart
    <3>2. idx' \in [Worker -> Nat]
      BY <2>0, <3>1
    <3> QED BY <2>0, <3>1, <3>2
  <2> QED BY <2>1, <2>2, <2>3, <2>4 DEF Acquire, LoadCount, InputEmpty, DequeueFail,
          Enter, Refused, FetchAdd, FetchSub
<1>5. DfgTypeOK'
  BY <1>0, <1>1, <1>2, <1>3, <1>4 DEF DfgTypeOK
<1>6. TodoInv'
  BY <1>0, <1>1 DEF TodoInv, DfgTypeOK
<1> QED BY <1>5, <1>6

(* The execution of a datum.                                                 *)
LEMMA ExecTypes ==
  ASSUME DfgAllInv, NEW w \in Worker, Dequeue(w) \/ ExecReturn(w)
  PROVE  DfgTypeOK' /\ TodoInv'
<1>0. DfgTypeOK /\ TodoInv /\ DfgInv
  BY DEF DfgAllInv
<1>1. CASE Dequeue(w)
  <2>1. PICK n \in Node : n = NodeAt(w)
    BY <1>0, <1>1, AtNode DEF DfgInv, Dequeue, Walking
  <2>2. /\ InputTypes[n] \in Seq(Type) /\ input[w] \in DOMAIN InputTypes[n]
        /\ InputTypes[n][input[w]] \in Type
    <3>1. /\ InputTypes[n] \in Seq(Type) /\ input[w] \in Nat \ {0}
          /\ input[w] <= Len(InputTypes[n])
      BY <1>0, <1>1, <2>1, DfgAssumption DEF DfgTypeOK, Dequeue
    <3> QED BY <3>1
  <2>3. PICK ty \in Type : ty = InputTypes[n][input[w]]
    BY <2>2
  <2>4. PICK q \in Input : q = InputAt(w) /\ q = <<n, ty>>
    BY <2>1, <2>3 DEF InputAt, Input
  <2>5. /\ queue[q] # <<>> /\ queue[q] \in Seq(Datum)
        /\ queue' = [queue EXCEPT ![q] = Tail(@)]
        /\ item' = [item EXCEPT ![w] = Head(queue[q])]
        /\ todo' = [todo EXCEPT ![w] = ExecSteps(n, ty)]
        /\ pc' = [pc EXCEPT ![w] = "exec"]
        /\ UNCHANGED <<sink, sem, threadCount, canTerminate, walkVars, mainVars, userVars>>
    BY <1>0, <1>1, <2>1, <2>4 DEF Dequeue, DfgTypeOK
  <2>6. Head(queue[q]) \in Datum /\ Tail(queue[q]) \in Seq(Datum)
    BY <2>5
  <2>7. Announced(ExecSteps(n, ty)) /\ ExecSteps(n, ty) \in Seq(Step)
    <3>1. Takes(n, ty)
      BY <2>2, <2>3 DEF Takes
    <3>2. Announced(ExecSteps(n, ty))
      BY <3>1, ExecAnnounced
    <3> QED BY <3>2 DEF Announced
  <2>8. DfgTypeOK'
    BY <1>0, <2>5, <2>6, <2>7 DEF DfgTypeOK, Thread, WorkerPC
  <2>9. TodoInv'
    <3>1. /\ item'[w] = Head(queue[q]) /\ todo'[w] = ExecSteps(n, ty) /\ pc'[w] = "exec"
          /\ \A t \in Thread : t # w => todo'[t] = todo[t] /\ item'[t] = item[t]
          /\ \A v \in Worker : v # w => pc'[v] = pc[v]
      BY <1>0, <2>5 DEF DfgTypeOK, Thread
    <3>2. Main # w /\ Main \in Thread
      BY DEF Thread, Main, Worker
    <3> QED BY <1>0, <2>5, <2>6, <2>7, <3>1, <3>2 DEF TodoInv, Thread
  <2> QED BY <2>8, <2>9
<1>2. CASE ExecReturn(w)
  <2>1. /\ todo' = todo /\ todo[w] = <<>>
        /\ item' = [item EXCEPT ![w] = NoDatum]
        /\ pc[w] = "exec"
        /\ UNCHANGED <<dataVars, sem, threadCount, canTerminate, idx, mainVars, userVars>>
        /\ \E l \in WorkerPC : pc' = [pc EXCEPT ![w] = l]
    BY <1>2 DEF ExecReturn, WorkerPC
  <2>2. /\ processed' \in [Worker -> Nat] /\ round' \in [Worker -> Nat]
        /\ input' \in [Worker -> Nat \ {0}]
    BY <1>0, <1>2 DEF ExecReturn, DfgTypeOK
  <2>3. DfgTypeOK'
    BY <1>0, <2>1, <2>2 DEF DfgTypeOK, Thread
  <2>4. TodoInv'
    BY <1>0, <2>1 DEF TodoInv, DfgTypeOK, Thread
  <2> QED BY <2>3, <2>4
<1> QED BY <1>1, <1>2

(* A step of the main thread that adds nothing to a queue.                   *)
LEMMA MainTypes ==
  ASSUME DfgAllInv, MainStep \/ UserStep \/ SpuriousWakeup
  PROVE  DfgTypeOK' /\ TodoInv'
<1>0. DfgTypeOK /\ TodoInv /\ DfgInv
  BY DEF DfgAllInv
<1>m. Main \in Thread /\ Main \notin Worker
  BY DEF Thread, Main, Worker
<1>1. CASE Send(Main)
  BY <1>1, <1>m, SendTypes
<1>2. CASE \E d \in Datum : MainPush(d)
  <2>1. PICK d \in Datum : MainPush(d)
    BY <1>2
  <2>2. Announced(todo'[Main])
    BY <1>0, <2>1, PushAnnounced
  <2>3. /\ todo'[Main] \in Seq(Step) /\ mpc = "user" /\ item' = [item EXCEPT ![Main] = d]
        /\ pushed' = pushed \cup {d}
        /\ \E s : todo' = [todo EXCEPT ![Main] = s]
        /\ UNCHANGED <<dataVars, sem, threadCount, canTerminate, pc, walkVars, mainVars,
                       got, execs>>
    <3>1. \E s : todo' = [todo EXCEPT ![Main] = s]
      BY <2>1 DEF MainPush
    <3>2. todo'[Main] \in Seq(Step)
      BY <2>2 DEF Announced
    <3> QED BY <2>1, <3>1, <3>2 DEF MainPush
  <2>4. /\ todo' \in [Thread -> Seq(Step)] /\ item' \in [Thread -> Datum \cup {NoDatum}]
        /\ item'[Main] = d
        /\ \A t \in Worker : todo'[t] = todo[t] /\ item'[t] = item[t]
    BY <1>0, <1>m, <2>3 DEF DfgTypeOK, Thread
  <2>5. DfgTypeOK'
    BY <1>0, <2>3, <2>4 DEF DfgTypeOK
  <2>6. TodoInv'
    BY <1>0, <2>2, <2>3, <2>4 DEF TodoInv, Thread
  <2> QED BY <2>5, <2>6
<1>3. CASE \E w \in Worker : StartWorker(w)
  <2>1. PICK w \in Worker : StartWorker(w)
    BY <1>3
  <2>2. /\ canTerminate' = [canTerminate EXCEPT ![w] = FALSE]
        /\ pc' = [pc EXCEPT ![w] = "park"] /\ mpc = "start" /\ mi = w
        /\ UNCHANGED <<dataVars, sem, threadCount, walkVars, workVars, userVars>>
        /\ mpc' \in MainPC /\ mi' \in Nat
    BY <2>1 DEF StartWorker, MainPC, Worker
  <2>3. pc[w] = "exited"
    BY <1>0, <2>2 DEF DfgInv, JoinInv, Exited, Worker
  <2>4. todo[w] = <<>> /\ todo[Main] = <<>>
    BY <1>0, <2>2, <2>3 DEF TodoInv
  <2>5. DfgTypeOK'
    BY <1>0, <2>2 DEF DfgTypeOK, WorkerPC
  <2>6. TodoInv'
    BY <1>0, <2>2, <2>4 DEF TodoInv, DfgTypeOK
  <2> QED BY <2>5, <2>6
<1>4. CASE TakeResult
  <2>1. /\ sink # <<>> /\ sink' = Tail(sink) /\ got' = Append(got, Head(sink))
        /\ mpc = "check" /\ mpc' = "user" /\ mi' = 1
        /\ UNCHANGED <<queue, sem, threadCount, canTerminate, pc, walkVars, workVars,
                       pushed, execs>>
    BY <1>4 DEF TakeResult
  <2>2. sink' \in Seq(Datum \X Type) /\ got' \in Seq(Datum \X Type)
    <3>1. sink \in Seq(Datum \X Type) /\ got \in Seq(Datum \X Type)
      BY <1>0 DEF DfgTypeOK
    <3>2. PICK P : P = Datum \X Type
      OBVIOUS
    <3> QED BY <2>1, <3>1, <3>2
  <2>3. DfgTypeOK'
    BY <1>0, <2>1, <2>2 DEF DfgTypeOK, MainPC
  <2>4. TodoInv'
    BY <1>0, <2>1 DEF TodoInv
  <2> QED BY <2>3, <2>4
<1>5. CASE \/ NoResult \/ Block \/ ReleaseAll \/ JoinAll \/ MainWait \/ MainTerm \/ MainExec
           \/ SpuriousWakeup \/ \E w \in Worker : SetTerminate(w)
  <2>1. /\ UNCHANGED <<dataVars, threadCount, pc, walkVars, workVars, pushed, got>>
        /\ todo[Main] = <<>>
    BY <1>0, <1>5 DEF TodoInv, NoResult, Block, ReleaseAll, JoinAll, MainWait, MainTerm,
       MainExec, SpuriousWakeup, SetTerminate
  <2>2. mpc' \in MainPC /\ mi' \in Nat /\ execs' \in Nat
    BY <1>0, <1>5 DEF DfgTypeOK, MainPC, NoResult, Block, ReleaseAll, JoinAll, MainWait,
       MainTerm, MainExec, SpuriousWakeup, SetTerminate
  <2>3. sem' \in [Group -> Nat]
    <3>1. CASE ReleaseAll
      <4>1. Cardinality(Members(mi)) \in Nat
        <5>1. IsFiniteSet(Worker)
          BY FS_Interval, DfgAssumption DEF Worker
        <5>2. Members(mi) \subseteq Worker
          BY DEF Members
        <5> QED BY <5>1, <5>2, FS_Subset, FS_CardinalityType
      <4>2. sem \in [Group -> Nat] /\ mi \in Group
        BY <1>0, <3>1 DEF DfgTypeOK, ReleaseAll, DfgInv, JoinInv
      <4>3. sem' = [sem EXCEPT ![mi] = @ + Cardinality(Members(mi))]
        BY <3>1 DEF ReleaseAll
      <4> QED BY <4>1, <4>2, <4>3
    <3>2. CASE sem' = sem
      BY <1>0, <3>2 DEF DfgTypeOK
    <3> QED BY <1>5, <3>1, <3>2 DEF NoResult, Block, JoinAll, MainWait,
            MainTerm, MainExec, SpuriousWakeup, SetTerminate
  <2>4. canTerminate' \in [Worker -> BOOLEAN]
    <3>1. \/ canTerminate' = canTerminate
          \/ \E w \in Worker : canTerminate' = [canTerminate EXCEPT ![w] = TRUE]
      BY <1>5 DEF NoResult, Block, ReleaseAll, JoinAll, MainWait,
            MainTerm, MainExec, SpuriousWakeup, SetTerminate
    <3> QED BY <1>0, <3>1 DEF DfgTypeOK
  <2>5. DfgTypeOK'
    BY <1>0, <2>1, <2>2, <2>3, <2>4 DEF DfgTypeOK
  <2>6. TodoInv'
    BY <1>0, <2>1 DEF TodoInv
  <2> QED BY <2>5, <2>6
<1> QED BY <1>1, <1>2, <1>3, <1>4, <1>5 DEF MainStep, UserStep

LEMMA TypesStep ==
  ASSUME DfgAllInv, [Next]_vars
  PROVE  DfgTypeOK' /\ TodoInv'
<1>1. CASE \E w \in Worker : WorkerStep(w)
  <2>1. PICK w \in Worker : WorkerStep(w)
    BY <1>1
  <2>2. w \in Thread
    BY DEF Thread
  <2>3. CASE Send(w)
    BY <2>2, <2>3, SendTypes
  <2>4. CASE Dequeue(w) \/ ExecReturn(w)
    BY <2>4, ExecTypes
  <2> QED BY <2>1, <2>3, <2>4, WalkTypes DEF WorkerStep
<1>2. CASE MainStep \/ UserStep \/ SpuriousWakeup
  BY <1>2, MainTypes
<1>3. CASE Terminated \/ UNCHANGED vars
  <2>1. UNCHANGED vars
    BY <1>3 DEF Terminated
  <2>2. DfgTypeOK'
    BY <2>1 DEF vars, DfgAllInv, DfgTypeOK
  <2>3. TodoInv'
    BY <2>1 DEF vars, DfgAllInv, TodoInv
  <2> QED BY <2>2, <2>3
<1> QED BY <1>1, <1>2, <1>3 DEF Next

-----------------------------------------------------------------------------
(* The service of a group of one worker.                                     *)

LEMMA NeedsRange ==
  ASSUME NEW w \in Worker
  PROVE  /\ Needs(w) \in 0 .. 2 /\ Needs(w)' \in 0 .. 2
         /\ \A g \in Group :
              (sem[g] \in Nat => Tokens(g) \in Nat) /\ (sem'[g] \in Nat => Tokens(g)' \in Nat)
  BY DEF Needs, Tokens

(* A step keeps a group served when the worker does not need more tokens in  *)
(* proportion, adds nothing to the queues of the group, and does not turn    *)
(* the worker away from a queue.                                             *)
LEMMA Kept ==
  ASSUME NEW g \in Group, NEW w \in Worker, ServedBy(g, w),
         sem[g] \in Nat, sem'[g] \in Nat,
         pc'[w] = "exited" => canTerminate'[w],
         Needs(w)' + sem[g] <= Needs(w) + sem'[g],
         Coming(g) => Coming(g)',
         \A q \in Input : GroupOf(q[1]) = g /\ queue'[q] # <<>> =>
           queue[q] # <<>> /\ (Takes(q[1], q[2]) /\ Visits(w, q) => Visits(w, q)')
  PROVE  ServedBy(g, w)'
<1>1. Needs(w) \in 0 .. 2 /\ Needs(w)' \in 0 .. 2
  BY NeedsRange
<1>2. Needs(w)' <= sem'[g] + 1
  BY <1>1 DEF ServedBy
<1>3. Needs(w) <= Tokens(g) => Needs(w)' <= Tokens(g)'
  BY <1>1 DEF Tokens
<1>4. ASSUME NEW q \in Input, GroupOf(q[1]) = g, queue'[q] # <<>>
      PROVE  Takes(q[1], q[2]) /\ (Visits(w, q)' \/ Needs(w)' <= Tokens(g)')
  BY <1>3, <1>4 DEF ServedBy
<1> QED BY <1>2, <1>4 DEF ServedBy

LEMMA ComingTail ==
  ASSUME NEW g \in Group, NEW t \in Thread, DfgTypeOK, todo[t] # <<>>,
         todo' = [todo EXCEPT ![t] = Tail(@)], Coming(g),
         ~ (Head(todo[t]).op = "release" /\ GroupOf(Head(todo[t]).node) = g)
  PROVE  Coming(g)'
<1>0. PICK u \in Thread : \E i \in DOMAIN todo[u] :
        todo[u][i].op = "release" /\ GroupOf(todo[u][i].node) = g
  BY DEF Coming
<1>1. PICK i \in DOMAIN todo[u] :
        todo[u][i].op = "release" /\ GroupOf(todo[u][i].node) = g
  BY <1>0
<1>2. todo'[t] = Tail(todo[t]) /\ (u # t => todo'[u] = todo[u])
  BY DEF DfgTypeOK
<1>3. CASE u # t
  BY <1>1, <1>2, <1>3 DEF Coming
<1>4. CASE u = t
  <2>1. PICK s \in Seq(Step) : s = todo[t]
    BY DEF DfgTypeOK
  <2>2. i # 1 /\ i \in 1 .. Len(s)
    BY <1>1, <1>4, <2>1
  <2>3. i - 1 \in DOMAIN Tail(s) /\ Tail(s)[i - 1] = s[i]
    BY <2>1, <2>2
  <2> QED BY <1>1, <1>2, <1>4, <2>1, <2>3 DEF Coming
<1> QED BY <1>3, <1>4

(* A step of tu_result or tu_internal_node_enqueue, of any thread.           *)
LEMMA SendServed ==
  ASSUME DfgAllInv, NEW t \in Thread, Send(t),
         NEW g \in Group, NEW w \in Worker, ServedBy(g, w)
  PROVE  ServedBy(g, w)'
<1>0. DfgTypeOK /\ TodoInv /\ DfgTypeOK'
  BY SendTypes DEF DfgAllInv
<1>1. /\ todo[t] # <<>> /\ todo' = [todo EXCEPT ![t] = Tail(@)]
      /\ UNCHANGED <<pc, idx, processed, input, canTerminate, mi>>
      /\ mpc' = mpc \/ (mpc = "waiting" /\ mpc' = "check")
  BY DEF Send, PushSink, NotifyResult, PushQueue, NotifyWorkers, At, Rest
<1>2. Needs(w)' = Needs(w)
  BY <1>1 DEF Needs, Closing
<1>3. \A q \in Input : Visits(w, q)' = Visits(w, q)
  BY <1>1 DEF Visits, NodeAt
<1>4. sem[g] \in Nat /\ sem'[g] \in Nat
  BY <1>0 DEF DfgTypeOK
<1>5. pc'[w] = "exited" => canTerminate'[w]
  BY <1>1 DEF ServedBy
<1>n. Needs(w) \in 0 .. 2
  BY NeedsRange
<1>6. CASE PushSink(t) \/ NotifyResult(t)
  <2>1. queue' = queue /\ sem' = sem /\ Head(todo[t]).op # "release"
    BY <1>6 DEF PushSink, NotifyResult, At
  <2>2. Coming(g) => Coming(g)'
    BY <1>0, <1>1, <2>1, ComingTail
  <2> QED BY <1>2, <1>3, <1>4, <1>5, <1>n, <2>1, <2>2, Kept
<1>7. CASE PushQueue(t)
  <2>1. PICK s \in Step : s = Head(todo[t]) /\ s.op = "push"
    <3>1. todo[t] \in Seq(Step)
      BY <1>0 DEF DfgTypeOK
    <3> QED BY <1>1, <1>7, <3>1 DEF PushQueue, At
  <2>2. PICK p \in Input : p = <<s.node, s.type>>
    BY <2>1, StepTypes
  <2>3. sem' = sem /\ queue' = [queue EXCEPT ![p] = Append(@, item[t])]
    BY <1>7, <2>1, <2>2 DEF PushQueue
  <2>4. Takes(p[1], p[2])
    <3>1. Announced(todo[t]) /\ 1 \in DOMAIN todo[t] /\ Head(todo[t]) = todo[t][1]
      BY <1>0, <1>1 DEF TodoInv, DfgTypeOK
    <3> QED BY <2>1, <2>2, <3>1 DEF Announced
  <2>5. GroupOf(p[1]) = g => Coming(g)'
    <3>1. PICK j \in DOMAIN Tail(todo[t]) : Tail(todo[t])[j] = Release(s.node)
      BY <1>0, <1>1, <2>1, AnnouncedTail DEF TodoInv
    <3>2. todo'[t] = Tail(todo[t])
      BY <1>0, <1>1 DEF DfgTypeOK
    <3>3. Release(s.node).op = "release" /\ Release(s.node).node = p[1]
      BY <2>2 DEF Release
    <3> QED BY <3>1, <3>2, <3>3 DEF Coming
  <2>6. Coming(g) => Coming(g)'
    BY <1>0, <1>1, <2>1, ComingTail
  <2>7. \A q \in Input : q # p => queue'[q] = queue[q]
    BY <1>0, <2>3 DEF DfgTypeOK
  <2>8. CASE GroupOf(p[1]) = g
    <3>1. Needs(w)' <= Tokens(g)'
      BY <1>2, <1>4, <1>n, <2>3, <2>5, <2>8 DEF ServedBy, Tokens
    <3>2. \A q \in Input : GroupOf(q[1]) = g /\ queue'[q] # <<>> => Takes(q[1], q[2])
      BY <2>4, <2>7 DEF ServedBy
    <3>3. Needs(w)' <= sem'[g] + 1
      BY <1>2, <2>3 DEF ServedBy
    <3> QED BY <1>5, <3>1, <3>2, <3>3 DEF ServedBy
  <2>9. CASE GroupOf(p[1]) # g
    BY <1>2, <1>3, <1>4, <1>5, <1>n, <2>3, <2>6, <2>7, <2>9, Kept
  <2> QED BY <2>8, <2>9
<1>8. CASE NotifyWorkers(t)
  <2>1. PICK h \in Group : h = GroupOf(Head(todo[t]).node)
    <3>1. Head(todo[t]) \in Step /\ Head(todo[t]).op = "release"
      BY <1>0, <1>1, <1>8 DEF DfgTypeOK, NotifyWorkers, At
    <3> QED BY <3>1, StepTypes, GroupOfNode
  <2>2. queue' = queue /\ sem' = [sem EXCEPT ![h] = @ + 1]
    BY <1>8, <2>1 DEF NotifyWorkers
  <2>3. CASE h # g
    <3>1. sem'[g] = sem[g]
      BY <1>0, <2>2, <2>3 DEF DfgTypeOK
    <3>2. Coming(g) => Coming(g)'
      BY <1>0, <1>1, <2>1, <2>3, ComingTail
    <3> QED BY <1>2, <1>3, <1>4, <1>5, <1>n, <2>2, <3>1, <3>2, Kept
  <2>4. CASE h = g
    <3>1. sem'[g] = sem[g] + 1
      BY <1>0, <2>2, <2>4 DEF DfgTypeOK
    <3>2. Tokens(g)' >= sem[g] + 1
      BY <1>4, <3>1 DEF Tokens
    <3>3. Needs(w)' <= Tokens(g)' /\ Needs(w)' <= sem'[g] + 1
      <4>1. Tokens(g)' \in Nat
        BY <1>4, NeedsRange
      <4> QED BY <1>2, <1>4, <1>n, <3>1, <3>2, <4>1 DEF ServedBy
    <3>4. \A q \in Input : GroupOf(q[1]) = g /\ queue'[q] # <<>> => Takes(q[1], q[2])
      BY <2>2 DEF ServedBy
    <3> QED BY <1>5, <3>3, <3>4 DEF ServedBy
  <2> QED BY <2>3, <2>4
<1> QED BY <1>6, <1>7, <1>8 DEF Send

(* A node of a group of one worker is entered by that worker only.           *)
LEMMA SingleCount ==
  ASSUME DfgInv, NEW g \in Group, NEW w \in Worker, Members(g) = {w},
         NEW n \in Node, GroupOf(n) = g, pc[w] \in {"load", "add"}
  PROVE  threadCount[n] = 0
<1>1. ASSUME NEW v \in Counted(n)
      PROVE  FALSE
  <2>1. /\ v \in Worker /\ pc[v] \in {"dequeue", "exec", "sub"} /\ NodeAt(v) = n
        /\ GroupOfWorker[v] \in Group
    BY DfgAssumption DEF Counted
  <2>2. idx[v] \in DOMAIN NodesOf[GroupOfWorker[v]]
    <3>1. pc[v] \in Walking
      BY <2>1 DEF Walking
    <3>2. idx[v] \in 1 .. Len(NodesOf[GroupOfWorker[v]])
      BY <2>1, <3>1 DEF DfgInv, WalkInv
    <3>3. NodesOf[GroupOfWorker[v]] \in Seq(Node)
      BY <2>1, DfgAssumption
    <3> QED BY <3>2, <3>3
  <2>3. GroupOfWorker[v] = g
    BY <2>1, <2>2, GroupOfNode DEF NodeAt
  <2>4. v = w
    BY <2>1, <2>3 DEF Members
  <2> QED BY <2>1, <2>4
<1>2. Counted(n) = {}
  BY <1>1
<1> QED BY <1>2, FS_EmptySet DEF DfgInv, CountExact

(* The step of another worker that is no step of tu_result.                  *)
LEMMA OtherServed ==
  ASSUME DfgAllInv, DfgTypeOK', NEW v \in Worker, WorkerStep(v), ~ Send(v),
         NEW g \in Group, NEW w \in Worker, Members(g) = {w}, v # w, ServedBy(g, w)
  PROVE  ServedBy(g, w)'
<1>0. DfgTypeOK /\ TodoInv
  BY DEF DfgAllInv
<1>1. /\ UNCHANGED <<canTerminate, mpc, mi>>
      /\ \E l : pc' = [pc EXCEPT ![v] = l]
  <2>1. UNCHANGED <<canTerminate, mpc, mi>>
    BY DEF WorkerStep, Acquire, CheckTerminate, LoadCount, Enter, Refused, FetchAdd, Dequeue,
       InputEmpty, DequeueFail, ExecReturn, FetchSub, NextNode, Restart
  <2>2. CASE pc' = pc
    <3>1. pc' = [pc EXCEPT ![v] = pc[v]]
      BY <1>0, <2>2 DEF DfgTypeOK
    <3> QED BY <2>1, <3>1
  <2>3. CASE Restart(v)
    BY <2>1, <2>3 DEF Restart
  <2>4. CASE CheckTerminate(v) \/ LoadCount(v) \/ ExecReturn(v)
    BY <2>1, <2>4 DEF CheckTerminate, LoadCount, ExecReturn
  <2>5. CASE Acquire(v) \/ Enter(v) \/ Refused(v) \/ Dequeue(v) \/ DequeueFail(v)
             \/ FetchSub(v) \/ NextNode(v)
    BY <2>1, <2>5 DEF Acquire, Enter, Refused, Dequeue, DequeueFail, FetchSub, NextNode
  <2> QED BY <2>2, <2>3, <2>4, <2>5 DEF WorkerStep, InputEmpty
<1>2. /\ idx' = idx \/ \E x : idx' = [idx EXCEPT ![v] = x]
      /\ processed' = processed \/ \E x : processed' = [processed EXCEPT ![v] = x]
      /\ input' = input \/ \E x : input' = [input EXCEPT ![v] = x]
  BY DEF WorkerStep, Acquire, CheckTerminate, LoadCount, Enter, Refused, FetchAdd, Dequeue,
     InputEmpty, DequeueFail, ExecReturn, FetchSub, NextNode, Restart
<1>3. /\ pc'[w] = pc[w] /\ idx'[w] = idx[w] /\ processed'[w] = processed[w]
      /\ input'[w] = input[w]
  BY <1>0, <1>1, <1>2 DEF DfgTypeOK
<1>4. Needs(w)' = Needs(w)
  BY <1>1, <1>3 DEF Needs, Closing
<1>5. \A q \in Input : Visits(w, q)' = Visits(w, q)
  BY <1>3 DEF Visits, NodeAt
<1>6. sem[g] \in Nat /\ sem'[g] = sem[g]
  <2>1. sem[g] \in Nat
    BY <1>0 DEF DfgTypeOK
  <2>2. CASE Acquire(v)
    <3>1. GroupOfWorker[v] # g
      BY DEF Members
    <3> QED BY <1>0, <2>1, <2>2, <3>1 DEF Acquire, DfgTypeOK
  <2> QED BY <2>1, <2>2 DEF WorkerStep, CheckTerminate, LoadCount, Enter, Refused, FetchAdd,
          Dequeue, InputEmpty, DequeueFail, ExecReturn, FetchSub, NextNode, Restart
<1>7. /\ Coming(g) => Coming(g)'
      /\ \A q \in Input : queue'[q] # <<>> => queue[q] # <<>>
  <2>1. CASE Dequeue(v)
    <3>1. /\ todo[v] = <<>> /\ \E s : todo' = [todo EXCEPT ![v] = s]
          /\ queue[InputAt(v)] # <<>>
          /\ \E s : queue' = [queue EXCEPT ![InputAt(v)] = s]
      BY <1>0, <2>1 DEF Dequeue, TodoInv
    <3>2. \A t \in Thread : t # v => todo'[t] = todo[t]
      BY <1>0, <3>1 DEF DfgTypeOK
    <3>3. Coming(g) => Coming(g)'
      BY <3>1, <3>2 DEF Coming
    <3>4. \A q \in Input : queue'[q] # <<>> => queue[q] # <<>>
      BY <1>0, <3>1 DEF DfgTypeOK
    <3> QED BY <3>3, <3>4
  <2>2. CASE UNCHANGED <<queue, todo>>
    BY <2>2 DEF Coming
  <2> QED BY <2>1, <2>2 DEF WorkerStep, Acquire, CheckTerminate, LoadCount, Enter, Refused,
          FetchAdd, InputEmpty, DequeueFail, ExecReturn, FetchSub, NextNode, Restart
<1>8. pc'[w] = "exited" => canTerminate'[w]
  BY <1>1, <1>3 DEF ServedBy
<1>9. Needs(w)' \in 0 .. 2
  BY NeedsRange
<1> QED BY <1>4, <1>5, <1>6, <1>7, <1>8, <1>9, Kept

(* A step of the worker itself.                                              *)
LEMMA OwnServed ==
  ASSUME DfgAllInv, DfgTypeOK', NEW g \in Group, NEW w \in Worker, Members(g) = {w},
         \A n \in Node : GroupOf(n) = g => MaxThreads[n] > 0,
         WorkerStep(w), ~ Send(w), ServedBy(g, w)
  PROVE  ServedBy(g, w)'
<1>0. DfgTypeOK /\ TodoInv /\ DfgInv
  BY DEF DfgAllInv
<1>1. PICK nodes \in Seq(Node) : nodes = NodesOf[g]
  BY DfgAssumption
<1>2. /\ GroupOfWorker[w] = g
      /\ \A n \in Node : GroupOf(n) = g => \E i \in DOMAIN nodes : nodes[i] = n
      /\ \A i \in DOMAIN nodes : nodes[i] \in Node /\ GroupOf(nodes[i]) = g
  <2>1. GroupOfWorker[w] = g
    BY DEF Members
  <2>2. \A n \in Node : GroupOf(n) = g => \E i \in DOMAIN nodes : nodes[i] = n
    BY <1>1, GroupOfNode
  <2>3. \A i \in DOMAIN nodes : nodes[i] \in Node
    BY <1>1
  <2>4. \A i \in DOMAIN nodes : GroupOf(nodes[i]) = g
    BY <1>1, <2>3, GroupOfNode
  <2> QED BY <2>1, <2>2, <2>3, <2>4
<1>3. /\ DOMAIN nodes = 1 .. Len(nodes) /\ Len(nodes) \in Nat \ {0}
      /\ pc[w] \in Walking => idx[w] \in DOMAIN nodes
      /\ NodeAt(w) = nodes[idx[w]] /\ NodeAt(w)' = nodes[idx'[w]]
      /\ idx[w] \in Nat /\ processed[w] \in Nat /\ input[w] \in Nat \ {0}
  <2>1. DOMAIN nodes = 1 .. Len(nodes) /\ Len(nodes) \in Nat \ {0}
    BY <1>1, GraphAssumption
  <2>2. pc[w] \in Walking => idx[w] \in DOMAIN nodes
    BY <1>0, <1>1, <1>2, <2>1 DEF DfgInv, WalkInv
  <2>3. NodeAt(w) = nodes[idx[w]] /\ NodeAt(w)' = nodes[idx'[w]]
    BY <1>1, <1>2 DEF NodeAt
  <2>4. idx[w] \in Nat /\ processed[w] \in Nat /\ input[w] \in Nat \ {0}
    BY <1>0 DEF DfgTypeOK
  <2> QED BY <2>1, <2>2, <2>3, <2>4
<1>4. \A q \in Input :
        /\ Visits(w, q) <=>
             /\ pc[w] \in Walking
             /\ \/ processed[w] > 0 \/ pc[w] = "exec"
                \/ \E i \in DOMAIN nodes : i > idx[w] /\ nodes[i] = q[1]
                \/ nodes[idx[w]] = q[1] /\ pc[w] \in {"load", "add"}
                \/ /\ nodes[idx[w]] = q[1] /\ pc[w] = "dequeue"
                   /\ \E j \in DOMAIN InputTypes[q[1]] :
                        j >= input[w] /\ InputTypes[q[1]][j] = q[2]
        /\ Visits(w, q)' <=>
             /\ pc'[w] \in Walking
             /\ \/ processed'[w] > 0 \/ pc'[w] = "exec"
                \/ \E i \in DOMAIN nodes : i > idx'[w] /\ nodes[i] = q[1]
                \/ nodes[idx'[w]] = q[1] /\ pc'[w] \in {"load", "add"}
                \/ /\ nodes[idx'[w]] = q[1] /\ pc'[w] = "dequeue"
                   /\ \E j \in DOMAIN InputTypes[q[1]] :
                        j >= input'[w] /\ InputTypes[q[1]][j] = q[2]
  BY <1>1, <1>2, <1>3 DEF Visits
<1>5. sem[g] \in Nat /\ sem'[g] \in Nat /\ Needs(w) \in 0 .. 2 /\ Needs(w)' \in 0 .. 2
  BY <1>0, NeedsRange DEF DfgTypeOK
<1>c. UNCHANGED <<canTerminate, mpc, mi>>
  BY DEF WorkerStep, Acquire, CheckTerminate, LoadCount, Enter, Refused, FetchAdd, Dequeue,
     InputEmpty, DequeueFail, ExecReturn, FetchSub, NextNode, Restart
<1>t. \A n \in Node : GroupOf(n) = g => MaxThreads[n] > 0 /\ MaxThreads[n] \in Nat
  BY DfgAssumption
<1>6. CASE Acquire(w)
  <2>1. /\ pc[w] = "park" /\ pc'[w] = "check" /\ sem[g] > 0 /\ sem'[g] = sem[g] - 1
        /\ UNCHANGED <<queue, todo>>
    BY <1>0, <1>2, <1>6 DEF Acquire, DfgTypeOK
  <2>2. Needs(w) = Needs(w)' + 1
    BY <1>c, <2>1 DEF Needs, Closing
  <2>3. \A q \in Input : ~ Visits(w, q)
    BY <2>1 DEF Visits, Walking
  <2>4. Coming(g) => Coming(g)'
    BY <2>1 DEF Coming
  <2> QED BY <1>5, <2>1, <2>2, <2>3, <2>4, Kept
<1>7. ASSUME UNCHANGED <<sem, todo>>, pc'[w] # "exited",
             pc[w] \notin {"check", "exited"},
             pc'[w] # "check",
             \A q \in Input : GroupOf(q[1]) = g /\ queue'[q] # <<>> =>
               queue[q] # <<>> /\ (Takes(q[1], q[2]) /\ Visits(w, q) => Visits(w, q)')
      PROVE  ServedBy(g, w)'
  <2>1. Needs(w)' = Needs(w)
    BY <1>c, <1>7 DEF Needs, Closing
  <2>2. Coming(g) => Coming(g)'
    BY <1>7 DEF Coming
  <2> QED BY <1>5, <1>7, <2>1, <2>2, Kept
<1>8. ASSUME NEW q \in Input, GroupOf(q[1]) = g
      PROVE  \E i \in DOMAIN nodes : nodes[i] = q[1] /\ (i = 1 \/ i > 1)
  BY <1>2, <1>3, <1>8 DEF Input
<1>9. CASE CheckTerminate(w)
  <2>1. /\ pc[w] = "check" /\ pc'[w] = IF canTerminate[w] THEN "exited" ELSE "load"
        /\ idx'[w] = 1 /\ UNCHANGED <<queue, sem, todo>>
    BY <1>0, <1>9 DEF CheckTerminate, DfgTypeOK
  <2>2. CASE canTerminate[w]
    <3>1. Needs(w)' = Needs(w)
      BY <1>c, <2>1, <2>2 DEF Needs, Closing
    <3>2. \A q \in Input : ~ Visits(w, q)
      BY <2>1 DEF Visits, Walking
    <3>3. Coming(g) => Coming(g)'
      BY <2>1 DEF Coming
    <3> QED BY <1>c, <1>5, <2>1, <2>2, <3>1, <3>2, <3>3, Kept
  <2>3. CASE ~ canTerminate[w]
    <3>1. Needs(w)' = 1 /\ pc'[w] = "load"
      BY <1>c, <2>1, <2>3 DEF Needs
    <3>2. \A q \in Input : GroupOf(q[1]) = g => Visits(w, q)'
      BY <1>4, <1>8, <2>1, <3>1 DEF Walking
    <3>3. Needs(w)' <= sem'[g] + 1
      BY <1>5, <3>1
    <3>4. \A q \in Input : GroupOf(q[1]) = g /\ queue'[q] # <<>> => Takes(q[1], q[2])
      BY <2>1 DEF ServedBy
    <3> QED BY <3>1, <3>2, <3>3, <3>4 DEF ServedBy
  <2> QED BY <2>2, <2>3
<1>10. CASE LoadCount(w)
  <2>1. pc[w] = "load" /\ NodeAt(w) \in Node /\ GroupOf(NodeAt(w)) = g
    BY <1>2, <1>3, <1>10 DEF LoadCount, Walking
  <2>2. threadCount[NodeAt(w)] < MaxThreads[NodeAt(w)]
    <3>1. threadCount[NodeAt(w)] = 0
      BY <1>0, <2>1, SingleCount
    <3> QED BY <1>t, <2>1, <3>1
  <2>3. /\ pc'[w] = "add" /\ UNCHANGED <<queue, sem, todo, idx, processed, input>>
    BY <1>0, <1>10, <2>2 DEF LoadCount, DfgTypeOK
  <2>4. \A q \in Input : Visits(w, q) => Visits(w, q)'
    BY <1>4, <2>1, <2>3 DEF Walking
  <2> QED BY <1>7, <2>1, <2>3, <2>4
<1>11. CASE Enter(w)
  <2>1. /\ pc[w] = "add" /\ pc'[w] = "dequeue" /\ input'[w] = 1
        /\ UNCHANGED <<queue, sem, todo, idx, processed>>
    BY <1>0, <1>11 DEF Enter, FetchAdd, DfgTypeOK
  <2>2. ASSUME NEW q \in Input, Takes(q[1], q[2]), Visits(w, q)
        PROVE  Visits(w, q)'
    <3>1. \E j \in DOMAIN InputTypes[q[1]] : j >= 1 /\ InputTypes[q[1]][j] = q[2]
      <4>1. InputTypes[q[1]] \in Seq(Type)
        BY DfgAssumption DEF Input
      <4> QED BY <2>2, <4>1 DEF Takes
    <3> QED BY <1>4, <2>1, <2>2, <3>1 DEF Walking
  <2> QED BY <1>7, <2>1, <2>2
<1>12. CASE Refused(w)
  <2>1. pc[w] = "add" /\ NodeAt(w) \in Node /\ GroupOf(NodeAt(w)) = g
    BY <1>2, <1>3, <1>12 DEF Refused, FetchAdd, Walking
  <2>2. threadCount[NodeAt(w)] = 0
    BY <1>0, <2>1, SingleCount
  <2>3. FALSE
    BY <1>t, <1>12, <2>1, <2>2 DEF Refused
  <2> QED BY <2>3
<1>13. CASE Dequeue(w)
  <2>1. /\ pc[w] = "dequeue" /\ pc'[w] = "exec" /\ sem' = sem
        /\ queue[InputAt(w)] # <<>>
        /\ \E s : queue' = [queue EXCEPT ![InputAt(w)] = s]
        /\ \E s : todo' = [todo EXCEPT ![w] = s]
    BY <1>0, <1>13 DEF Dequeue, DfgTypeOK
  <2>2. \A q \in Input : queue'[q] # <<>> => queue[q] # <<>>
    BY <1>0, <2>1 DEF DfgTypeOK
  <2>3. \A q \in Input : Visits(w, q)'
    BY <1>4, <2>1 DEF Walking
  <2>4. Coming(g) => Coming(g)'
    <3>1. todo[w] = <<>> /\ \A t \in Thread : t # w => todo'[t] = todo[t]
      BY <1>0, <2>1 DEF TodoInv, DfgTypeOK
    <3> QED BY <3>1 DEF Coming
  <2>5. Needs(w)' = Needs(w)
    BY <1>c, <2>1 DEF Needs, Closing
  <2> QED BY <1>5, <2>1, <2>2, <2>3, <2>4, <2>5, Kept
<1>14. CASE InputEmpty(w)
  <2>1. /\ pc[w] = "dequeue" /\ input'[w] = input[w] + 1 /\ queue[InputAt(w)] = <<>>
        /\ UNCHANGED <<queue, sem, todo, idx, processed, pc>>
    BY <1>0, <1>14 DEF InputEmpty, DfgTypeOK
  <2>2. ASSUME NEW q \in Input, queue[q] # <<>>, Visits(w, q)
        PROVE  Visits(w, q)'
    <3>1. q = <<q[1], q[2]>>
      BY DEF Input
    <3>2. ASSUME NEW j \in DOMAIN InputTypes[q[1]], nodes[idx[w]] = q[1], j >= input[w],
                 InputTypes[q[1]][j] = q[2]
          PROVE  j >= input[w] + 1
      <4>1. j # input[w]
        BY <1>3, <2>1, <2>2, <3>1, <3>2 DEF InputAt
      <4>2. j \in Nat
        <5>1. InputTypes[q[1]] \in Seq(Type)
          BY DfgAssumption DEF Input
        <5> QED BY <5>1
      <4> QED BY <1>3, <3>2, <4>1, <4>2
    <3> QED BY <1>4, <2>1, <2>2, <3>2
  <2> QED BY <1>7, <2>1, <2>2
<1>15. CASE DequeueFail(w)
  <2>1. /\ pc[w] = "dequeue" /\ pc'[w] = "sub" /\ input[w] > Len(InputTypes[NodeAt(w)])
        /\ UNCHANGED <<queue, sem, todo, idx, processed, input>>
    BY <1>0, <1>15 DEF DequeueFail, DfgTypeOK
  <2>2. ASSUME NEW q \in Input, Visits(w, q)
        PROVE  Visits(w, q)'
    <3>1. ASSUME NEW j \in DOMAIN InputTypes[q[1]], nodes[idx[w]] = q[1], j >= input[w]
          PROVE  FALSE
      <4>1. InputTypes[q[1]] \in Seq(Type)
        BY DfgAssumption DEF Input
      <4> QED BY <1>3, <2>1, <3>1, <4>1
    <3> QED BY <1>4, <2>1, <2>2, <3>1 DEF Walking
  <2> QED BY <1>7, <2>1, <2>2
<1>16. CASE ExecReturn(w)
  <2>1. /\ pc[w] = "exec" /\ pc'[w] \in {"dequeue", "sub"}
        /\ processed'[w] = processed[w] + 1
        /\ UNCHANGED <<queue, sem, todo, idx>>
    BY <1>0, <1>16 DEF ExecReturn, DfgTypeOK
  <2>2. \A q \in Input : Visits(w, q)'
    BY <1>3, <1>4, <2>1 DEF Walking
  <2> QED BY <1>7, <2>1, <2>2
<1>17. CASE FetchSub(w)
  <2>1. /\ pc[w] = "sub" /\ pc'[w] = "next"
        /\ UNCHANGED <<queue, sem, todo, idx, processed, input>>
    BY <1>0, <1>17 DEF FetchSub, DfgTypeOK
  <2>2. \A q \in Input : Visits(w, q) => Visits(w, q)'
    BY <1>4, <2>1 DEF Walking
  <2> QED BY <1>7, <2>1, <2>2
<1>18. CASE NextNode(w)
  <2>1. /\ pc[w] = "next" /\ pc'[w] = "load" /\ idx'[w] = idx[w] + 1
        /\ UNCHANGED <<queue, sem, todo, processed>>
    BY <1>0, <1>18 DEF NextNode, DfgTypeOK
  <2>2. ASSUME NEW q \in Input, Visits(w, q)
        PROVE  Visits(w, q)'
    <3>1. processed[w] > 0 \/ \E i \in DOMAIN nodes : i > idx[w] /\ nodes[i] = q[1]
      BY <1>4, <2>1, <2>2
    <3>2. \A i \in DOMAIN nodes : i > idx[w] => i = idx[w] + 1 \/ i > idx[w] + 1
      BY <1>3
    <3> QED BY <1>4, <2>1, <3>1, <3>2 DEF Walking
  <2> QED BY <1>7, <2>1, <2>2
<1>19. CASE Restart(w)
  <2>1. /\ pc[w] = "next" /\ idx[w] >= Len(nodes) /\ UNCHANGED <<queue, sem, todo>>
    BY <1>1, <1>2, <1>19 DEF Restart
  <2>2. CASE processed[w] = 0
    <3>1. pc'[w] = "park"
      BY <1>0, <1>19, <2>2 DEF Restart, DfgTypeOK
    <3>2. \A q \in Input : ~ Visits(w, q)
      BY <1>3, <1>4, <2>1, <2>2
    <3> QED BY <1>7, <2>1, <3>1, <3>2
  <2>3. CASE processed[w] # 0
    <3>1. pc'[w] = "load" /\ idx'[w] = 1
      BY <1>0, <1>19, <2>3 DEF Restart, DfgTypeOK
    <3>2. \A q \in Input : GroupOf(q[1]) = g => Visits(w, q)'
      BY <1>4, <1>8, <3>1 DEF Walking
    <3> QED BY <1>7, <2>1, <3>1, <3>2
  <2> QED BY <2>2, <2>3
<1> QED BY <1>6, <1>9, <1>10, <1>11, <1>12, <1>13, <1>14, <1>15, <1>16, <1>17, <1>18, <1>19
        DEF WorkerStep

(* A step of the main thread that is no step of tu_internal_node_enqueue.    *)
LEMMA MainServed ==
  ASSUME DfgAllInv, DfgTypeOK', MainStep \/ UserStep \/ SpuriousWakeup, ~ Send(Main),
         NEW g \in Group, NEW w \in Worker, Members(g) = {w}, ServedBy(g, w)
  PROVE  ServedBy(g, w)'
<1>0. DfgTypeOK /\ TodoInv /\ DfgInv
  BY DEF DfgAllInv
<1>1. GroupOfWorker[w] = g /\ g \in Nat /\ mi \in Nat /\ NumGroups \in Nat /\ g <= NumGroups
  BY <1>0, DfgAssumption DEF Members, Group, DfgTypeOK
<1>2. sem[g] \in Nat /\ sem'[g] \in Nat /\ Needs(w) \in 0 .. 2 /\ Needs(w)' \in 0 .. 2
  BY <1>0, NeedsRange DEF DfgTypeOK
<1>3. ASSUME UNCHANGED <<queue, pc, idx, processed, input>>,
             canTerminate[w] => canTerminate'[w],
             Needs(w)' + sem[g] <= Needs(w) + sem'[g], Coming(g) => Coming(g)'
      PROVE  ServedBy(g, w)'
  <2>1. \A q \in Input : Visits(w, q)' = Visits(w, q)
    BY <1>3 DEF Visits, NodeAt
  <2>2. pc'[w] = "exited" => canTerminate'[w]
    BY <1>3 DEF ServedBy
  <2> QED BY <1>2, <1>3, <2>1, <2>2, Kept
<1>4. ASSUME UNCHANGED <<sem, todo, queue, pc, idx, processed, input, canTerminate>>,
             Closing(g) => Closing(g)'
      PROVE  ServedBy(g, w)'
  <2>1. Needs(w)' <= Needs(w)
    BY <1>1, <1>4 DEF Needs
  <2>2. Coming(g) => Coming(g)'
    BY <1>4 DEF Coming
  <2> QED BY <1>2, <1>3, <1>4, <2>1, <2>2
<1>5. CASE TakeResult \/ NoResult \/ Block \/ MainWait \/ MainTerm \/ MainExec
             \/ SpuriousWakeup \/ JoinAll
  <2>1. UNCHANGED <<sem, todo, queue, pc, idx, processed, input, canTerminate>>
    BY <1>5 DEF TakeResult, NoResult, Block, MainWait, MainTerm, MainExec, SpuriousWakeup,
       JoinAll
  <2>2. Closing(g) => Closing(g)'
    BY <1>1, <1>5 DEF Closing, TakeResult, NoResult, Block, MainWait, MainTerm, MainExec,
       SpuriousWakeup, JoinAll
  <2> QED BY <1>4, <2>1, <2>2
<1>6. CASE \E d \in Datum : MainPush(d)
  <2>1. /\ UNCHANGED <<sem, queue, pc, idx, processed, input, canTerminate, mpc, mi>>
        /\ todo[Main] = <<>> /\ \E s : todo' = [todo EXCEPT ![Main] = s]
    BY <1>6 DEF MainPush
  <2>2. Coming(g) => Coming(g)'
    <3>1. \A t \in Thread : t # Main => todo'[t] = todo[t]
      BY <1>0, <2>1 DEF DfgTypeOK
    <3> QED BY <2>1, <3>1 DEF Coming
  <2>3. Needs(w)' = Needs(w)
    BY <2>1 DEF Needs, Closing
  <2> QED BY <1>2, <1>3, <2>1, <2>2, <2>3
<1>7. CASE \E v \in Worker : SetTerminate(v)
  <2>1. PICK v \in Worker : SetTerminate(v)
    BY <1>7
  <2>2. /\ UNCHANGED <<sem, todo, queue, pc, idx, processed, input>>
        /\ mpc = "flags" /\ v \in Members(mi)
        /\ canTerminate' = [canTerminate EXCEPT ![v] = TRUE]
        /\ mpc' \in {"flags", "release"} /\ mi' = mi
    BY <2>1 DEF SetTerminate
  <2>3. Closing(g)' = Closing(g)
    BY <2>2 DEF Closing
  <2>4. Coming(g) => Coming(g)'
    BY <2>2 DEF Coming
  <2>5. canTerminate[w] => canTerminate'[w]
    BY <1>0, <2>2 DEF DfgTypeOK
  <2>6. Needs(w)' = Needs(w)
    <3>1. CASE v = w
      <4>1. Closing(g)
        BY <1>1, <2>2, <3>1 DEF Members, Closing
      <4> QED BY <1>1, <2>2, <2>3, <4>1 DEF Needs
    <3>2. CASE v # w
      <4>1. canTerminate'[w] = canTerminate[w]
        BY <1>0, <2>2, <3>2 DEF DfgTypeOK
      <4> QED BY <1>1, <2>2, <2>3, <4>1 DEF Needs
    <3> QED BY <3>1, <3>2
  <2> QED BY <1>2, <1>3, <2>2, <2>4, <2>5, <2>6
<1>8. CASE ReleaseAll
  <2>1. /\ UNCHANGED <<todo, queue, pc, idx, processed, input, canTerminate>>
        /\ mpc = "release" /\ mpc' = "join" /\ mi' = mi
        /\ sem' = [sem EXCEPT ![mi] = @ + Cardinality(Members(mi))]
    BY <1>8 DEF ReleaseAll
  <2>2. Coming(g) => Coming(g)'
    BY <2>1 DEF Coming
  <2>3. CASE mi = g
    <3>1. sem'[g] = sem[g] + 1
      <4>1. Cardinality(Members(g)) = 1
        BY FS_Singleton
      <4> QED BY <1>0, <2>1, <2>3, <4>1 DEF DfgTypeOK
    <3>2. Needs(w)' <= Needs(w) + 1
      BY <2>1 DEF Needs
    <3> QED BY <1>2, <1>3, <2>1, <2>2, <3>1, <3>2
  <2>4. CASE mi # g
    <3>1. sem'[g] = sem[g]
      BY <1>0, <2>1, <2>4 DEF DfgTypeOK
    <3>2. Closing(g)' = Closing(g)
      BY <1>1, <2>1, <2>4 DEF Closing
    <3>3. Needs(w)' = Needs(w)
      BY <1>1, <2>1, <3>2 DEF Needs
    <3> QED BY <1>2, <1>3, <2>1, <2>2, <3>1, <3>3
  <2> QED BY <2>3, <2>4
<1>9. CASE \E v \in Worker : StartWorker(v)
  <2>1. PICK v \in Worker : StartWorker(v)
    BY <1>9
  <2>2. /\ UNCHANGED <<sem, todo, queue, idx, processed, input>>
        /\ mpc = "start" /\ mi = v /\ mpc' \in {"start", "user"}
        /\ canTerminate' = [canTerminate EXCEPT ![v] = FALSE]
        /\ pc' = [pc EXCEPT ![v] = "park"]
    BY <2>1 DEF StartWorker
  <2>3. ~ Closing(g) /\ ~ Closing(g)'
    BY <2>2 DEF Closing
  <2>4. Coming(g) => Coming(g)'
    BY <2>2 DEF Coming
  <2>5. CASE v = w
    <3>1. pc[w] = "exited"
      BY <1>0, <2>2, <2>5 DEF DfgInv, JoinInv, Exited, Worker
    <3>2. canTerminate[w] /\ pc'[w] = "park" /\ canTerminate'[w] = FALSE
      BY <1>0, <2>2, <2>5, <3>1 DEF ServedBy, DfgTypeOK
    <3>3. Needs(w)' = Needs(w)
      BY <1>1, <2>3, <3>1, <3>2 DEF Needs
    <3>4. \A q \in Input : ~ Visits(w, q)
      BY <3>1 DEF Visits, Walking
    <3> QED BY <1>2, <2>2, <2>4, <3>2, <3>3, <3>4, Kept
  <2>6. CASE v # w
    <3>1. pc'[w] = pc[w] /\ canTerminate'[w] = canTerminate[w]
      BY <1>0, <2>2, <2>6 DEF DfgTypeOK
    <3>2. Needs(w)' = Needs(w)
      BY <1>1, <2>3, <3>1 DEF Needs
    <3>3. \A q \in Input : Visits(w, q)' = Visits(w, q)
      BY <2>2, <3>1 DEF Visits, NodeAt
    <3>4. pc'[w] = "exited" => canTerminate'[w]
      BY <3>1 DEF ServedBy
    <3> QED BY <1>2, <2>2, <2>4, <3>2, <3>3, <3>4, Kept
  <2> QED BY <2>5, <2>6
<1> QED BY <1>5, <1>6, <1>7, <1>8, <1>9 DEF MainStep, UserStep

LEMMA ServeStep ==
  ASSUME DfgAllInv, [Next]_vars
  PROVE  ServeInv'
<1>1. DfgTypeOK'
  BY TypesStep
<1>2. SUFFICES ASSUME NEW g \in Group, Single(g), NEW w \in Members(g)
               PROVE  ServedBy(g, w)'
  BY DEF ServeInv, Single, Members
<1>3. /\ w \in Worker /\ Members(g) = {w} /\ ServedBy(g, w)
      /\ \A n \in Node : GroupOf(n) = g => MaxThreads[n] > 0
  BY <1>2 DEF Single, Members, DfgAllInv, ServeInv
<1>4. ASSUME NEW v \in Worker, WorkerStep(v)
      PROVE  ServedBy(g, w)'
  <2>1. v \in Thread
    BY DEF Thread
  <2>2. CASE Send(v)
    BY <1>3, <2>1, <2>2, SendServed
  <2>3. CASE ~ Send(v) /\ v # w
    BY <1>1, <1>3, <1>4, <2>3, OtherServed
  <2>4. CASE ~ Send(v) /\ v = w
    BY <1>1, <1>3, <1>4, <2>4, OwnServed
  <2> QED BY <2>2, <2>3, <2>4
<1>5. CASE Send(Main)
  <2>1. Main \in Thread
    BY DEF Thread
  <2> QED BY <1>3, <1>5, <2>1, SendServed
<1>6. CASE (MainStep \/ UserStep \/ SpuriousWakeup) /\ ~ Send(Main)
  BY <1>1, <1>3, <1>6, MainServed
<1>7. CASE Terminated \/ UNCHANGED vars
  <2>1. UNCHANGED vars
    BY <1>7 DEF Terminated
  <2> QED BY <1>3, <2>1 DEF vars, ServedBy, Needs, Tokens, Closing, Coming, Visits, NodeAt
<1> QED BY <1>4, <1>5, <1>6, <1>7 DEF Next

(* Types, the announcement of what is added to a queue, and the service of   *)
(* the groups of one worker, for any graph.                                  *)
THEOREM DfgAllInvariance == Spec => []DfgAllInv
<1>1. Init /\ DfgInv => DfgAllInv
  <2> SUFFICES ASSUME Init, DfgInv PROVE DfgAllInv
    OBVIOUS
  <2>1. DfgTypeOK
    BY DEF Init, DfgTypeOK, WorkerPC, MainPC
  <2>2. TodoInv
    <3>1. Announced(<<>>)
      BY DEF Announced
    <3>2. Main \in Thread /\ Worker \subseteq Thread
      BY DEF Thread
    <3> QED BY <3>1, <3>2 DEF Init, TodoInv
  <2>3. ASSUME NEW g \in Group, NEW w \in Worker
        PROVE  ServedBy(g, w)
    <3>1. Needs(w) = 1 /\ sem[g] = 0 /\ pc[w] = "park"
      BY <2>3 DEF Init, Needs
    <3>2. \A q \in Input : queue[q] = <<>>
      BY DEF Init
    <3> QED BY <3>1, <3>2 DEF ServedBy
  <2>4. ServeInv
    BY <2>3 DEF ServeInv, Members
  <2> QED BY <2>1, <2>2, <2>4 DEF DfgAllInv
<1>2. DfgAllInv /\ DfgInv' /\ [Next]_vars => DfgAllInv'
  <2> SUFFICES ASSUME DfgAllInv, DfgInv', [Next]_vars PROVE DfgAllInv'
    OBVIOUS
  <2>1. DfgTypeOK' /\ TodoInv'
    BY TypesStep
  <2>2. ServeInv'
    BY ServeStep
  <2> QED BY <2>1, <2>2 DEF DfgAllInv
<1> QED BY <1>1, <1>2, DfgInvariance, PTL DEF Spec

(* Every variable keeps its type; in particular no semaphore, no             *)
(* thread_count and no process_count becomes negative.                       *)
THEOREM DfgTypesAreCorrect == Spec => []DfgTypeOK
<1>1. DfgAllInv => DfgTypeOK
  BY DEF DfgAllInv
<1> QED BY <1>1, DfgAllInvariance, PTL

(* A group of one worker does not go to sleep while data are in one of its   *)
(* queues, whatever happens in the other groups, and across tu_dfg_term and  *)
(* a new tu_dfg_exec.                                                        *)
THEOREM SingleGroupsAreServed ==
  Spec => [](\A g \in Group : Single(g) => GroupServed(g))
<1>1. ASSUME DfgAllInv, NEW g \in Group, Single(g), Quiet(g),
             NEW q \in Input, GroupOf(q[1]) = g, queue[q] # <<>>
      PROVE  FALSE
  <2>1. PICK w \in Worker : Members(g) = {w}
    BY <1>1 DEF Single
  <2>2. ServedBy(g, w) /\ pc[w] = "park" /\ sem[g] = 0
    BY <1>1, <2>1 DEF DfgAllInv, ServeInv, Quiet
  <2>3. ~ Coming(g)
    BY <1>1 DEF Quiet, Coming
  <2>4. Tokens(g) = 0 /\ Needs(w) \in 1 .. 2
    BY <2>2, <2>3 DEF Tokens, Needs
  <2>5. ~ Visits(w, q)
    BY <2>2 DEF Visits, Walking
  <2> QED BY <1>1, <2>2, <2>4, <2>5 DEF ServedBy
<1>2. DfgAllInv => \A g \in Group : Single(g) => GroupServed(g)
  BY <1>1 DEF GroupServed
<1> QED BY <1>2, DfgAllInvariance, PTL

(* So every group is served when each has one worker, as in the runs of      *)
(* Served.                                                                   *)
THEOREM GraphsOfSingleGroupsAreServed ==
  (\A g \in Group : Single(g)) => (Spec => []Served)
<1>1. ASSUME \A g \in Group : Single(g)
      PROVE  Spec => []Served
  <2>1. (\A g \in Group : Single(g) => GroupServed(g)) => Served
    BY <1>1 DEF Served
  <2> QED BY <2>1, SingleGroupsAreServed, PTL
<1> QED BY <1>1
=============================================================================
