--------------------------- MODULE TaskManagerInd ---------------------------
(***************************************************************************)
(* The inductive invariant behind TypeOK, CounterExact, StateExclusive and *)
(* CompletionSound: who holds an operation in each of its phases.  On top  *)
(* of it, the one behind QueueServed, StateServed and OwnerHasWork: who    *)
(* will see to what is in a queue.                                         *)
(***************************************************************************)
EXTENDS TaskManager

(* An operation in tu_tm_push_op, up to its publication, is in the hands   *)
(* of one thread.  Only user code pushes.                                  *)
PushInv ==
  /\ \A t \in Thread :
       /\ Busy(t) => arg[t] \in Op
       /\ push[t] = "count" => phase[arg[t]] = "called"
       /\ push[t] = "push" =>
            phase[arg[t]] = "counted" /\ gstatus[arg[t]] = "out"
       /\ push[t] = "publish" =>
            phase[arg[t]] = "counted" /\ gstatus[arg[t]] = "claimed"
  /\ \A t, u \in Thread :
       /\ push[t] \in {"count", "push", "publish"}
       /\ push[u] \in {"count", "push", "publish"}
       /\ arg[t] = arg[u]
       => t = u
  /\ \A w \in Worker : Busy(w) => pc[w] = "exec"
  /\ Busy(Main) => mpc = "user"

(* A queue holds operations of one phase only. *)
QueueInv ==
  /\ \A o \in Op : gstatus[o] # "out" => phase[o] = "counted"
  /\ \A o \in StateOp : sstatus[o] # "out" => phase[o] = "taken"

(* An operation in the hands of a worker is in the hands of no other. *)
HoldInv ==
  /\ \A w \in Worker :
       /\ pc[w] = "exec" => cur[w] \in Op /\ phase[cur[w]] \in {"running", "inline"}
       /\ pc[w] \in {"spush", "spublish", "sadd"} => cur[w] \in StateOp
       /\ pc[w] = "spush" =>
            phase[cur[w]] = "taken" /\ sstatus[cur[w]] = "out"
       /\ pc[w] = "spublish" =>
            phase[cur[w]] = "taken" /\ sstatus[cur[w]] = "claimed"
  /\ \A v, w \in Worker :
       /\ pc[v] \in {"exec", "spush", "spublish"}
       /\ pc[w] \in {"exec", "spush", "spublish"}
       /\ cur[v] = cur[w]
       => v = w

(* The processed operations of a worker, and its duty to discharge them. *)
BatchInv ==
  /\ \A w \in Worker :
       /\ \A o \in batch[w] : phase[o] = "done"
       /\ cnt[w] = Cardinality(batch[w])
       /\ pc[w] = "exec" /\ phase[cur[w]] = "inline" => batch[w] # {}
  /\ \A v, w \in Worker : v # w => batch[v] \cap batch[w] = {}

Emptied == WorkerPC \ {"exec", "cache", "ssub", "spop", "spopping"}

(* A cached task is in one cache, and its worker still has a counted       *)
(* operation to discharge.                                                 *)
CacheInv ==
  /\ \A w \in Worker :
       /\ \A i \in 1 .. Len(cache[w]) : phase[cache[w][i]] = "cached"
       /\ pc[w] \in Emptied => cache[w] = <<>>
       /\ \/ cache[w] = <<>>
          \/ batch[w] # {}
          \/ pc[w] = "exec" /\ phase[cur[w]] = "running"
  /\ \A v, w \in Worker :
       \A i \in 1 .. Len(cache[v]), j \in 1 .. Len(cache[w]) :
         cache[v][i] = cache[w][j] => v = w /\ i = j

(* Every operation that is not counted and not settled is in somebody's    *)
(* hands.                                                                  *)
HeldInv ==
  \A o \in Op :
    /\ phase[o] = "called" =>
         \E t \in Thread : push[t] = "count" /\ arg[t] = o
    /\ phase[o] = "inline" => \E w \in Worker : pc[w] = "exec" /\ cur[w] = o
    /\ phase[o] = "cached" =>
         \E w \in Worker : \E i \in 1 .. Len(cache[w]) : cache[w][i] = o

(* A state's counter is positive as long as the state has an owner. *)
OwnInv ==
  /\ \A w \in Worker :
       /\ own[w] # NoState =>
            /\ pc[w] \in {"spop", "spopping", "exec", "ssub"}
            /\ stateCnt[own[w]] >= 1
       /\ pc[w] \in {"spop", "spopping", "ssub"} => own[w] # NoState
       /\ pc[w] = "spopping" => son[w] = own[w]
       /\ pc[w] = "exec" /\ own[w] # NoState => phase[cur[w]] = "running"
       /\ pc[w] = "exec" /\ phase[cur[w]] = "running"
            => StateOf[cur[w]] = own[w]
  /\ \A v, w \in Worker : own[v] # NoState /\ own[v] = own[w] => v = w
  /\ \A s \in State : stateCnt[s] >= 0

IndInv ==
  /\ TypeOK
  /\ PushInv /\ QueueInv /\ HoldInv /\ BatchInv /\ CacheInv /\ HeldInv /\ OwnInv
  /\ CounterExact
  /\ CompletionSound

-----------------------------------------------------------------------------
(* Where a worker is when it pops from the queue of its group, and who has *)
(* claimed a slot of it.                                                   *)
PopInv ==
  /\ \A w \in Worker :
       /\ pc[w] = "popping" => gon[w] = GroupOfWorker[w]
       /\ pc[w] # "popping" => ~ gblocked[w]
  /\ \A o \in Op : gstatus[o] = "claimed" =>
       \E t \in Thread : push[t] = "publish" /\ arg[t] = o
  /\ \A w \in Worker : canTerminate[w] => mpc \in Finished \ {"returned"}

(* A token, a push to the group that has still to release its token, or a  *)
(* worker that has still to begin its last pop.                            *)
Expected(g) ==
  \/ sem[g] > 0
  \/ \E t \in Thread : push[t] \in {"publish", "release"} /\ GroupOf[arg[t]] = g
  \/ \E w \in Members(g) : pc[w] \in Awake \ {"popping"}

(* A worker whose pop cannot fail before o is taken.                       *)
SeenBy(w, o) == pc[w] = "popping" /\ o \in gmust[w] /\ ~ gblocked[w]

GroupServiceInv ==
  \A o \in Op : gstatus[o] = "ready" =>
    Expected(GroupOf[o]) \/ \E w \in Members(GroupOf[o]) : SeenBy(w, o)

(* The workers that have pushed to the queue of state s and have still to  *)
(* add to its counter, and the owner that has popped and has still to      *)
(* subtract.                                                               *)
Adding(s) == {w \in Worker : pc[w] = "sadd" /\ StateOf[cur[w]] = s}
Executing(s) == {w \in Worker : own[w] = s /\ pc[w] \in {"exec", "ssub"}}

(* What the counter of a state counts; it is positive only while the state *)
(* has an owner.                                                           *)
StateServiceInv ==
  \A s \in State :
    /\ stateCnt[s] + Cardinality(Adding(s)) =
         Cardinality(SQ!Inside(s, "ready")) + Cardinality(Executing(s))
    /\ stateCnt[s] > 0 => \E w \in Worker : own[w] = s

ServiceInv == PopInv /\ GroupServiceInv /\ StateServiceInv

AllInv == IndInv /\ ServiceInv
=============================================================================
