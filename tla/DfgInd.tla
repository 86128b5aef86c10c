------------------------------- MODULE DfgInd -------------------------------
(***************************************************************************)
(* The inductive invariants of the runner of data flow graphs: DfgInv is   *)
(* behind NodeLimit and CountExact, ServeInv behind Served for the groups  *)
(* of one worker.                                                          *)
(***************************************************************************)
EXTENDS Dfg

(* The inductive invariant behind NodeLimit and CountExact: where the      *)
(* workers are in their walk, and which of them tu_dfg_term has joined.    *)
Walking == {"load", "add", "dequeue", "exec", "sub", "next"}

Exited(w) == pc[w] = "exited"

WalkInv ==
  /\ threadCount \in [Node -> Nat]
  /\ pc \in [Worker -> WorkerPC]
  /\ idx \in [Worker -> Nat]
  /\ \A w \in Worker :
       pc[w] \in Walking => idx[w] \in 1 .. Len(NodesOf[GroupOfWorker[w]])

JoinInv ==
  /\ mpc \in MainPC
  /\ mpc \in {"flags", "release", "join"} =>
       mi \in Group /\ \A w \in Worker : GroupOfWorker[w] < mi => Exited(w)
  /\ mpc = "end" => \A w \in Worker : Exited(w)
  /\ mpc = "start" => mi \in Worker /\ \A w \in Worker : w >= mi => Exited(w)

DfgInv == WalkInv /\ JoinInv /\ CountExact /\ NodeLimit

-----------------------------------------------------------------------------
(* What a thread has still to do is well typed, and every datum that it    *)
(* adds is announced to the group of its node afterwards.                  *)
Announced(s) ==
  /\ s \in Seq(Step)
  /\ \A i \in DOMAIN s : s[i].op = "push" =>
       /\ Takes(s[i].node, s[i].type)
       /\ \E j \in DOMAIN s : j > i /\ s[j] = Release(s[i].node)

TodoInv ==
  /\ \A t \in Thread : Announced(todo[t]) /\ (todo[t] # <<>> => item[t] \in Datum)
  /\ \A w \in Worker : todo[w] # <<>> => pc[w] = "exec"
  /\ todo[Main] # <<>> => mpc = "user"

(* A group of one worker, whose nodes let it in. *)
Single(g) ==
  /\ \E w \in Worker : Members(g) = {w}
  /\ \A n \in Node : GroupOf(n) = g => MaxThreads[n] > 0

(* The worker will look at the queue q before its walk ends. *)
Visits(w, q) ==
  LET nodes == NodesOf[GroupOfWorker[w]] IN
  /\ pc[w] \in Walking
  /\ \/ processed[w] > 0 \/ pc[w] = "exec"
     \/ \E i \in DOMAIN nodes : i > idx[w] /\ nodes[i] = q[1]
     \/ NodeAt(w) = q[1] /\ pc[w] \in {"load", "add"}
     \/ /\ NodeAt(w) = q[1] /\ pc[w] = "dequeue"
        /\ \E j \in DOMAIN InputTypes[q[1]] :
             j >= input[w] /\ InputTypes[q[1]][j] = q[2]

(* tu_dfg_term has still to release the tokens of the group. *)
Closing(g) ==
  \/ mpc \in {"flags", "release"} /\ mi <= g
  \/ mpc = "join" /\ mi < g

Coming(g) ==
  \E t \in Thread : \E i \in DOMAIN todo[t] :
    todo[t][i].op = "release" /\ GroupOf(todo[t][i].node) = g

(* The tokens the worker needs until it has seen to the data in a queue    *)
(* that it does not look at in its present walk: one to wake up, unless it *)
(* has just acquired it, and one to terminate.                             *)
Needs(w) ==
  (IF pc[w] \in {"check", "exited"} THEN 0 ELSE 1)
    + (IF canTerminate[w] /\ ~ Closing(GroupOfWorker[w]) THEN 1 ELSE 0)

Tokens(g) == sem[g] + (IF Coming(g) THEN 1 ELSE 0)

ServedBy(g, w) ==
  /\ pc[w] = "exited" => canTerminate[w]
  /\ Needs(w) <= sem[g] + 1
  /\ \A q \in Input : GroupOf(q[1]) = g /\ queue[q] # <<>> =>
       /\ Takes(q[1], q[2])
       /\ Visits(w, q) \/ Needs(w) <= Tokens(g)

ServeInv ==
  \A g \in Group : Single(g) => \A w \in Members(g) : ServedBy(g, w)

DfgAllInv == DfgTypeOK /\ DfgInv /\ TodoInv /\ ServeInv
=============================================================================
