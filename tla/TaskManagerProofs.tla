-------------------------- MODULE TaskManagerProofs --------------------------
(***************************************************************************)
(* Theorems about the task manager, for any number of workers, groups,     *)
(* states and operations and any cache size: type correctness, exactness   *)
(* of operation_counter, exclusion between the owners of a state,          *)
(* soundness of tu_tm_wait_completion, service of the queues and of the    *)
(* states.  One lemma per action shows that it preserves the inductive     *)
(* invariant IndInv, and one that it preserves ServiceInv.  At the end,    *)
(* the rings of the caches behave as the sequences of the model.           *)
(***************************************************************************)
EXTENDS TaskManagerInd, FiniteSetTheorems, SequenceTheorems,
        WellFoundedInduction, TLAPS

USE DEF Thread, Main, Worker, Group, Phase, Busy, Call, Goto, MainGoto,
        groupVars, squeueVars, stateVars, flagVars, pushVars, workerVars,
        mainVars, threadVars

(* Outstanding is a finite set: its cardinality is a natural number. *)
LEMMA OutstandingFinite ==
  /\ IsFiniteSet(Outstanding)
  /\ Cardinality(Outstanding) \in Nat
BY ConstantsAssumption, FS_Subset, FS_CardinalityType DEF Outstanding

(* operation_counter is incremented before the operation is visible: the     *)
(* operation becomes outstanding in the same step.                           *)
LEMMA CountOpInv ==
  ASSUME IndInv, NEW t \in Thread, CountOp(t)
  PROVE  IndInv'
<1> USE DEF CountOp
<1>1. TypeOK'
  BY DEF IndInv, TypeOK, GQ!QueueTypeOK, SQ!QueueTypeOK, GQ!Status, SQ!Status,
         MainPC, WorkerPC, PushInv
<1>2. PushInv'
  <2> USE DEF IndInv, TypeOK, PushInv
  <2> DEFINE p == arg[t]
  <2>0. p \in Op /\ phase[p] = "called" /\ phase'[p] = "counted"
    OBVIOUS
  <2>1. gstatus[p] = "out"
    BY <2>0 DEF QueueInv
  <2>2. ASSUME NEW u \in Thread, u # t
        PROVE  /\ push'[u] = push[u] /\ arg'[u] = arg[u]
               /\ push[u] \in {"count", "push", "publish"} => arg[u] # p
    BY <2>2
  <2>3. push'[t] = "push" /\ arg' = arg
    OBVIOUS
  <2>4. \A q \in Op : q # p => phase'[q] = phase[q]
    BY <2>0
  <2> QED BY <2>0, <2>1, <2>2, <2>3, <2>4
<1>3. QueueInv'
  BY DEF IndInv, TypeOK, QueueInv, PushInv
<1>4. HoldInv'
  BY DEF IndInv, TypeOK, HoldInv, PushInv
<1>5. BatchInv'
  BY DEF IndInv, TypeOK, BatchInv, PushInv
<1>6. CacheInv'
  BY DEF IndInv, TypeOK, CacheInv, PushInv, Emptied, WorkerPC
<1>7. HeldInv'
  <2> USE DEF IndInv, TypeOK, HeldInv
  <2>1. arg[t] \in Op /\ phase'[arg[t]] = "counted"
    BY DEF PushInv
  <2>2. ASSUME NEW q \in Op, phase'[q] = "called"
        PROVE  \E u \in Thread : push'[u] = "count" /\ arg'[u] = q
    <3>1. q # arg[t] /\ phase[q] = "called"
      BY <2>1, <2>2
    <3>2. PICK u \in Thread : push[u] = "count" /\ arg[u] = q
      BY <3>1
    <3> QED BY <3>1, <3>2
  <2>3. ASSUME NEW q \in Op, phase'[q] \in {"inline", "cached"}
        PROVE  phase[q] = phase'[q]
    BY <2>1, <2>3
  <2> QED BY <2>2, <2>3
<1>8. OwnInv'
  BY DEF IndInv, TypeOK, OwnInv, PushInv
<1>9. CompletionSound'
  BY DEF IndInv, TypeOK, CompletionSound, PushInv, Finished
<1>10. CounterExact'
  <2> DEFINE p == arg[t]
  <2>1. p \in Op /\ phase[p] = "called" /\ p \notin Outstanding
    BY DEF IndInv, PushInv, Outstanding
  <2>2. Outstanding' = Outstanding \cup {p}
    BY <2>1 DEF IndInv, TypeOK, Outstanding
  <2> QED BY <2>1, <2>2, OutstandingFinite, FS_AddElement DEF IndInv,
         CounterExact
<1> QED BY <1>1, <1>2, <1>3, <1>4, <1>5, <1>6, <1>7, <1>8, <1>9, <1>10
        DEF IndInv

(* Claiming a slot of the group queue keeps the operation in the hands of    *)
(* the thread that pushes it.                                                *)
LEMMA ClaimOpInv ==
  ASSUME IndInv, NEW t \in Thread, ClaimOp(t)
  PROVE  IndInv'
<1> USE DEF ClaimOp, GQ!PushClaim, GQ!popVars
<1>1. TypeOK'
  BY DEF IndInv, TypeOK, GQ!QueueTypeOK, SQ!QueueTypeOK, GQ!Status, SQ!Status,
         MainPC, WorkerPC, PushInv
<1>2. PushInv'
  BY DEF IndInv, TypeOK, PushInv, GQ!QueueTypeOK, GQ!Status
<1>3. QueueInv'
  BY DEF IndInv, TypeOK, QueueInv, PushInv, GQ!QueueTypeOK, GQ!Status
<1>4. HeldInv'
  BY DEF IndInv, TypeOK, HeldInv, PushInv, GQ!QueueTypeOK, GQ!Status
<1>5. HoldInv' /\ BatchInv' /\ CacheInv' /\ OwnInv' /\ CompletionSound'
      /\ CounterExact'
  BY DEF IndInv, HoldInv, BatchInv, CacheInv, OwnInv, CompletionSound,
         CounterExact, Outstanding, Finished, Emptied
<1> QED BY <1>1, <1>2, <1>3, <1>4, <1>5 DEF IndInv

(* Publishing the operation gives it to the queue. *)
LEMMA PublishOpInv ==
  ASSUME IndInv, NEW t \in Thread, PublishOp(t)
  PROVE  IndInv'
<1> USE DEF PublishOp, GQ!PushPublish, GQ!popVars
<1>1. TypeOK'
  BY DEF IndInv, TypeOK, GQ!QueueTypeOK, SQ!QueueTypeOK, GQ!Status, SQ!Status,
         MainPC, WorkerPC, PushInv
<1>2. PushInv'
  BY DEF IndInv, TypeOK, PushInv, GQ!QueueTypeOK, GQ!Status
<1>3. QueueInv'
  BY DEF IndInv, TypeOK, QueueInv, PushInv, GQ!QueueTypeOK, GQ!Status
<1>4. HeldInv'
  BY DEF IndInv, TypeOK, HeldInv, PushInv, GQ!QueueTypeOK, GQ!Status
<1>5. HoldInv' /\ BatchInv' /\ CacheInv' /\ OwnInv' /\ CompletionSound'
      /\ CounterExact'
  BY DEF IndInv, HoldInv, BatchInv, CacheInv, OwnInv, CompletionSound,
         CounterExact, Outstanding, Finished, Emptied
<1> QED BY <1>1, <1>2, <1>3, <1>4, <1>5 DEF IndInv

(* Releasing the semaphore touches nothing that the invariant relates. *)
LEMMA ReleaseTokenInv ==
  ASSUME IndInv, NEW t \in Thread, ReleaseToken(t)
  PROVE  IndInv'
<1> USE DEF ReleaseToken
<1>1. TypeOK'
  <2>1. GroupOf[arg[t]] \in Group
    BY ConstantsAssumption DEF IndInv, PushInv
  <2>2. sem' \in [Group -> Nat]
    BY <2>1 DEF IndInv, TypeOK
  <2> QED BY <2>2 DEF IndInv, TypeOK, GQ!QueueTypeOK, SQ!QueueTypeOK
<1>2. PushInv'
  BY DEF IndInv, TypeOK, PushInv
<1>3. HeldInv'
  BY DEF IndInv, TypeOK, HeldInv
<1>4. QueueInv' /\ HoldInv' /\ BatchInv'
  BY DEF IndInv, QueueInv, HoldInv, BatchInv
<1>5. CacheInv' /\ OwnInv' /\ CompletionSound'
  BY DEF IndInv, CacheInv, OwnInv, CompletionSound, Emptied, Finished
<1>6. CounterExact'
  BY DEF IndInv, CounterExact, Outstanding
<1> QED BY <1>1, <1>2, <1>3, <1>4, <1>5, <1>6 DEF IndInv

(* An executed operation pushes a fresh operation: its worker then holds     *)
(* it.                                                                       *)
LEMMA ExecPushOpInv ==
  ASSUME IndInv, NEW w \in Worker, NEW o \in Op, ExecPushOp(w, o)
  PROVE  IndInv'
<1> USE DEF ExecPushOp
<1>1. TypeOK'
  BY DEF IndInv, TypeOK, GQ!QueueTypeOK, SQ!QueueTypeOK, GQ!Status, SQ!Status,
         MainPC, WorkerPC
<1>2. PushInv'
  BY DEF IndInv, TypeOK, PushInv
<1>3. QueueInv'
  BY DEF IndInv, TypeOK, QueueInv
<1>4. HoldInv'
  BY DEF IndInv, TypeOK, HoldInv
<1>5. BatchInv'
  BY DEF IndInv, TypeOK, BatchInv
<1>6. CacheInv'
  BY DEF IndInv, TypeOK, CacheInv, Emptied, WorkerPC
<1>7. HeldInv'
  <2> USE DEF IndInv, TypeOK, HeldInv
  <2>1. ASSUME NEW q \in Op, phase'[q] = "called"
        PROVE  \E u \in Thread : push'[u] = "count" /\ arg'[u] = q
    <3>1. CASE q = o
      BY <3>1
    <3>2. CASE q # o
      <4>1. PICK u \in Thread : push[u] = "count" /\ arg[u] = q
        BY <2>1, <3>2
      <4> QED BY <4>1
    <3> QED BY <3>1, <3>2
  <2>2. ASSUME NEW q \in Op, phase'[q] \in {"inline", "cached"}
        PROVE  phase[q] = phase'[q]
    BY <2>2
  <2> QED BY <2>1, <2>2
<1>8. OwnInv'
  BY DEF IndInv, TypeOK, OwnInv
<1>9. CompletionSound'
  <2>1. mpc \notin Finished
    BY DEF IndInv, HoldInv, CompletionSound
  <2> QED BY <2>1 DEF CompletionSound
<1>10. CounterExact'
  <2>1. Outstanding' = Outstanding
    BY DEF IndInv, TypeOK, Outstanding
  <2> QED BY <2>1 DEF IndInv, CounterExact
<1> QED BY <1>1, <1>2, <1>3, <1>4, <1>5, <1>6, <1>7, <1>8, <1>9, <1>10
        DEF IndInv

(* A task put in the cache of a worker that is executing a counted           *)
(* operation: the worker still has that operation to discharge.              *)
LEMMA ExecCacheTaskInv ==
  ASSUME IndInv, NEW w \in Worker, NEW o \in Op, ExecCacheTask(w, o)
  PROVE  IndInv'
<1> USE DEF ExecCacheTask, OwnTask
<1>1. TypeOK'
  <2>1. cache' \in [Worker -> Seq(Op)]
    BY DEF IndInv, TypeOK
  <2>2. phase' \in [Op -> Phase]
    BY DEF IndInv, TypeOK
  <2> QED BY <2>1, <2>2 DEF IndInv, TypeOK, WorkerPC, GQ!QueueTypeOK,
                            SQ!QueueTypeOK
<1>2. PushInv'
  BY DEF IndInv, TypeOK, PushInv
<1>3. QueueInv'
  BY DEF IndInv, TypeOK, QueueInv
<1>4. HoldInv'
  BY DEF IndInv, TypeOK, HoldInv
<1>5. BatchInv'
  <2>1. \A v \in Worker : \A q \in batch[v] : phase'[q] = "done"
    BY DEF IndInv, TypeOK, BatchInv
  <2>2. \A v \in Worker : phase'[cur[v]] = "inline" => phase[cur[v]] = "inline"
    BY DEF IndInv, TypeOK
  <2> QED BY <2>1, <2>2 DEF IndInv, BatchInv
<1>6. CacheInv'
  <2> DEFINE n == Len(cache[w])
  <2>1. /\ cache'[w] = Append(cache[w], o)
        /\ \A v \in Worker : v # w => cache'[v] = cache[v]
    BY DEF IndInv, TypeOK
  <2>2. cache[w] \in Seq(Op)
    BY DEF IndInv, TypeOK
  <2>3. /\ Len(cache'[w]) = n + 1 /\ cache'[w][n + 1] = o /\ n \in Nat
        /\ \A i \in 1 .. n : cache'[w][i] = cache[w][i]
    BY <2>1, <2>2
  <2>4. ASSUME NEW v \in Worker, NEW i \in 1 .. Len(cache[v])
        PROVE  phase[cache[v][i]] = "cached" /\ cache[v][i] # o
    BY DEF IndInv, CacheInv
  <2>5. /\ \A q \in Op : q # o => phase'[q] = phase[q]
        /\ phase'[o] = "cached"
    BY DEF IndInv, TypeOK
  <2>6. ASSUME NEW v \in Worker, NEW i \in 1 .. Len(cache'[v])
        PROVE  phase'[cache'[v][i]] = "cached"
    BY <2>1, <2>3, <2>4 DEF IndInv, TypeOK
  <2>7. ASSUME NEW v \in Worker
        PROVE  /\ pc'[v] \in Emptied => cache'[v] = <<>>
               /\ \/ cache'[v] = <<>>
                  \/ batch'[v] # {}
                  \/ pc'[v] = "exec" /\ phase'[cur'[v]] = "running"
    <3>1. phase[cur[v]] = "running" => phase'[cur[v]] = "running"
      BY DEF IndInv, TypeOK
    <3>2. CASE v = w
      BY <3>1, <3>2 DEF IndInv, HoldInv, BatchInv, Emptied
    <3>3. CASE v # w
      BY <2>1, <3>1, <3>3 DEF IndInv, CacheInv
    <3> QED BY <3>2, <3>3
  <2>8. ASSUME NEW u \in Worker, NEW v \in Worker,
               NEW i \in 1 .. Len(cache'[u]), NEW j \in 1 .. Len(cache'[v]),
               cache'[u][i] = cache'[v][j]
        PROVE  u = v /\ i = j
    <3>1. CASE u = w /\ i = n + 1
      BY <2>1, <2>3, <2>4, <2>8, <3>1
    <3>2. CASE v = w /\ j = n + 1
      BY <2>1, <2>3, <2>4, <2>8, <3>2
    <3>3. CASE ~ (u = w /\ i = n + 1) /\ ~ (v = w /\ j = n + 1)
      <4>1. i \in 1 .. Len(cache[u]) /\ cache'[u][i] = cache[u][i]
        BY <2>1, <2>3, <3>3
      <4>2. j \in 1 .. Len(cache[v]) /\ cache'[v][j] = cache[v][j]
        BY <2>1, <2>3, <3>3
      <4> QED BY <4>1, <4>2, <2>8 DEF IndInv, CacheInv
    <3> QED BY <3>1, <3>2, <3>3
  <2> QED BY <2>6, <2>7, <2>8 DEF CacheInv
<1>7. HeldInv'
  <2>1. /\ cache'[w] = Append(cache[w], o)
        /\ \A v \in Worker : v # w => cache'[v] = cache[v]
    BY DEF IndInv, TypeOK
  <2>2. cache[w] \in Seq(Op)
    BY DEF IndInv, TypeOK
  <2>3. /\ Len(cache[w]) + 1 \in 1 .. Len(cache'[w])
        /\ cache'[w][Len(cache[w]) + 1] = o
        /\ \A i \in 1 .. Len(cache[w]) : /\ i \in 1 .. Len(cache'[w])
                                        /\ cache'[w][i] = cache[w][i]
    BY <2>1, <2>2
  <2>4. ASSUME NEW q \in Op, phase'[q] = "cached"
        PROVE  \E v \in Worker : \E i \in 1 .. Len(cache'[v]) : cache'[v][i] = q
    <3>1. CASE q = o
      BY <2>3, <3>1
    <3>2. CASE q # o
      <4>1. PICK v \in Worker : \E i \in 1 .. Len(cache[v]) : cache[v][i] = q
        BY <2>4, <3>2 DEF IndInv, TypeOK, HeldInv
      <4> QED BY <2>1, <2>3, <4>1
    <3> QED BY <3>1, <3>2
  <2>5. \A q \in Op : phase'[q] \in {"called", "inline"} => phase[q] = phase'[q]
    BY DEF IndInv, TypeOK
  <2> QED BY <2>4, <2>5 DEF IndInv, HeldInv
<1>8. OwnInv'
  BY DEF IndInv, TypeOK, OwnInv
<1>9. CompletionSound'
  <2>1. mpc \notin Finished
    BY DEF IndInv, HoldInv, CompletionSound
  <2> QED BY <2>1 DEF CompletionSound
<1>10. CounterExact'
  <2>1. Outstanding' = Outstanding
    BY DEF IndInv, TypeOK, Outstanding
  <2> QED BY <2>1 DEF IndInv, CounterExact
<1> QED BY <1>1, <1>2, <1>3, <1>4, <1>5, <1>6, <1>7, <1>8, <1>9, <1>10
        DEF IndInv

(* A full cache gives up its oldest task: the task moves from the cache to   *)
(* the hands of tu_tm_push_op.                                               *)
LEMMA ExecEvictTaskInv ==
  ASSUME IndInv, NEW w \in Worker, NEW o \in Op, ExecEvictTask(w, o)
  PROVE  IndInv'
<1> DEFINE h == Head(cache[w])
<1>a. /\ cache[w] \in Seq(Op) /\ cache[w] # <<>>
      /\ h = cache[w][1] /\ h \in Op /\ Len(cache[w]) \in Nat \ {0}
  <2>1. cache[w] \in Seq(Op)
    BY DEF IndInv, TypeOK
  <2>2. Len(cache[w]) >= CacheSize /\ CacheSize \in Nat \ {0}
    BY ConstantsAssumption DEF ExecEvictTask
  <2> QED BY <2>1, <2>2
<1>b. phase[h] = "cached" /\ h # o
  BY <1>a DEF ExecEvictTask, OwnTask, IndInv, CacheInv
<1>c. /\ phase'[h] = "called" /\ phase'[o] = "cached"
      /\ \A q \in Op : q # o /\ q # h => phase'[q] = phase[q]
  BY <1>a, <1>b DEF ExecEvictTask, OwnTask, IndInv, TypeOK
<1>d. /\ push[w] = "idle" /\ push'[w] = "count" /\ arg'[w] = h
      /\ \A u \in Thread : u # w => push'[u] = push[u] /\ arg'[u] = arg[u]
  BY <1>a DEF ExecEvictTask, OwnTask, IndInv, TypeOK
<1>e. /\ pc[w] = "exec" /\ phase[o] = "fresh"
      /\ UNCHANGED <<gstatus, sstatus, pc, cur, own, stateCnt, son, batch, cnt,
                     mpc, counter>>
  BY DEF ExecEvictTask, OwnTask
<1>f. /\ Len(cache'[w]) = Len(cache[w]) /\ cache'[w][Len(cache[w])] = o
      /\ \A i \in 1 .. Len(cache[w]) - 1 : cache'[w][i] = cache[w][i + 1]
      /\ \A v \in Worker : v # w => cache'[v] = cache[v]
  <2>1. /\ cache'[w] = Append(Tail(cache[w]), o)
        /\ \A v \in Worker : v # w => cache'[v] = cache[v]
    BY DEF ExecEvictTask, OwnTask, IndInv, TypeOK
  <2>2. /\ Tail(cache[w]) \in Seq(Op) /\ Len(Tail(cache[w])) = Len(cache[w]) - 1
        /\ \A i \in 1 .. Len(cache[w]) - 1 : Tail(cache[w])[i] = cache[w][i + 1]
    BY <1>a
  <2> QED BY <1>a, <2>1, <2>2
<1>1. TypeOK'
  <2>1. Tail(cache[w]) \in Seq(Op)
    BY <1>a
  <2>2. cache' \in [Worker -> Seq(Op)]
    BY <2>1 DEF ExecEvictTask, OwnTask, IndInv, TypeOK
  <2>3. phase' \in [Op -> Phase]
    BY <1>a DEF ExecEvictTask, OwnTask, IndInv, TypeOK
  <2>4. push' \in [Thread -> {"idle", "count", "push", "publish", "release"}]
        /\ arg' \in [Thread -> Op \cup {NoOp}]
    BY <1>a DEF ExecEvictTask, OwnTask, IndInv, TypeOK
  <2> QED BY <2>2, <2>3, <2>4 DEF ExecEvictTask, OwnTask, IndInv, TypeOK,
                                  GQ!QueueTypeOK, SQ!QueueTypeOK
<1>2. PushInv'
  <2>1. ASSUME NEW u \in Thread, u # w
        PROVE  /\ push[u] \in {"count", "push", "publish"} =>
                    arg[u] \notin {h, o}
               /\ push'[u] = push[u] /\ arg'[u] = arg[u]
    BY <1>b, <1>d, <1>e, <2>1 DEF IndInv, PushInv
  <2>2. ASSUME NEW u \in Thread, u # w
        PROVE  /\ Busy(u)' => arg'[u] \in Op
               /\ push'[u] = "count" => phase'[arg'[u]] = "called"
               /\ push'[u] = "push" =>
                    phase'[arg'[u]] = "counted" /\ gstatus'[arg'[u]] = "out"
               /\ push'[u] = "publish" =>
                    phase'[arg'[u]] = "counted" /\ gstatus'[arg'[u]] = "claimed"
    BY <1>c, <1>e, <2>1, <2>2 DEF IndInv, PushInv
  <2>3. \A u, v \in Thread :
           /\ push'[u] \in {"count", "push", "publish"}
           /\ push'[v] \in {"count", "push", "publish"}
           /\ arg'[u] = arg'[v]
           => u = v
    BY <1>d, <2>1 DEF IndInv, PushInv
  <2>4. /\ \A v \in Worker : Busy(v)' => pc'[v] = "exec"
        /\ Busy(Main)' => mpc' = "user"
    <3>1. Main # w
      BY ConstantsAssumption
    <3> QED BY <1>d, <1>e, <3>1 DEF IndInv, PushInv
  <2> QED BY <1>a, <1>c, <1>d, <2>2, <2>3, <2>4 DEF PushInv
<1>3. QueueInv'
  <2>1. \A q \in Op : phase[q] \in {"counted", "taken"} => phase'[q] = phase[q]
    BY <1>b, <1>c, <1>e
  <2> QED BY <1>e, <2>1 DEF IndInv, QueueInv, StateOp
<1>4. HoldInv'
  <2>1. \A q \in Op : phase[q] \in {"taken", "running",
      "inline"} => phase'[q] = phase[q]
    BY <1>b, <1>c, <1>e
  <2> QED BY <1>e, <2>1 DEF IndInv, HoldInv, StateOp
<1>5. BatchInv'
  <2>1. \A v \in Worker : batch[v] \subseteq Op
    BY DEF IndInv, TypeOK
  <2>2. \A v \in Worker : \A q \in batch[v] : phase[q] = "done"
    BY DEF IndInv, BatchInv
  <2>3. \A v \in Worker : \A q \in batch[v] : phase'[q] = "done"
    BY <1>b, <1>c, <1>e, <2>1, <2>2
  <2>4. \A v \in Worker : pc[v] = "exec" /\ phase'[cur[v]] = "inline"
                             => phase[cur[v]] = "inline"
    BY <1>b, <1>c, <1>e DEF IndInv, HoldInv
  <2> QED BY <1>e, <2>3, <2>4 DEF IndInv, BatchInv
<1>6. CacheInv'
  <2> DEFINE n == Len(cache[w])
  <2>1. ASSUME NEW v \in Worker, NEW i \in 1 .. Len(cache[v])
        PROVE  /\ phase[cache[v][i]] = "cached" /\ cache[v][i] # o
               /\ cache[v][i] = h => v = w /\ i = 1
    <3>1. phase[cache[v][i]] = "cached"
      BY DEF IndInv, CacheInv
    <3>2. 1 \in 1 .. Len(cache[w]) /\ h = cache[w][1]
      BY <1>a
    <3> QED BY <1>e, <3>1, <3>2 DEF IndInv, CacheInv
  <2>2. ASSUME NEW v \in Worker, NEW i \in 1 .. Len(cache[v]), v # w \/ i # 1
        PROVE  phase'[cache[v][i]] = "cached"
    <3>1. cache[v][i] \in Op
      BY DEF IndInv, TypeOK
    <3> QED BY <1>c, <2>1, <2>2, <3>1
  <2>3. ASSUME NEW v \in Worker, NEW i \in 1 .. Len(cache'[v])
        PROVE  phase'[cache'[v][i]] = "cached"
    <3>1. CASE v # w
      BY <1>f, <2>2, <3>1
    <3>2. CASE v = w /\ i = n
      BY <1>c, <1>f, <3>2
    <3>3. CASE v = w /\ i # n
      <4>1. i \in 1 .. n - 1 /\ i + 1 \in 1 .. n /\ i + 1 # 1
        BY <1>a, <1>f, <3>3
      <4>2. phase'[cache[w][i + 1]] = "cached"
        BY <2>2, <4>1
      <4> QED BY <1>f, <3>3, <4>1, <4>2
    <3> QED BY <3>1, <3>2, <3>3
  <2>4. ASSUME NEW v \in Worker
        PROVE  /\ pc'[v] \in Emptied => cache'[v] = <<>>
               /\ \/ cache'[v] = <<>>
                  \/ batch'[v] # {}
                  \/ pc'[v] = "exec" /\ phase'[cur'[v]] = "running"
    <3>0. \A q \in Op : phase[q] = "running" => phase'[q] = "running"
      BY <1>b, <1>c, <1>e
    <3>1. pc[v] = "exec"
          /\ phase[cur[v]] = "running" => phase'[cur[v]] = "running"
      BY <3>0 DEF IndInv, HoldInv
    <3>2. CASE v = w
      BY <1>e, <3>1, <3>2 DEF IndInv, HoldInv, BatchInv, Emptied
    <3>3. CASE v # w
      BY <1>e, <1>f, <3>1, <3>3 DEF IndInv, CacheInv
    <3> QED BY <3>2, <3>3
  <2>5. ASSUME NEW u \in Worker, NEW v \in Worker,
               NEW i \in 1 .. Len(cache'[u]), NEW j \in 1 .. Len(cache'[v]),
               cache'[u][i] = cache'[v][j]
        PROVE  u = v /\ i = j
    <3> DEFINE At(x, k) == IF x = w THEN k + 1 ELSE k
    <3>1. ASSUME NEW x \in Worker, NEW k \in 1 .. Len(cache'[x]), ~ (x = w
          /\ k = n)
          PROVE  At(x, k) \in 1 .. Len(cache[x])
          /\ cache'[x][k] = cache[x][At(x, k)]
      <4>1. CASE x # w
        BY <1>f, <4>1
      <4>2. CASE x = w
        <5>1. k \in 1 .. n - 1 /\ k + 1 \in 1 .. n
          BY <1>a, <1>f, <3>1, <4>2
        <5> QED BY <1>f, <4>2, <5>1
      <4> QED BY <4>1, <4>2
    <3> HIDE DEF At
    <3>5. ASSUME NEW x \in Worker, NEW k \in 1 .. Len(cache'[x]), ~ (x = w
          /\ k = n)
          PROVE  cache'[x][k] # o
      <4>1. /\ At(x, k) \in 1 .. Len(cache[x])
            /\ cache'[x][k] = cache[x][At(x, k)]
        BY <3>1, <3>5
      <4> QED BY <2>1, <4>1
    <3>2. CASE u = w /\ i = n
      <4>1. cache'[u][i] = o
        BY <1>f, <3>2
      <4>2. CASE v = w /\ j = n
        BY <3>2, <4>2
      <4>3. CASE ~ (v = w /\ j = n)
        BY <2>5, <3>5, <4>1, <4>3
      <4> QED BY <4>2, <4>3
    <3>3. CASE v = w /\ j = n /\ ~ (u = w /\ i = n)
      <4>1. cache'[v][j] = o
        BY <1>f, <3>3
      <4> QED BY <2>5, <3>3, <3>5, <4>1
    <3>4. CASE ~ (u = w /\ i = n) /\ ~ (v = w /\ j = n)
      <4>1. cache[u][At(u, i)] = cache[v][At(v, j)]
        BY <2>5, <3>1, <3>4
      <4>2. At(u, i) \in 1 .. Len(cache[u]) /\ At(v, j) \in 1 .. Len(cache[v])
        BY <3>1, <3>4
      <4>3. u = v /\ At(u, i) = At(v, j)
        BY <4>1, <4>2 DEF IndInv, CacheInv
      <4> QED BY <4>3 DEF At
    <3> QED BY <3>2, <3>3, <3>4
  <2> QED BY <2>3, <2>4, <2>5 DEF CacheInv
<1>7. HeldInv'
  <2>1. ASSUME NEW q \in Op, phase'[q] = "called"
        PROVE  \E u \in Thread : push'[u] = "count" /\ arg'[u] = q
    <3>1. CASE q = h
      BY <1>d, <3>1
    <3>2. CASE q # h
      <4>1. phase[q] = "called"
        BY <1>c, <2>1, <3>2
      <4>2. PICK u \in Thread : push[u] = "count" /\ arg[u] = q
        BY <4>1 DEF IndInv, HeldInv
      <4> QED BY <1>d, <4>2
    <3> QED BY <3>1, <3>2
  <2>2. ASSUME NEW q \in Op, phase'[q] = "inline"
        PROVE  \E v \in Worker : pc'[v] = "exec" /\ cur'[v] = q
    BY <1>c, <1>e, <2>2 DEF IndInv, HeldInv
  <2>3. ASSUME NEW q \in Op, phase'[q] = "cached"
        PROVE  \E v \in Worker : \E i \in 1 .. Len(cache'[v]) : cache'[v][i] = q
    <3>1. CASE q = o
      <4>1. Len(cache[w]) \in 1 .. Len(cache'[w])
            /\ cache'[w][Len(cache[w])] = q
        BY <1>f, <1>a, <3>1
      <4> QED BY <4>1
    <3>2. CASE q # o
      <4>1. phase[q] = "cached" /\ q # h
        BY <1>c, <2>3, <3>2
      <4>2. PICK v \in Worker : \E i \in 1 .. Len(cache[v]) : cache[v][i] = q
        BY <4>1 DEF IndInv, HeldInv
      <4>3. PICK i \in 1 .. Len(cache[v]) : cache[v][i] = q
        BY <4>2
      <4>4. CASE v # w
        BY <1>f, <4>3, <4>4
      <4>5. CASE v = w
        <5>1. i # 1 /\ i - 1 \in 1 .. Len(cache[w]) - 1
          BY <1>a, <4>1, <4>3, <4>5
        <5>2. cache'[w][i - 1] = q /\ i - 1 \in 1 .. Len(cache'[w])
          BY <1>a, <1>f, <4>3, <4>5, <5>1
        <5> QED BY <5>2
      <4> QED BY <4>4, <4>5
    <3> QED BY <3>1, <3>2
  <2> QED BY <2>1, <2>2, <2>3 DEF HeldInv
<1>8. OwnInv'
  <2>1. \A v \in Worker : pc[v] = "exec" => phase'[cur[v]] = phase[cur[v]]
    BY <1>b, <1>c, <1>e DEF IndInv, HoldInv
  <2> QED BY <1>e, <2>1 DEF IndInv, OwnInv
<1>9. CompletionSound'
  <2>1. mpc \notin Finished
    BY <1>e DEF IndInv, HoldInv, CompletionSound
  <2> QED BY <1>e, <2>1 DEF CompletionSound
<1>10. CounterExact'
  <2>1. \A q \in Op : phase'[q] # phase[q] =>
            {phase[q], phase'[q]} \subseteq {"fresh", "cached", "called"}
    BY <1>b, <1>c, <1>e
  <2>2. Outstanding' = Outstanding
    BY <2>1 DEF Outstanding
  <2> QED BY <1>e, <2>2 DEF IndInv, CounterExact
<1> QED BY <1>1, <1>2, <1>3, <1>4, <1>5, <1>6, <1>7, <1>8, <1>9, <1>10
        DEF IndInv

(* An operation that came from a queue joins the batch of its worker. *)
LEMMA ExecReturnInv ==
  ASSUME IndInv, NEW w \in Worker, ExecReturn(w)
  PROVE  IndInv'
<1> DEFINE c == cur[w]
<1>a. /\ c \in Op /\ phase[c] = "running" /\ phase'[c] = "done"
      /\ \A q \in Op : q # c => phase'[q] = phase[q]
  BY DEF ExecReturn, IndInv, TypeOK, HoldInv
<1>b. /\ pc[w] = "exec" /\ ~ Busy(w) /\ pc'[w] \in {"cache", "ssub"}
      /\ own[w] # NoState => pc'[w] = "ssub"
      /\ pc'[w] = "ssub" => own[w] # NoState
      /\ \A v \in Worker : v # w => pc'[v] = pc[v] /\ cur'[v] = cur[v]
      /\ UNCHANGED <<counter, gstatus, sstatus, son, stateCnt, push, arg, own,
                     cache, mpc>>
  BY DEF ExecReturn, IndInv, TypeOK
<1>c. /\ batch'[w] = batch[w] \cup {c} /\ cnt'[w] = cnt[w] + 1
      /\ \A v \in Worker : v # w => batch'[v] = batch[v] /\ cnt'[v] = cnt[v]
  BY DEF ExecReturn, IndInv, TypeOK
<1>d. \A v \in Worker : v # w /\ pc[v] \in {"exec", "spush", "spublish"}
                          => cur[v] # c
  BY <1>b DEF IndInv, HoldInv
<1>1. TypeOK'
  <2>1. cnt' \in [Worker -> Nat]
    BY DEF ExecReturn, IndInv, TypeOK
  <2>2. batch' \in [Worker -> SUBSET Op]
    BY <1>a DEF ExecReturn, IndInv, TypeOK
  <2>3. phase' \in [Op -> Phase]
    BY <1>a DEF ExecReturn, IndInv, TypeOK
  <2>4. pc' \in [Worker -> WorkerPC]
    BY DEF ExecReturn, IndInv, TypeOK, WorkerPC
  <2> QED BY <2>1, <2>2, <2>3, <2>4
          DEF ExecReturn, IndInv, TypeOK, GQ!QueueTypeOK, SQ!QueueTypeOK
<1>2. PushInv'
  BY <1>a, <1>b DEF IndInv, PushInv
<1>3. QueueInv'
  BY <1>a, <1>b DEF IndInv, QueueInv, StateOp
<1>4. HoldInv'
  BY <1>a, <1>b, <1>d DEF IndInv, HoldInv, StateOp
<1>5. BatchInv'
  <2>1. \A v \in Worker : batch[v] \subseteq Op /\ c \notin batch[v]
    BY <1>a DEF IndInv, TypeOK, BatchInv
  <2>2. \A v \in Worker : \A q \in batch'[v] : phase'[q] = "done"
    BY <1>a, <1>c, <2>1 DEF IndInv, BatchInv
  <2>3. Cardinality(batch[w] \cup {c}) = Cardinality(batch[w]) + 1
    BY <2>1, ConstantsAssumption, FS_Subset, FS_AddElement
  <2>4. \A v \in Worker : cnt'[v] = Cardinality(batch'[v])
    BY <1>c, <2>3 DEF IndInv, BatchInv
  <2>5. \A v \in Worker : pc'[v] = "exec" /\ phase'[cur'[v]] = "inline"
                             => batch'[v] # {}
    BY <1>a, <1>b, <1>c, <1>d DEF IndInv, BatchInv, HoldInv
  <2>6. \A u, v \in Worker : u # v => batch'[u] \cap batch'[v] = {}
    BY <1>c, <2>1 DEF IndInv, BatchInv
  <2> QED BY <2>2, <2>4, <2>5, <2>6 DEF BatchInv
<1>6. CacheInv'
  <2>1. ASSUME NEW v \in Worker, NEW i \in 1 .. Len(cache[v])
        PROVE  phase'[cache[v][i]] = "cached"
    <3>1. cache[v][i] \in Op
      BY DEF IndInv, TypeOK
    <3>2. phase[cache[v][i]] = "cached"
      BY DEF IndInv, CacheInv
    <3> QED BY <1>a, <3>1, <3>2
  <2>2. ASSUME NEW v \in Worker
        PROVE  /\ pc'[v] \in Emptied => cache[v] = <<>>
               /\ \/ cache[v] = <<>>
                  \/ batch'[v] # {}
                  \/ pc'[v] = "exec" /\ phase'[cur'[v]] = "running"
    <3>1. CASE v = w
      BY <1>b, <1>c, <3>1 DEF Emptied
    <3>2. CASE v # w
      BY <1>a, <1>b, <1>c, <1>d, <3>2 DEF IndInv, CacheInv, HoldInv
    <3> QED BY <3>1, <3>2
  <2>3. \A u, v \in Worker :
          \A i \in 1 .. Len(cache[u]), j \in 1 .. Len(cache[v]) :
            cache[u][i] = cache[v][j] => u = v /\ i = j
    BY DEF IndInv, CacheInv
  <2>4. cache' = cache
    BY <1>b
  <2>5. \A v \in Worker :
          /\ \A i \in 1 .. Len(cache'[v]) : phase'[cache'[v][i]] = "cached"
          /\ pc'[v] \in Emptied => cache'[v] = <<>>
          /\ \/ cache'[v] = <<>>
             \/ batch'[v] # {}
             \/ pc'[v] = "exec" /\ phase'[cur'[v]] = "running"
    BY <2>1, <2>2, <2>4
  <2>6. \A u, v \in Worker :
          \A i \in 1 .. Len(cache'[u]), j \in 1 .. Len(cache'[v]) :
            cache'[u][i] = cache'[v][j] => u = v /\ i = j
    BY <2>3, <2>4
  <2> QED BY <2>5, <2>6 DEF CacheInv
<1>7. HeldInv'
  BY <1>a, <1>b DEF IndInv, HeldInv
<1>8. OwnInv'
  BY <1>a, <1>b, <1>d DEF IndInv, OwnInv, HoldInv
<1>9. CompletionSound'
  BY <1>a, <1>b DEF IndInv, CompletionSound
<1>10. CounterExact'

  <2>1. Outstanding' = Outstanding
    BY <1>a DEF Outstanding
  <2> QED BY <1>b, <2>1 DEF IndInv, CounterExact
<1> QED BY <1>1, <1>2, <1>3, <1>4, <1>5, <1>6, <1>7, <1>8, <1>9, <1>10
        DEF IndInv

(* An operation that came from the cache is settled without the counter. *)
LEMMA CachedReturnInv ==
  ASSUME IndInv, NEW w \in Worker, CachedReturn(w)
  PROVE  IndInv'
<1> USE DEF CachedReturn
<1>1. TypeOK'
  BY DEF IndInv, TypeOK, GQ!QueueTypeOK, SQ!QueueTypeOK, GQ!Status, SQ!Status,
         MainPC, WorkerPC, HoldInv
<1>2. PushInv'
  BY DEF IndInv, TypeOK, PushInv, HoldInv
<1>3. QueueInv'
  BY DEF IndInv, TypeOK, QueueInv, HoldInv
<1>4. HoldInv'
  BY DEF IndInv, TypeOK, HoldInv
<1>5. BatchInv'
  BY DEF IndInv, TypeOK, BatchInv, HoldInv
<1>6. CacheInv'
  BY DEF IndInv, TypeOK, CacheInv, HoldInv, Emptied, WorkerPC
<1>7. HeldInv'
  BY DEF IndInv, TypeOK, HeldInv, HoldInv
<1>8. OwnInv'
  BY DEF IndInv, TypeOK, OwnInv, HoldInv
<1>9. CompletionSound'
  BY DEF IndInv, TypeOK, CompletionSound, HoldInv, Finished
<1>10. CounterExact'
  <2>1. Outstanding' = Outstanding
    BY DEF IndInv, TypeOK, HoldInv, Outstanding
  <2> QED BY <2>1 DEF IndInv, CounterExact
<1> QED BY <1>1, <1>2, <1>3, <1>4, <1>5, <1>6, <1>7, <1>8, <1>9, <1>10
        DEF IndInv

(* Parking relates to nothing that the invariant holds together. *)
LEMMA ParkInv ==
  ASSUME IndInv, NEW w \in Worker, Park(w)
  PROVE  IndInv'
<1> USE DEF Park
<1>1. TypeOK'
  BY DEF IndInv, TypeOK, GQ!QueueTypeOK, SQ!QueueTypeOK, GQ!Status, SQ!Status,
         MainPC, WorkerPC
<1>2. PushInv'
  BY DEF IndInv, TypeOK, PushInv
<1>3. HoldInv'
  BY DEF IndInv, TypeOK, HoldInv
<1>4. BatchInv'
  BY DEF IndInv, TypeOK, BatchInv
<1>5. CacheInv'
  BY DEF IndInv, TypeOK, CacheInv, Emptied, WorkerPC
<1>6. HeldInv'
  BY DEF IndInv, TypeOK, HeldInv
<1>7. OwnInv'
  BY DEF IndInv, TypeOK, OwnInv
<1>8. QueueInv' /\ CompletionSound' /\ CounterExact'
  BY DEF IndInv, QueueInv, CompletionSound, CounterExact, Finished, Outstanding
<1> QED BY <1>1, <1>2, <1>3, <1>4, <1>5, <1>6, <1>7, <1>8 DEF IndInv

(* Waking the main thread up sends it back to its predicate. *)
LEMMA NotifyAllInv ==
  ASSUME IndInv, NEW w \in Worker, NotifyAll(w)
  PROVE  IndInv'
<1> USE DEF NotifyAll
<1>1. TypeOK'
  BY DEF IndInv, TypeOK, GQ!QueueTypeOK, SQ!QueueTypeOK, GQ!Status, SQ!Status,
         MainPC, WorkerPC
<1>2. PushInv'
  BY DEF IndInv, TypeOK, PushInv
<1>3. HoldInv'
  BY DEF IndInv, TypeOK, HoldInv
<1>4. BatchInv'
  BY DEF IndInv, TypeOK, BatchInv
<1>5. CacheInv'
  BY DEF IndInv, TypeOK, CacheInv, Emptied, WorkerPC
<1>6. HeldInv'
  BY DEF IndInv, TypeOK, HeldInv
<1>7. OwnInv'
  BY DEF IndInv, TypeOK, OwnInv
<1>8. CompletionSound'
  BY DEF IndInv, TypeOK, CompletionSound, Finished
<1>9. QueueInv' /\ CounterExact'
  BY DEF IndInv, QueueInv, CounterExact, Outstanding
<1> QED BY <1>1, <1>2, <1>3, <1>4, <1>5, <1>6, <1>7, <1>8, <1>9 DEF IndInv

(* Acquiring a token changes the semaphore only. *)
LEMMA AcquireInv ==
  ASSUME IndInv, NEW w \in Worker, Acquire(w)
  PROVE  IndInv'
<1> USE DEF Acquire
<1>1. TypeOK'
  <2>1. GroupOfWorker[w] \in Group
    BY ConstantsAssumption
  <2>2. sem' \in [Group -> Nat]
    BY <2>1 DEF IndInv, TypeOK
  <2> QED BY <2>2 DEF IndInv, TypeOK, WorkerPC, GQ!QueueTypeOK, SQ!QueueTypeOK
<1>2. PushInv'
  BY DEF IndInv, TypeOK, PushInv
<1>3. HoldInv'
  BY DEF IndInv, TypeOK, HoldInv
<1>4. BatchInv'
  BY DEF IndInv, TypeOK, BatchInv
<1>5. CacheInv'
  BY DEF IndInv, TypeOK, CacheInv, Emptied, WorkerPC
<1>6. HeldInv'
  BY DEF IndInv, TypeOK, HeldInv
<1>7. OwnInv'
  BY DEF IndInv, TypeOK, OwnInv
<1>8. QueueInv' /\ CompletionSound' /\ CounterExact'
  BY DEF IndInv, QueueInv, CompletionSound, CounterExact, Finished, Outstanding
<1> QED BY <1>1, <1>2, <1>3, <1>4, <1>5, <1>6, <1>7, <1>8 DEF IndInv

(* A terminated worker leaves with an empty cache. *)
LEMMA CheckTerminateInv ==
  ASSUME IndInv, NEW w \in Worker, CheckTerminate(w)
  PROVE  IndInv'
<1> USE DEF CheckTerminate
<1>1. TypeOK'
  BY DEF IndInv, TypeOK, GQ!QueueTypeOK, SQ!QueueTypeOK, GQ!Status, SQ!Status,
         MainPC, WorkerPC
<1>2. PushInv'
  BY DEF IndInv, TypeOK, PushInv
<1>3. HoldInv'
  BY DEF IndInv, TypeOK, HoldInv
<1>4. BatchInv'
  BY DEF IndInv, TypeOK, BatchInv
<1>5. CacheInv'
  BY DEF IndInv, TypeOK, CacheInv, Emptied, WorkerPC
<1>6. HeldInv'
  BY DEF IndInv, TypeOK, HeldInv
<1>7. OwnInv'
  BY DEF IndInv, TypeOK, OwnInv
<1>8. QueueInv' /\ CompletionSound' /\ CounterExact'
  BY DEF IndInv, QueueInv, CompletionSound, CounterExact, Finished, Outstanding
<1> QED BY <1>1, <1>2, <1>3, <1>4, <1>5, <1>6, <1>7, <1>8 DEF IndInv

(* Leaving the parked state changes the flag only. *)
LEMMA UnparkInv ==
  ASSUME IndInv, NEW w \in Worker, Unpark(w)
  PROVE  IndInv'
<1> USE DEF Unpark
<1>1. TypeOK'
  BY DEF IndInv, TypeOK, GQ!QueueTypeOK, SQ!QueueTypeOK, GQ!Status, SQ!Status,
         MainPC, WorkerPC
<1>2. PushInv'
  BY DEF IndInv, TypeOK, PushInv
<1>3. HoldInv'
  BY DEF IndInv, TypeOK, HoldInv
<1>4. BatchInv'
  BY DEF IndInv, TypeOK, BatchInv
<1>5. CacheInv'
  BY DEF IndInv, TypeOK, CacheInv, Emptied, WorkerPC
<1>6. HeldInv'
  BY DEF IndInv, TypeOK, HeldInv
<1>7. OwnInv'
  BY DEF IndInv, TypeOK, OwnInv
<1>8. QueueInv' /\ CompletionSound' /\ CounterExact'
  BY DEF IndInv, QueueInv, CompletionSound, CounterExact, Finished, Outstanding
<1> QED BY <1>1, <1>2, <1>3, <1>4, <1>5, <1>6, <1>7, <1>8 DEF IndInv

(* The start of a pop moves no operation. *)
LEMMA GroupPopStartInv ==
  ASSUME IndInv, NEW w \in Worker, GroupPopStart(w)
  PROVE  IndInv'
<1> USE DEF GroupPopStart, GQ!PopStart, GQ!Inside
<1>1. TypeOK'
  <2>1. GroupOfWorker[w] \in Group
    BY ConstantsAssumption
  <2>2. GQ!QueueTypeOK'
    BY <2>1 DEF IndInv, TypeOK, GQ!QueueTypeOK
  <2> QED BY <2>2 DEF IndInv, TypeOK, WorkerPC, SQ!QueueTypeOK
<1>2. PushInv'
  BY DEF IndInv, TypeOK, PushInv
<1>3. HoldInv'
  BY DEF IndInv, TypeOK, HoldInv
<1>4. BatchInv'
  BY DEF IndInv, TypeOK, BatchInv
<1>5. CacheInv'
  BY DEF IndInv, TypeOK, CacheInv, Emptied, WorkerPC
<1>6. HeldInv'
  BY DEF IndInv, TypeOK, HeldInv
<1>7. OwnInv'
  BY DEF IndInv, TypeOK, OwnInv
<1>8. QueueInv' /\ CompletionSound' /\ CounterExact'
  BY DEF IndInv, QueueInv, CompletionSound, CounterExact, Finished, Outstanding
<1> QED BY <1>1, <1>2, <1>3, <1>4, <1>5, <1>6, <1>7, <1>8 DEF IndInv

(* Meeting a claimed slot moves no operation. *)
LEMMA GroupPopBlockedInv ==
  ASSUME IndInv, NEW w \in Worker, GroupPopBlocked(w)
  PROVE  IndInv'
<1> USE DEF GroupPopBlocked, GQ!PopBlocked
<1>1. TypeOK'
  BY DEF IndInv, TypeOK, GQ!QueueTypeOK, SQ!QueueTypeOK, GQ!Status, SQ!Status,
         MainPC, WorkerPC
<1>2. PushInv'
  BY DEF IndInv, PushInv
<1>3. QueueInv'
  BY DEF IndInv, QueueInv
<1>4. HoldInv'
  BY DEF IndInv, HoldInv
<1>5. BatchInv'
  BY DEF IndInv, BatchInv
<1>6. CacheInv'
  BY DEF IndInv, CacheInv, Emptied
<1>7. HeldInv'
  BY DEF IndInv, HeldInv
<1>8. OwnInv'
  BY DEF IndInv, OwnInv
<1>9. CompletionSound'
  BY DEF IndInv, CompletionSound, Finished
<1>10. CounterExact'
  BY DEF IndInv, CounterExact, Outstanding
<1> QED BY <1>1, <1>2, <1>3, <1>4, <1>5, <1>6, <1>7, <1>8, <1>9, <1>10
        DEF IndInv

(* A task popped from the group queue is in the hands of its worker alone. *)
LEMMA TakeTaskInv ==
  ASSUME IndInv, NEW w \in Worker, NEW o \in Op, TakeTask(w, o)
  PROVE  IndInv'
<1>a. /\ phase[o] = "counted" /\ phase'[o] = "running"
      /\ gstatus[o] = "ready" /\ gstatus'[o] = "out"
      /\ o \in StateOp => sstatus[o] = "out"
      /\ \A q \in Op : q # o => phase'[q] = phase[q] /\ gstatus'[q] = gstatus[q]
  BY DEF TakeTask, IndInv, TypeOK, QueueInv, GQ!PopTake, GQ!QueueTypeOK,
         SQ!QueueTypeOK
<1>b. /\ pc[w] = "popping" /\ pc'[w] = "exec" /\ cur'[w] = o
      /\ StateOf[o] = NoState
      /\ \A v \in Worker : v # w => pc'[v] = pc[v] /\ cur'[v] = cur[v]
      /\ UNCHANGED <<counter, sstatus, son, stateCnt, push, arg, own, cnt,
          batch,
                     cache, mpc>>
  BY DEF TakeTask, IndInv, TypeOK
<1>1. TypeOK'
  <2>1. GQ!QueueTypeOK'
    BY DEF TakeTask, IndInv, TypeOK, GQ!QueueTypeOK, GQ!Status, GQ!PopTake,
           GQ!PopEnd
  <2> QED BY <2>1 DEF TakeTask, IndInv, TypeOK, WorkerPC, SQ!QueueTypeOK
<1>2. PushInv'
  <2>1. \A u \in Thread : push[u] \in {"count", "push", "publish"} => arg[u] # o
    BY <1>a DEF IndInv, PushInv
  <2>2. ~ Busy(w)
    BY <1>b DEF IndInv, PushInv
  <2> QED BY <1>a, <1>b, <2>1, <2>2 DEF IndInv, PushInv
<1>3. QueueInv'
  <2>1. \A q \in Op : gstatus'[q] # "out" => phase'[q] = "counted"
    BY <1>a DEF IndInv, QueueInv
  <2>2. \A q \in StateOp : sstatus[q] # "out" => phase'[q] = "taken"
    BY <1>a DEF IndInv, QueueInv, StateOp
  <2> QED BY <1>b, <2>1, <2>2 DEF QueueInv
<1>4. HoldInv'
  <2>1. \A v \in Worker : /\ v # w /\ pc[v] \in {"exec", "spush", "spublish"}
                           => cur[v] # o
    BY <1>a DEF IndInv, HoldInv
  <2> QED BY <1>a, <1>b, <2>1 DEF IndInv, HoldInv, StateOp
<1>5. BatchInv'
  <2>1. \A v \in Worker : batch[v] \subseteq Op
    BY DEF IndInv, TypeOK
  <2>2. \A v \in Worker : \A q \in batch[v] : phase'[q] = "done"
    BY <1>a, <2>1 DEF IndInv, BatchInv
  <2>3. \A v \in Worker : pc'[v] = "exec" /\ phase'[cur'[v]] = "inline"
                             => pc[v] = "exec" /\ phase[cur[v]] = "inline"
    BY <1>a, <1>b DEF IndInv, HoldInv
  <2> QED BY <1>b, <2>2, <2>3 DEF IndInv, BatchInv
<1>6. CacheInv'
  <2>1. ASSUME NEW v \in Worker, NEW i \in 1 .. Len(cache[v])
        PROVE  phase'[cache[v][i]] = "cached"
    <3>1. cache[v][i] \in Op
      BY DEF IndInv, TypeOK
    <3>2. phase[cache[v][i]] = "cached"
      BY DEF IndInv, CacheInv
    <3> QED BY <1>a, <3>1, <3>2
  <2>2. ASSUME NEW v \in Worker
        PROVE  /\ pc'[v] \in Emptied => cache[v] = <<>>
               /\ \/ cache[v] = <<>>
                  \/ batch[v] # {}
                  \/ pc'[v] = "exec" /\ phase'[cur'[v]] = "running"
    <3>1. CASE v = w
      BY <1>b, <3>1 DEF IndInv, CacheInv, Emptied, WorkerPC
    <3>2. CASE v # w
      BY <1>a, <1>b, <3>2 DEF IndInv, CacheInv, HoldInv
    <3> QED BY <3>1, <3>2
  <2>3. \A u, v \in Worker :
          \A i \in 1 .. Len(cache[u]), j \in 1 .. Len(cache[v]) :
            cache[u][i] = cache[v][j] => u = v /\ i = j
    BY DEF IndInv, CacheInv
  <2>4. cache' = cache /\ batch' = batch
    BY <1>b
  <2>5. \A v \in Worker :
          /\ \A i \in 1 .. Len(cache'[v]) : phase'[cache'[v][i]] = "cached"
          /\ pc'[v] \in Emptied => cache'[v] = <<>>
          /\ \/ cache'[v] = <<>>
             \/ batch'[v] # {}
             \/ pc'[v] = "exec" /\ phase'[cur'[v]] = "running"
    BY <2>1, <2>2, <2>4
  <2>6. \A u, v \in Worker :
          \A i \in 1 .. Len(cache'[u]), j \in 1 .. Len(cache'[v]) :
            cache'[u][i] = cache'[v][j] => u = v /\ i = j
    BY <2>3, <2>4
  <2> QED BY <2>5, <2>6 DEF CacheInv
<1>7. HeldInv'
  <2>1. \A q \in Op : phase'[q] \in {"called", "inline", "cached"}
                       => q # o /\ phase'[q] = phase[q]
    BY <1>a
  <2>2. \A v \in Worker : pc[v] = "exec" => pc'[v] = "exec" /\ cur'[v] = cur[v]
    BY <1>b
  <2> QED BY <1>b, <2>1, <2>2 DEF IndInv, HeldInv
<1>8. OwnInv'
  <2>1. own[w] = NoState
    BY <1>b DEF IndInv, OwnInv
  <2>2. \A v \in Worker : v # w
        /\ pc[v] = "exec" => phase'[cur[v]] = phase[cur[v]]
    BY <1>a DEF IndInv, HoldInv
  <2> QED BY <1>a, <1>b, <2>1, <2>2 DEF IndInv, OwnInv
<1>9. CompletionSound'
  BY <1>a, <1>b DEF IndInv, CompletionSound
<1>10. CounterExact'
  <2>1. Outstanding' = Outstanding
    BY <1>a DEF Outstanding
  <2> QED BY <1>b, <2>1 DEF IndInv, CounterExact
<1> QED BY <1>1, <1>2, <1>3, <1>4, <1>5, <1>6, <1>7, <1>8, <1>9, <1>10
        DEF IndInv

(* So is an operation of a state, which is to be handed to the queue of the  *)
(* state.                                                                    *)
LEMMA TakeStateOpInv ==
  ASSUME IndInv, NEW w \in Worker, NEW o \in Op, TakeStateOp(w, o)
  PROVE  IndInv'
<1>a. /\ phase[o] = "counted" /\ phase'[o] = "taken"
      /\ gstatus[o] = "ready" /\ gstatus'[o] = "out"
      /\ o \in StateOp => sstatus[o] = "out"
      /\ \A q \in Op : q # o => phase'[q] = phase[q] /\ gstatus'[q] = gstatus[q]
  BY DEF TakeStateOp, IndInv, TypeOK, QueueInv, GQ!PopTake, GQ!QueueTypeOK,
         SQ!QueueTypeOK
<1>b. /\ pc[w] = "popping" /\ pc'[w] = "spush" /\ cur'[w] = o
      /\ StateOf[o] # NoState
      /\ \A v \in Worker : v # w => pc'[v] = pc[v] /\ cur'[v] = cur[v]
      /\ UNCHANGED <<counter, sstatus, son, stateCnt, push, arg, own, cnt,
          batch,
                     cache, mpc>>
  BY DEF TakeStateOp, IndInv, TypeOK
<1>1. TypeOK'
  <2>1. GQ!QueueTypeOK'
    BY DEF TakeStateOp, IndInv, TypeOK, GQ!QueueTypeOK, GQ!Status, GQ!PopTake,
           GQ!PopEnd
  <2> QED BY <2>1 DEF TakeStateOp, IndInv, TypeOK, WorkerPC, SQ!QueueTypeOK
<1>2. PushInv'
  <2>1. \A u \in Thread : push[u] \in {"count", "push", "publish"} => arg[u] # o
    BY <1>a DEF IndInv, PushInv
  <2>2. ~ Busy(w)
    BY <1>b DEF IndInv, PushInv
  <2> QED BY <1>a, <1>b, <2>1, <2>2 DEF IndInv, PushInv
<1>3. QueueInv'
  <2>1. \A q \in Op : gstatus'[q] # "out" => phase'[q] = "counted"
    BY <1>a DEF IndInv, QueueInv
  <2>2. \A q \in StateOp : sstatus[q] # "out" => phase'[q] = "taken"
    BY <1>a DEF IndInv, QueueInv, StateOp
  <2> QED BY <1>b, <2>1, <2>2 DEF QueueInv
<1>4. HoldInv'
  <2>1. \A v \in Worker : /\ v # w /\ pc[v] \in {"exec", "spush", "spublish"}
                           => cur[v] # o
    BY <1>a DEF IndInv, HoldInv
  <2> QED BY <1>a, <1>b, <2>1 DEF IndInv, HoldInv, StateOp
<1>5. BatchInv'
  <2>1. \A v \in Worker : batch[v] \subseteq Op
    BY DEF IndInv, TypeOK
  <2>2. \A v \in Worker : \A q \in batch[v] : phase'[q] = "done"
    BY <1>a, <2>1 DEF IndInv, BatchInv
  <2>3. \A v \in Worker : pc'[v] = "exec" /\ phase'[cur'[v]] = "inline"
                             => pc[v] = "exec" /\ phase[cur[v]] = "inline"
    BY <1>a, <1>b DEF IndInv, HoldInv
  <2> QED BY <1>b, <2>2, <2>3 DEF IndInv, BatchInv
<1>6. CacheInv'
  <2>1. ASSUME NEW v \in Worker, NEW i \in 1 .. Len(cache[v])
        PROVE  phase'[cache[v][i]] = "cached"
    <3>1. cache[v][i] \in Op
      BY DEF IndInv, TypeOK
    <3>2. phase[cache[v][i]] = "cached"
      BY DEF IndInv, CacheInv
    <3> QED BY <1>a, <3>1, <3>2
  <2>2. ASSUME NEW v \in Worker
        PROVE  /\ pc'[v] \in Emptied => cache[v] = <<>>
               /\ \/ cache[v] = <<>>
                  \/ batch[v] # {}
                  \/ pc'[v] = "exec" /\ phase'[cur'[v]] = "running"
    <3>1. CASE v = w
      BY <1>b, <3>1 DEF IndInv, CacheInv, Emptied, WorkerPC
    <3>2. CASE v # w
      BY <1>a, <1>b, <3>2 DEF IndInv, CacheInv, HoldInv
    <3> QED BY <3>1, <3>2
  <2>3. \A u, v \in Worker :
          \A i \in 1 .. Len(cache[u]), j \in 1 .. Len(cache[v]) :
            cache[u][i] = cache[v][j] => u = v /\ i = j
    BY DEF IndInv, CacheInv
  <2>4. cache' = cache /\ batch' = batch
    BY <1>b
  <2>5. \A v \in Worker :
          /\ \A i \in 1 .. Len(cache'[v]) : phase'[cache'[v][i]] = "cached"
          /\ pc'[v] \in Emptied => cache'[v] = <<>>
          /\ \/ cache'[v] = <<>>
             \/ batch'[v] # {}
             \/ pc'[v] = "exec" /\ phase'[cur'[v]] = "running"
    BY <2>1, <2>2, <2>4
  <2>6. \A u, v \in Worker :
          \A i \in 1 .. Len(cache'[u]), j \in 1 .. Len(cache'[v]) :
            cache'[u][i] = cache'[v][j] => u = v /\ i = j
    BY <2>3, <2>4
  <2> QED BY <2>5, <2>6 DEF CacheInv
<1>7. HeldInv'
  <2>1. \A q \in Op : phase'[q] \in {"called", "inline", "cached"}
                       => q # o /\ phase'[q] = phase[q]
    BY <1>a
  <2>2. \A v \in Worker : pc[v] = "exec" => pc'[v] = "exec" /\ cur'[v] = cur[v]
    BY <1>b
  <2> QED BY <1>b, <2>1, <2>2 DEF IndInv, HeldInv
<1>8. OwnInv'
  <2>1. own[w] = NoState
    BY <1>b DEF IndInv, OwnInv
  <2>2. \A v \in Worker : v # w
        /\ pc[v] = "exec" => phase'[cur[v]] = phase[cur[v]]
    BY <1>a DEF IndInv, HoldInv
  <2> QED BY <1>a, <1>b, <2>1, <2>2 DEF IndInv, OwnInv
<1>9. CompletionSound'
  BY <1>a, <1>b DEF IndInv, CompletionSound
<1>10. CounterExact'
  <2>1. Outstanding' = Outstanding
    BY <1>a DEF Outstanding
  <2> QED BY <1>b, <2>1 DEF IndInv, CounterExact
<1> QED BY <1>1, <1>2, <1>3, <1>4, <1>5, <1>6, <1>7, <1>8, <1>9, <1>10
        DEF IndInv

(* A worker whose pop fails has an empty cache. *)
LEMMA GroupPopFailInv ==
  ASSUME IndInv, NEW w \in Worker, GroupPopFail(w)
  PROVE  IndInv'
<1> USE DEF GroupPopFail, GQ!PopFail, GQ!PopEnd
<1>1. TypeOK'
  BY DEF IndInv, TypeOK, GQ!QueueTypeOK, SQ!QueueTypeOK, GQ!Status, SQ!Status,
         MainPC, WorkerPC
<1>2. PushInv'
  BY DEF IndInv, TypeOK, PushInv
<1>3. HoldInv'
  BY DEF IndInv, TypeOK, HoldInv
<1>4. BatchInv'
  BY DEF IndInv, TypeOK, BatchInv
<1>5. CacheInv'
  BY DEF IndInv, TypeOK, CacheInv, Emptied, WorkerPC
<1>6. HeldInv'
  BY DEF IndInv, TypeOK, HeldInv
<1>7. OwnInv'
  BY DEF IndInv, TypeOK, OwnInv
<1>8. QueueInv' /\ CompletionSound' /\ CounterExact'
  BY DEF IndInv, QueueInv, CompletionSound, CounterExact, Finished, Outstanding
<1> QED BY <1>1, <1>2, <1>3, <1>4, <1>5, <1>6, <1>7, <1>8 DEF IndInv

(* The youngest task leaves the cache for the hands of its worker. *)
LEMMA CachePopInv ==
  ASSUME IndInv, NEW w \in Worker, CachePop(w)
  PROVE  IndInv'
<1> DEFINE n == Len(cache[w])
<1> DEFINE c == cache[w][n]
<1>a. /\ cache[w] \in Seq(Op) /\ n \in Nat \ {0} /\ n \in 1 .. n /\ c \in Op
      /\ pc[w] = "cache"
  <2>1. cache[w] \in Seq(Op) /\ n > 0 /\ pc[w] = "cache"
    BY DEF CachePop, IndInv, TypeOK
  <2> QED BY <2>1
<1>b. /\ phase[c] = "cached" /\ phase'[c] = "inline"
      /\ \A q \in Op : q # c => phase'[q] = phase[q]
  BY <1>a DEF CachePop, IndInv, TypeOK, CacheInv
<1>c. /\ pc'[w] = "exec" /\ cur'[w] = c
      /\ \A v \in Worker : v # w => pc'[v] = pc[v] /\ cur'[v] = cur[v]
      /\ UNCHANGED <<counter, gstatus, sstatus, son, stateCnt, push, arg, own,
                     cnt, batch, mpc>>
  BY DEF CachePop, IndInv, TypeOK
<1>d. /\ Len(cache'[w]) = n - 1
      /\ \A i \in 1 .. n - 1 : cache'[w][i] = cache[w][i]
      /\ \A v \in Worker : v # w => cache'[v] = cache[v]
  <2>1. /\ cache'[w] = SubSeq(cache[w], 1, n - 1)
        /\ \A v \in Worker : v # w => cache'[v] = cache[v]
    BY DEF CachePop, IndInv, TypeOK
  <2> QED BY <1>a, <2>1
<1>1. TypeOK'
  <2>1. SubSeq(cache[w], 1, n - 1) \in Seq(Op)
    BY <1>a
  <2>2. cache' \in [Worker -> Seq(Op)]
    BY <2>1 DEF CachePop, IndInv, TypeOK
  <2>3. phase' \in [Op -> Phase]
    BY <1>a DEF CachePop, IndInv, TypeOK
  <2>4. cur' \in [Worker -> Op \cup {NoOp}] /\ pc' \in [Worker -> WorkerPC]
    BY <1>a DEF CachePop, IndInv, TypeOK, WorkerPC
  <2> QED BY <2>2, <2>3, <2>4
          DEF CachePop, IndInv, TypeOK, GQ!QueueTypeOK, SQ!QueueTypeOK
<1>2. PushInv'
  <2>1. \A u \in Thread : push[u] \in {"count", "push", "publish"} => arg[u] # c
    BY <1>b DEF IndInv, PushInv
  <2> QED BY <1>b, <1>c, <2>1 DEF IndInv, PushInv
<1>3. QueueInv'
  BY <1>a, <1>b, <1>c DEF IndInv, QueueInv, StateOp
<1>4. HoldInv'
  <2>1. \A v \in Worker : /\ v # w /\ pc[v] \in {"exec", "spush", "spublish"}
                           => cur[v] # c
    BY <1>b DEF IndInv, HoldInv
  <2> QED BY <1>a, <1>b, <1>c, <2>1 DEF IndInv, HoldInv, StateOp
<1>5. BatchInv'
  <2>1. batch[w] # {}
    BY <1>a DEF IndInv, CacheInv
  <2>2. \A v \in Worker : batch[v] \subseteq Op
    BY DEF IndInv, TypeOK
  <2>3. \A v \in Worker : \A q \in batch[v] : phase'[q] = "done"
    BY <1>b, <2>2 DEF IndInv, BatchInv
  <2>4. \A v \in Worker : v # w /\ pc'[v] = "exec" /\ phase'[cur'[v]] = "inline"
                             => pc[v] = "exec" /\ phase[cur[v]] = "inline"
    BY <1>b, <1>c DEF IndInv, HoldInv
  <2> QED BY <1>c, <2>1, <2>3, <2>4 DEF IndInv, BatchInv
<1>6. CacheInv'
  <2>1. ASSUME NEW v \in Worker, NEW i \in 1 .. Len(cache'[v])
        PROVE  /\ i \in 1 .. Len(cache[v]) /\ cache'[v][i] = cache[v][i]
               /\ v # w \/ i # n
    BY <1>a, <1>d
  <2>2. ASSUME NEW v \in Worker, NEW i \in 1 .. Len(cache'[v])
        PROVE  phase'[cache'[v][i]] = "cached"
    <3>3. i \in 1 .. Len(cache[v]) /\ (v # w \/ i # n)
      BY <2>1
    <3>4. cache[v][i] \in Op /\ phase[cache[v][i]] = "cached"
      BY <3>3 DEF IndInv, TypeOK, CacheInv
    <3>1. cache[v][i] # c
      BY <1>a, <3>3 DEF IndInv, CacheInv
    <3> QED BY <1>b, <2>1, <3>4, <3>1
  <2>3. ASSUME NEW v \in Worker
        PROVE  /\ pc'[v] \in Emptied => cache'[v] = <<>>
               /\ \/ cache'[v] = <<>>
                  \/ batch'[v] # {}
                  \/ pc'[v] = "exec" /\ phase'[cur'[v]] = "running"
    <3>1. CASE v = w
      BY <1>a, <1>c, <3>1 DEF IndInv, CacheInv, Emptied
    <3>2. CASE v # w
      BY <1>b, <1>c, <1>d, <3>2 DEF IndInv, CacheInv, HoldInv
    <3> QED BY <3>1, <3>2
  <2>4. ASSUME NEW u \in Worker, NEW v \in Worker,
               NEW i \in 1 .. Len(cache'[u]), NEW j \in 1 .. Len(cache'[v]),
               cache'[u][i] = cache'[v][j]
        PROVE  u = v /\ i = j
    <3>1. i \in 1 .. Len(cache[u]) /\ j \in 1 .. Len(cache[v])
      BY <2>1
    <3>2. cache[u][i] = cache[v][j]
      BY <2>1, <2>4
    <3> QED BY <3>1, <3>2 DEF IndInv, CacheInv
  <2> QED BY <2>2, <2>3, <2>4 DEF CacheInv
<1>7. HeldInv'
  <2>1. ASSUME NEW q \in Op, phase'[q] = "called"
        PROVE  \E u \in Thread : push'[u] = "count" /\ arg'[u] = q
    BY <1>b, <1>c, <2>1 DEF IndInv, HeldInv
  <2>2. ASSUME NEW q \in Op, phase'[q] = "inline"
        PROVE  \E v \in Worker : pc'[v] = "exec" /\ cur'[v] = q
    <3>1. CASE q = c
      BY <1>c, <3>1
    <3>2. CASE q # c
      <4>1. PICK v \in Worker : pc[v] = "exec" /\ cur[v] = q
        BY <1>b, <2>2, <3>2 DEF IndInv, HeldInv
      <4>2. v # w
        BY <1>a, <4>1
      <4> QED BY <1>c, <4>1, <4>2
    <3> QED BY <3>1, <3>2
  <2>3. ASSUME NEW q \in Op, phase'[q] = "cached"
        PROVE  \E v \in Worker : \E i \in 1 .. Len(cache'[v]) : cache'[v][i] = q
    <3>1. q # c /\ phase[q] = "cached"
      BY <1>b, <2>3
    <3>2. PICK v \in Worker : \E i \in 1 .. Len(cache[v]) : cache[v][i] = q
      BY <3>1 DEF IndInv, HeldInv
    <3>3. PICK i \in 1 .. Len(cache[v]) : cache[v][i] = q
      BY <3>2
    <3>4. v # w \/ i # n
      BY <3>1, <3>3
    <3>5. i \in 1 .. Len(cache'[v]) /\ cache'[v][i] = q
      BY <1>a, <1>d, <3>3, <3>4
    <3> QED BY <3>5
  <2> QED BY <2>1, <2>2, <2>3 DEF HeldInv
<1>8. OwnInv'
  <2>1. own[w] = NoState
    BY <1>a DEF IndInv, OwnInv
  <2>2. \A v \in Worker : v # w
        /\ pc[v] = "exec" => phase'[cur[v]] = phase[cur[v]]
    BY <1>b DEF IndInv, HoldInv
  <2> QED BY <1>b, <1>c, <2>1, <2>2 DEF IndInv, OwnInv
<1>9. CompletionSound'
  BY <1>a, <1>b, <1>c DEF IndInv, CompletionSound
<1>10. CounterExact'
  <2>1. Outstanding' = Outstanding
    BY <1>a, <1>b DEF Outstanding
  <2> QED BY <1>c, <2>1 DEF IndInv, CounterExact
<1> QED BY <1>1, <1>2, <1>3, <1>4, <1>5, <1>6, <1>7, <1>8, <1>9, <1>10
        DEF IndInv

(* A worker with an empty cache goes back to the queue. *)
LEMMA CacheEmptyInv ==
  ASSUME IndInv, NEW w \in Worker, CacheEmpty(w)
  PROVE  IndInv'
<1> USE DEF CacheEmpty
<1>1. TypeOK'
  BY DEF IndInv, TypeOK, GQ!QueueTypeOK, SQ!QueueTypeOK, GQ!Status, SQ!Status,
         MainPC, WorkerPC
<1>2. PushInv'
  BY DEF IndInv, TypeOK, PushInv
<1>3. HoldInv'
  BY DEF IndInv, TypeOK, HoldInv
<1>4. BatchInv'
  BY DEF IndInv, TypeOK, BatchInv
<1>5. CacheInv'
  BY DEF IndInv, TypeOK, CacheInv, Emptied, WorkerPC
<1>6. HeldInv'
  BY DEF IndInv, TypeOK, HeldInv
<1>7. OwnInv'
  BY DEF IndInv, TypeOK, OwnInv
<1>8. QueueInv' /\ CompletionSound' /\ CounterExact'
  BY DEF IndInv, QueueInv, CompletionSound, CounterExact, Finished, Outstanding
<1> QED BY <1>1, <1>2, <1>3, <1>4, <1>5, <1>6, <1>7, <1>8 DEF IndInv

(* The worker subtracts exactly the operations of its batch. *)
LEMMA SettleInv ==
  ASSUME IndInv, NEW w \in Worker, Settle(w)
  PROVE  IndInv'
<1>a. /\ pc[w] = "settle" /\ pc'[w] = "park"
      /\ \A v \in Worker : v # w => pc'[v] = pc[v]
      /\ UNCHANGED <<gstatus, sstatus, son, stateCnt, push, arg, own, cur,
          cache,
                     mpc>>
  BY DEF Settle, IndInv, TypeOK
<1>b. /\ batch[w] \subseteq Op
      /\ \A q \in batch[w] : phase[q] = "done" /\ phase'[q] = "settled"
      /\ \A q \in Op : q \notin batch[w] => phase'[q] = phase[q]
  BY DEF Settle, IndInv, TypeOK, BatchInv
<1>c. /\ batch'[w] = {} /\ cnt'[w] = 0
      /\ \A v \in Worker : v # w => batch'[v] = batch[v] /\ cnt'[v] = cnt[v]
  BY DEF Settle, IndInv, TypeOK
<1>d. \A q \in Op : phase[q] # "done" => phase'[q] = phase[q]
  BY <1>b
<1>e. \A q \in Op : phase'[q] \notin {"done", "settled"} => phase'[q] = phase[q]
  BY <1>b
<1>1. TypeOK'
  <2>1. batch' \in [Worker -> SUBSET Op] /\ cnt' \in [Worker -> Nat]
    BY DEF Settle, IndInv, TypeOK
  <2>2. counter' \in Int /\ phase' \in [Op -> Phase]
    BY DEF Settle, IndInv, TypeOK
  <2>3. pc' \in [Worker -> WorkerPC]
    BY DEF Settle, IndInv, TypeOK, WorkerPC
  <2> QED BY <2>1, <2>2, <2>3
          DEF Settle, IndInv, TypeOK, GQ!QueueTypeOK, SQ!QueueTypeOK
<1>2. PushInv'
  BY <1>a, <1>d DEF IndInv, PushInv
<1>3. QueueInv'
  BY <1>a, <1>d DEF IndInv, QueueInv, StateOp
<1>4. HoldInv'
  BY <1>a, <1>d DEF IndInv, HoldInv, StateOp
<1>5. BatchInv'
  <2>1. \A v \in Worker : batch[v] \subseteq Op
    BY DEF IndInv, TypeOK
  <2>2. \A v \in Worker : \A q \in batch'[v] : phase'[q] = "done"
    BY <1>b, <1>c, <2>1 DEF IndInv, BatchInv
  <2>3. \A v \in Worker : cnt'[v] = Cardinality(batch'[v])
    BY <1>c, FS_EmptySet DEF IndInv, BatchInv
  <2>4. \A v \in Worker : pc'[v] = "exec" /\ phase'[cur'[v]] = "inline"
                             => v # w /\ phase[cur[v]] = "inline"
    BY <1>a, <1>e DEF IndInv, HoldInv
  <2> QED BY <1>a, <1>c, <2>2, <2>3, <2>4 DEF IndInv, BatchInv
<1>6. CacheInv'
  <2>1. ASSUME NEW v \in Worker, NEW i \in 1 .. Len(cache[v])
        PROVE  phase'[cache[v][i]] = "cached"
    <3>1. cache[v][i] \in Op
      BY DEF IndInv, TypeOK
    <3>2. phase[cache[v][i]] = "cached"
      BY DEF IndInv, CacheInv
    <3> QED BY <1>d, <3>1, <3>2
  <2>2. ASSUME NEW v \in Worker
        PROVE  /\ pc'[v] \in Emptied => cache[v] = <<>>
               /\ \/ cache[v] = <<>>
                  \/ batch'[v] # {}
                  \/ pc'[v] = "exec" /\ phase'[cur'[v]] = "running"
    <3>1. CASE v = w
      BY <1>a, <3>1 DEF IndInv, CacheInv, Emptied, WorkerPC
    <3>2. CASE v # w
      BY <1>a, <1>c, <1>d, <3>2 DEF IndInv, CacheInv, HoldInv
    <3> QED BY <3>1, <3>2
  <2>3. \A u, v \in Worker :
          \A i \in 1 .. Len(cache[u]), j \in 1 .. Len(cache[v]) :
            cache[u][i] = cache[v][j] => u = v /\ i = j
    BY DEF IndInv, CacheInv
  <2>4. cache' = cache
    BY <1>a
  <2>5. \A v \in Worker :
          /\ \A i \in 1 .. Len(cache'[v]) : phase'[cache'[v][i]] = "cached"
          /\ pc'[v] \in Emptied => cache'[v] = <<>>
          /\ \/ cache'[v] = <<>>
             \/ batch'[v] # {}
             \/ pc'[v] = "exec" /\ phase'[cur'[v]] = "running"
    BY <2>1, <2>2, <2>4
  <2>6. \A u, v \in Worker :
          \A i \in 1 .. Len(cache'[u]), j \in 1 .. Len(cache'[v]) :
            cache'[u][i] = cache'[v][j] => u = v /\ i = j
    BY <2>3, <2>4
  <2> QED BY <2>5, <2>6 DEF CacheInv
<1>7. HeldInv'
  <2>1. \A v \in Worker : pc[v] = "exec" => pc'[v] = "exec"
    BY <1>a
  <2> QED BY <1>a, <1>e, <2>1 DEF IndInv, HeldInv
<1>8. OwnInv'
  <2>1. \A v \in Worker : pc[v] = "exec" => phase'[cur[v]] = phase[cur[v]]
    BY <1>d DEF IndInv, HoldInv
  <2> QED BY <1>a, <2>1 DEF IndInv, OwnInv
<1>9. CompletionSound'
  BY <1>a, <1>b DEF IndInv, CompletionSound
<1>10. CounterExact'
  <2>1. Outstanding' = Outstanding \ batch[w]
    BY <1>b DEF Outstanding
  <2>2. batch[w] \subseteq Outstanding
    BY <1>b DEF Outstanding
  <2>3. Cardinality(Outstanding \ batch[w])
          = Cardinality(Outstanding) - Cardinality(batch[w])
    <3>1. Outstanding \cap batch[w] = batch[w]
      BY <2>2
    <3>2. Cardinality(Outstanding \ batch[w])
            = Cardinality(Outstanding) - Cardinality(Outstanding \cap batch[w])
      BY OutstandingFinite, FS_Difference
    <3> QED BY <3>1, <3>2
  <2>4. counter' = counter - Cardinality(batch[w])
    BY DEF Settle, IndInv, BatchInv
  <2> QED BY <2>1, <2>3, <2>4 DEF IndInv, CounterExact
<1> QED BY <1>1, <1>2, <1>3, <1>4, <1>5, <1>6, <1>7, <1>8, <1>9, <1>10
        DEF IndInv

(* Claiming a slot of the state queue keeps the operation with its worker. *)
LEMMA StateClaimInv ==
  ASSUME IndInv, NEW w \in Worker, StateClaim(w)
  PROVE  IndInv'
<1> USE DEF StateClaim, SQ!PushClaim, SQ!popVars
<1>1. TypeOK'
  BY DEF IndInv, TypeOK, GQ!QueueTypeOK, SQ!QueueTypeOK, GQ!Status, SQ!Status,
         MainPC, WorkerPC, HoldInv, StateOp
<1>2. PushInv'
  BY DEF IndInv, TypeOK, PushInv, HoldInv, StateOp, SQ!QueueTypeOK, SQ!Status
<1>3. QueueInv'
  BY DEF IndInv, TypeOK, QueueInv, HoldInv, StateOp, SQ!QueueTypeOK, SQ!Status
<1>4. HoldInv'
  BY DEF IndInv, TypeOK, HoldInv, StateOp, SQ!QueueTypeOK, SQ!Status
<1>5. BatchInv'
  BY DEF IndInv, TypeOK, BatchInv, HoldInv, StateOp, SQ!QueueTypeOK, SQ!Status
<1>6. CacheInv'
  BY DEF IndInv, TypeOK, CacheInv, HoldInv, StateOp, SQ!QueueTypeOK,
         SQ!Status, Emptied, WorkerPC
<1>7. HeldInv'
  <2>1. \A v \in Worker : pc[v] = "exec" => pc'[v] = "exec"
    BY DEF IndInv, TypeOK
  <2> QED BY <2>1 DEF IndInv, HeldInv
<1>8. OwnInv'
  BY DEF IndInv, TypeOK, OwnInv, HoldInv, StateOp, SQ!QueueTypeOK, SQ!Status
<1>9. CompletionSound' /\ CounterExact'
  BY DEF IndInv, CompletionSound, CounterExact, Outstanding, Finished
<1> QED BY <1>1, <1>2, <1>3, <1>4, <1>5, <1>6, <1>7, <1>8, <1>9 DEF IndInv

(* Publishing gives the operation to the queue of the state. *)
LEMMA StatePublishInv ==
  ASSUME IndInv, NEW w \in Worker, StatePublish(w)
  PROVE  IndInv'
<1> USE DEF StatePublish, SQ!PushPublish, SQ!popVars
<1>1. TypeOK'
  BY DEF IndInv, TypeOK, GQ!QueueTypeOK, SQ!QueueTypeOK, GQ!Status, SQ!Status,
         MainPC, WorkerPC, HoldInv, StateOp
<1>2. PushInv'
  BY DEF IndInv, TypeOK, PushInv, HoldInv, StateOp, SQ!QueueTypeOK, SQ!Status
<1>3. QueueInv'
  BY DEF IndInv, TypeOK, QueueInv, HoldInv, StateOp, SQ!QueueTypeOK, SQ!Status
<1>4. HoldInv'
  BY DEF IndInv, TypeOK, HoldInv, StateOp, SQ!QueueTypeOK, SQ!Status
<1>5. BatchInv'
  BY DEF IndInv, TypeOK, BatchInv, HoldInv, StateOp, SQ!QueueTypeOK, SQ!Status
<1>6. CacheInv'
  BY DEF IndInv, TypeOK, CacheInv, HoldInv, StateOp, SQ!QueueTypeOK,
         SQ!Status, Emptied, WorkerPC
<1>7. HeldInv'
  BY DEF IndInv, TypeOK, HeldInv, HoldInv, StateOp, SQ!QueueTypeOK, SQ!Status
<1>8. OwnInv'
  BY DEF IndInv, TypeOK, OwnInv, HoldInv, StateOp, SQ!QueueTypeOK, SQ!Status
<1>9. CompletionSound' /\ CounterExact'
  BY DEF IndInv, CompletionSound, CounterExact, Outstanding, Finished
<1> QED BY <1>1, <1>2, <1>3, <1>4, <1>5, <1>6, <1>7, <1>8, <1>9 DEF IndInv

(* The thread whose fetch_add returns zero becomes the owner: the counter    *)
(* of an owned state is positive, so there was none.                         *)
LEMMA StateEnterInv ==
  ASSUME IndInv, NEW w \in Worker, StateEnter(w)
  PROVE  IndInv'
<1> USE DEF StateEnter, StateFetchAdd
<1>1. TypeOK'
  <2>1. StateOf[cur[w]] \in State
    BY ConstantsAssumption DEF StateEnter, IndInv, HoldInv, StateOp
  <2>2. stateCnt' \in [State -> Int]
    BY <2>1 DEF IndInv, TypeOK
  <2>3. own' \in [Worker -> State \cup {NoState}]
        /\ pc' \in [Worker -> WorkerPC]
    BY <2>1 DEF IndInv, TypeOK, WorkerPC
  <2>4. cur' \in [Worker -> Op \cup {NoOp}]
    BY DEF IndInv, TypeOK
  <2> QED BY <2>2, <2>3, <2>4 DEF IndInv, TypeOK, GQ!QueueTypeOK, SQ!QueueTypeOK
<1>2. PushInv'
  BY DEF IndInv, TypeOK, PushInv, HoldInv, OwnInv, StateOp
<1>3. HoldInv'
  BY DEF IndInv, TypeOK, HoldInv, OwnInv, StateOp
<1>4. BatchInv'
  BY DEF IndInv, TypeOK, BatchInv, HoldInv, OwnInv, StateOp
<1>5. CacheInv'
  BY DEF IndInv, TypeOK, CacheInv, HoldInv, OwnInv, StateOp, Emptied, WorkerPC
<1>6. HeldInv'
  BY DEF IndInv, TypeOK, HeldInv, HoldInv, OwnInv, StateOp
<1>7. OwnInv'
  <2> DEFINE s == StateOf[cur[w]]
  <2>1. s \in State /\ s # NoState
    BY ConstantsAssumption DEF IndInv, HoldInv, StateOp
  <2>2. /\ stateCnt[s] = 0 /\ stateCnt'[s] = 1
        /\ \A r \in State : r # s => stateCnt'[r] = stateCnt[r]
    BY <2>1 DEF IndInv, TypeOK
  <2>3. /\ pc[w] = "sadd" /\ pc'[w] = "spop" /\ own'[w] = s
        /\ \A v \in Worker : v # w => /\ pc'[v] = pc[v] /\ own'[v] = own[v]
                                      /\ cur'[v] = cur[v]
        /\ UNCHANGED <<phase, son>>
    BY DEF IndInv, TypeOK
  <2>4. \A v \in Worker : own[v] # s
    BY <2>1, <2>2 DEF IndInv, OwnInv
  <2>5. \A v \in Worker : own[v] # NoState => own[v] \in State
    BY DEF IndInv, TypeOK
  <2> HIDE DEF s
  <2> QED BY <2>1, <2>2, <2>3, <2>4, <2>5 DEF IndInv, OwnInv
<1>8. QueueInv' /\ CompletionSound' /\ CounterExact'
  BY DEF IndInv, QueueInv, CompletionSound, CounterExact, Outstanding, Finished
<1> QED BY <1>1, <1>2, <1>3, <1>4, <1>5, <1>6, <1>7, <1>8 DEF IndInv

(* The thread whose fetch_add does not return zero leaves the state to       *)
(* another.                                                                  *)
LEMMA StateHandOverInv ==
  ASSUME IndInv, NEW w \in Worker, StateHandOver(w)
  PROVE  IndInv'
<1> USE DEF StateHandOver, StateFetchAdd
<1>1. TypeOK'
  <2>1. StateOf[cur[w]] \in State
    BY ConstantsAssumption DEF StateHandOver, IndInv, HoldInv, StateOp
  <2>2. stateCnt' \in [State -> Int]
    BY <2>1 DEF IndInv, TypeOK
  <2>3. own' \in [Worker -> State \cup {NoState}]
        /\ pc' \in [Worker -> WorkerPC]
    BY <2>1 DEF IndInv, TypeOK, WorkerPC
  <2>4. cur' \in [Worker -> Op \cup {NoOp}]
    BY DEF IndInv, TypeOK
  <2> QED BY <2>2, <2>3, <2>4 DEF IndInv, TypeOK, GQ!QueueTypeOK, SQ!QueueTypeOK
<1>2. PushInv'
  BY DEF IndInv, TypeOK, PushInv, HoldInv, OwnInv, StateOp
<1>3. HoldInv'
  BY DEF IndInv, TypeOK, HoldInv, OwnInv, StateOp
<1>4. BatchInv'
  BY DEF IndInv, TypeOK, BatchInv, HoldInv, OwnInv, StateOp
<1>5. CacheInv'
  BY DEF IndInv, TypeOK, CacheInv, HoldInv, OwnInv, StateOp, Emptied, WorkerPC
<1>6. HeldInv'
  BY DEF IndInv, TypeOK, HeldInv, HoldInv, OwnInv, StateOp
<1>7. OwnInv'
  BY DEF IndInv, TypeOK, OwnInv, HoldInv, StateOp
<1>8. QueueInv' /\ CompletionSound' /\ CounterExact'
  BY DEF IndInv, QueueInv, CompletionSound, CounterExact, Outstanding, Finished
<1> QED BY <1>1, <1>2, <1>3, <1>4, <1>5, <1>6, <1>7, <1>8 DEF IndInv

(* The owner pops from the queue of its own state. *)
LEMMA StatePopStartInv ==
  ASSUME IndInv, NEW w \in Worker, StatePopStart(w)
  PROVE  IndInv'
<1> USE DEF StatePopStart, SQ!PopStart, SQ!Inside
<1>1. TypeOK'
  BY DEF IndInv, TypeOK, GQ!QueueTypeOK, SQ!QueueTypeOK, GQ!Status, SQ!Status,
         MainPC, WorkerPC, OwnInv
<1>2. PushInv'
  BY DEF IndInv, TypeOK, PushInv, OwnInv
<1>3. HoldInv'
  BY DEF IndInv, TypeOK, HoldInv, OwnInv
<1>4. BatchInv'
  BY DEF IndInv, TypeOK, BatchInv, OwnInv
<1>5. CacheInv'
  BY DEF IndInv, TypeOK, CacheInv, OwnInv, Emptied, WorkerPC
<1>6. HeldInv'
  BY DEF IndInv, TypeOK, HeldInv, OwnInv
<1>7. OwnInv'
  <2>1. /\ pc[w] = "spop" /\ pc'[w] = "spopping" /\ son'[w] = own[w]
        /\ \A v \in Worker : v # w => pc'[v] = pc[v] /\ son'[v] = son[v]
        /\ UNCHANGED <<phase, own, stateCnt, cur>>
    BY DEF IndInv, TypeOK, SQ!QueueTypeOK
  <2> QED BY <2>1 DEF IndInv, OwnInv
<1>8. QueueInv' /\ CompletionSound' /\ CounterExact'
  BY DEF IndInv, QueueInv, CompletionSound, CounterExact, Finished, Outstanding
<1> QED BY <1>1, <1>2, <1>3, <1>4, <1>5, <1>6, <1>7, <1>8 DEF IndInv

(* Meeting a claimed slot of the state queue moves no operation. *)
LEMMA StatePopBlockedInv ==
  ASSUME IndInv, NEW w \in Worker, StatePopBlocked(w)
  PROVE  IndInv'
<1> USE DEF StatePopBlocked, SQ!PopBlocked
<1>1. TypeOK'
  BY DEF IndInv, TypeOK, GQ!QueueTypeOK, SQ!QueueTypeOK, GQ!Status, SQ!Status,
         MainPC, WorkerPC
<1>2. PushInv'
  BY DEF IndInv, PushInv
<1>3. QueueInv'
  BY DEF IndInv, QueueInv
<1>4. HoldInv'
  BY DEF IndInv, HoldInv
<1>5. BatchInv'
  BY DEF IndInv, BatchInv
<1>6. CacheInv'
  BY DEF IndInv, CacheInv, Emptied
<1>7. HeldInv'
  BY DEF IndInv, HeldInv
<1>8. OwnInv'
  BY DEF IndInv, OwnInv
<1>9. CompletionSound'
  BY DEF IndInv, CompletionSound, Finished
<1>10. CounterExact'
  BY DEF IndInv, CounterExact, Outstanding
<1> QED BY <1>1, <1>2, <1>3, <1>4, <1>5, <1>6, <1>7, <1>8, <1>9, <1>10
        DEF IndInv

(* The owner executes an operation of its own state. *)
LEMMA StatePopTakeInv ==
  ASSUME IndInv, NEW w \in Worker, NEW o \in StateOp, StatePopTake(w, o)
  PROVE  IndInv'
<1>a. /\ phase[o] = "taken" /\ phase'[o] = "running" /\ o \in Op
      /\ sstatus[o] = "ready" /\ sstatus'[o] = "out"
      /\ \A q \in Op : q # o => phase'[q] = phase[q]
      /\ \A q \in StateOp : q # o => sstatus'[q] = sstatus[q]
  BY DEF StatePopTake, IndInv, TypeOK, QueueInv, SQ!PopTake, SQ!QueueTypeOK,
         StateOp
<1>b. /\ pc[w] = "spopping" /\ pc'[w] = "exec" /\ cur'[w] = o
      /\ StateOf[o] = son[w] /\ StateOf[o] # NoState
      /\ \A v \in Worker : v # w => pc'[v] = pc[v] /\ cur'[v] = cur[v]
                                                 /\ son'[v] = son[v]
      /\ UNCHANGED <<counter, gstatus, stateCnt, push, arg, own, cnt, batch,
                     cache, mpc>>
  BY DEF StatePopTake, IndInv, TypeOK, SQ!PopTake, SQ!PopEnd, SQ!QueueTypeOK,
         StateOp
<1>1. TypeOK'
  <2>1. SQ!QueueTypeOK'
    BY DEF StatePopTake, IndInv, TypeOK, SQ!QueueTypeOK, SQ!Status, SQ!PopTake,
           SQ!PopEnd, StateOp
  <2>2. cur' \in [Worker -> Op \cup {NoOp}] /\ phase' \in [Op -> Phase]
    BY <1>a DEF StatePopTake, IndInv, TypeOK
  <2>3. pc' \in [Worker -> WorkerPC]
    BY DEF StatePopTake, IndInv, TypeOK, WorkerPC
  <2> QED BY <2>1, <2>2, <2>3 DEF StatePopTake, IndInv, TypeOK, GQ!QueueTypeOK
<1>2. PushInv'
  <2>1. \A u \in Thread : push[u] \in {"count", "push", "publish"} => arg[u] # o
    BY <1>a DEF IndInv, PushInv
  <2>2. ~ Busy(w)
    BY <1>b DEF IndInv, PushInv
  <2> QED BY <1>a, <1>b, <2>1, <2>2 DEF IndInv, PushInv
<1>3. QueueInv'
  BY <1>a, <1>b DEF IndInv, QueueInv, StateOp
<1>4. HoldInv'
  <2>1. \A v \in Worker : /\ v # w /\ pc[v] \in {"exec", "spush", "spublish"}
                           => cur[v] # o
    BY <1>a DEF IndInv, HoldInv
  <2> QED BY <1>a, <1>b, <2>1 DEF IndInv, HoldInv, StateOp
<1>5. BatchInv'
  <2>1. \A v \in Worker : batch[v] \subseteq Op
    BY DEF IndInv, TypeOK
  <2>2. \A v \in Worker : \A q \in batch[v] : phase'[q] = "done"
    BY <1>a, <2>1 DEF IndInv, BatchInv
  <2>3. \A v \in Worker : pc'[v] = "exec" /\ phase'[cur'[v]] = "inline"
                             => pc[v] = "exec" /\ phase[cur[v]] = "inline"
    BY <1>a, <1>b DEF IndInv, HoldInv
  <2> QED BY <1>b, <2>2, <2>3 DEF IndInv, BatchInv
<1>6. CacheInv'
  <2>1. ASSUME NEW v \in Worker, NEW i \in 1 .. Len(cache[v])
        PROVE  phase'[cache[v][i]] = "cached"
    <3>1. cache[v][i] \in Op
      BY DEF IndInv, TypeOK
    <3>2. phase[cache[v][i]] = "cached"
      BY DEF IndInv, CacheInv
    <3> QED BY <1>a, <3>1, <3>2
  <2>2. ASSUME NEW v \in Worker
        PROVE  /\ pc'[v] \in Emptied => cache[v] = <<>>
               /\ \/ cache[v] = <<>>
                  \/ batch[v] # {}
                  \/ pc'[v] = "exec" /\ phase'[cur'[v]] = "running"
    <3>1. CASE v = w
      BY <1>a, <1>b, <3>1 DEF IndInv, CacheInv, Emptied
    <3>2. CASE v # w
      BY <1>a, <1>b, <3>2 DEF IndInv, CacheInv, HoldInv
    <3> QED BY <3>1, <3>2
  <2>3. \A u, v \in Worker :
          \A i \in 1 .. Len(cache[u]), j \in 1 .. Len(cache[v]) :
            cache[u][i] = cache[v][j] => u = v /\ i = j
    BY DEF IndInv, CacheInv
  <2>4. cache' = cache /\ batch' = batch
    BY <1>b
  <2>5. \A v \in Worker :
          /\ \A i \in 1 .. Len(cache'[v]) : phase'[cache'[v][i]] = "cached"
          /\ pc'[v] \in Emptied => cache'[v] = <<>>
          /\ \/ cache'[v] = <<>>
             \/ batch'[v] # {}
             \/ pc'[v] = "exec" /\ phase'[cur'[v]] = "running"
    BY <2>1, <2>2, <2>4
  <2>6. \A u, v \in Worker :
          \A i \in 1 .. Len(cache'[u]), j \in 1 .. Len(cache'[v]) :
            cache'[u][i] = cache'[v][j] => u = v /\ i = j
    BY <2>3, <2>4
  <2> QED BY <2>5, <2>6 DEF CacheInv
<1>7. HeldInv'
  <2>1. \A q \in Op : phase'[q] \in {"called", "inline", "cached"}
                       => q # o /\ phase'[q] = phase[q]
    BY <1>a
  <2>2. \A v \in Worker : pc[v] = "exec" => pc'[v] = "exec" /\ cur'[v] = cur[v]
    BY <1>b
  <2> QED BY <1>b, <2>1, <2>2 DEF IndInv, HeldInv
<1>8. OwnInv'
  <2>1. StateOf[o] = own[w]
    BY <1>b DEF IndInv, OwnInv
  <2>2. \A v \in Worker : v # w
        /\ pc[v] = "exec" => phase'[cur[v]] = phase[cur[v]]
    BY <1>a DEF IndInv, HoldInv
  <2> QED BY <1>a, <1>b, <2>1, <2>2 DEF IndInv, OwnInv
<1>9. CompletionSound'
  BY <1>a, <1>b DEF IndInv, CompletionSound
<1>10. CounterExact'
  <2>1. Outstanding' = Outstanding
    BY <1>a DEF Outstanding
  <2> QED BY <1>b, <2>1 DEF IndInv, CounterExact
<1> QED BY <1>1, <1>2, <1>3, <1>4, <1>5, <1>6, <1>7, <1>8, <1>9, <1>10
        DEF IndInv

(* A failed pop leaves the owner the owner. *)
LEMMA StatePopFailInv ==
  ASSUME IndInv, NEW w \in Worker, StatePopFail(w)
  PROVE  IndInv'
<1> USE DEF StatePopFail, SQ!PopFail, SQ!PopEnd
<1>1. TypeOK'
  BY DEF IndInv, TypeOK, GQ!QueueTypeOK, SQ!QueueTypeOK, GQ!Status, SQ!Status,
         MainPC, WorkerPC
<1>2. PushInv'
  BY DEF IndInv, TypeOK, PushInv
<1>3. HoldInv'
  BY DEF IndInv, TypeOK, HoldInv
<1>4. BatchInv'
  BY DEF IndInv, TypeOK, BatchInv
<1>5. CacheInv'
  BY DEF IndInv, TypeOK, CacheInv, Emptied, WorkerPC
<1>6. HeldInv'
  BY DEF IndInv, TypeOK, HeldInv
<1>7. OwnInv'
  BY DEF IndInv, TypeOK, OwnInv
<1>8. QueueInv' /\ CompletionSound' /\ CounterExact'
  BY DEF IndInv, QueueInv, CompletionSound, CounterExact, Finished, Outstanding
<1> QED BY <1>1, <1>2, <1>3, <1>4, <1>5, <1>6, <1>7, <1>8 DEF IndInv

(* The owner leaves a state when its fetch_sub returns one. *)
LEMMA StateLeaveInv ==
  ASSUME IndInv, NEW w \in Worker, StateLeave(w)
  PROVE  IndInv'
<1> USE DEF StateLeave, StateFetchSub
<1>1. TypeOK'
  <2>1. own[w] \in State
    BY DEF IndInv, TypeOK, OwnInv
  <2>2. stateCnt' \in [State -> Int]
    BY <2>1 DEF IndInv, TypeOK
  <2>3. own' \in [Worker -> State \cup {NoState}]
        /\ pc' \in [Worker -> WorkerPC]
    BY DEF IndInv, TypeOK, WorkerPC
  <2> QED BY <2>2, <2>3 DEF IndInv, TypeOK, GQ!QueueTypeOK, SQ!QueueTypeOK
<1>2. PushInv'
  BY DEF IndInv, TypeOK, PushInv, OwnInv
<1>3. HoldInv'
  BY DEF IndInv, TypeOK, HoldInv, OwnInv
<1>4. BatchInv'
  BY DEF IndInv, TypeOK, BatchInv, OwnInv
<1>5. CacheInv'
  BY DEF IndInv, TypeOK, CacheInv, OwnInv, Emptied, WorkerPC
<1>6. HeldInv'
  BY DEF IndInv, TypeOK, HeldInv, OwnInv
<1>7. OwnInv'
  BY DEF IndInv, TypeOK, OwnInv
<1>8. QueueInv' /\ CompletionSound' /\ CounterExact'
  BY DEF IndInv, QueueInv, CompletionSound, CounterExact, Outstanding, Finished
<1> QED BY <1>1, <1>2, <1>3, <1>4, <1>5, <1>6, <1>7, <1>8 DEF IndInv

(* The owner stays when its fetch_sub returns more: the counter is still     *)
(* positive.                                                                 *)
LEMMA StateContinueInv ==
  ASSUME IndInv, NEW w \in Worker, StateContinue(w)
  PROVE  IndInv'
<1> USE DEF StateContinue, StateFetchSub
<1>1. TypeOK'
  BY DEF IndInv, TypeOK, GQ!QueueTypeOK, SQ!QueueTypeOK, GQ!Status, SQ!Status,
         MainPC, WorkerPC, OwnInv
<1>2. PushInv'
  BY DEF IndInv, TypeOK, PushInv, OwnInv
<1>3. HoldInv'
  BY DEF IndInv, TypeOK, HoldInv, OwnInv
<1>4. BatchInv'
  BY DEF IndInv, TypeOK, BatchInv, OwnInv
<1>5. CacheInv'
  BY DEF IndInv, TypeOK, CacheInv, OwnInv, Emptied, WorkerPC
<1>6. HeldInv'
  BY DEF IndInv, TypeOK, HeldInv, OwnInv
<1>7. OwnInv'
  BY DEF IndInv, TypeOK, OwnInv
<1>8. QueueInv' /\ CompletionSound' /\ CounterExact'
  BY DEF IndInv, QueueInv, CompletionSound, CounterExact, Outstanding, Finished
<1> QED BY <1>1, <1>2, <1>3, <1>4, <1>5, <1>6, <1>7, <1>8 DEF IndInv

(* The main thread pushes a fresh operation. *)
LEMMA MainPushInv ==
  ASSUME IndInv, NEW o \in Op, MainPush(o)
  PROVE  IndInv'
<1> USE DEF MainPush
<1>1. TypeOK'
  BY DEF IndInv, TypeOK, GQ!QueueTypeOK, SQ!QueueTypeOK, GQ!Status, SQ!Status,
         MainPC, WorkerPC
<1>2. PushInv'
  BY DEF IndInv, TypeOK, PushInv
<1>3. QueueInv'
  BY DEF IndInv, TypeOK, QueueInv
<1>4. HoldInv'
  BY DEF IndInv, TypeOK, HoldInv
<1>5. BatchInv'
  BY DEF IndInv, TypeOK, BatchInv
<1>6. CacheInv'
  BY DEF IndInv, TypeOK, CacheInv, Emptied, WorkerPC
<1>7. HeldInv'
  BY DEF IndInv, TypeOK, HeldInv
<1>8. OwnInv'
  BY DEF IndInv, TypeOK, OwnInv
<1>9. CompletionSound'
  BY DEF IndInv, TypeOK, CompletionSound, Finished
<1>10. CounterExact'
  <2>1. Outstanding' = Outstanding
    BY DEF IndInv, TypeOK, Outstanding
  <2> QED BY <2>1 DEF IndInv, CounterExact
<1> QED BY <1>1, <1>2, <1>3, <1>4, <1>5, <1>6, <1>7, <1>8, <1>9, <1>10
        DEF IndInv

(* Starting to wait changes the control of the main thread only. *)
LEMMA MainWaitInv ==
  ASSUME IndInv, MainWait
  PROVE  IndInv'
<1> USE DEF MainWait
<1>1. TypeOK'
  BY DEF IndInv, TypeOK, GQ!QueueTypeOK, SQ!QueueTypeOK, GQ!Status, SQ!Status,
         MainPC, WorkerPC
<1>2. PushInv'
  BY DEF IndInv, TypeOK, PushInv
<1>3. CompletionSound'
  BY DEF IndInv, TypeOK, CompletionSound, Finished
<1>4. QueueInv' /\ HoldInv' /\ BatchInv'
  BY DEF IndInv, QueueInv, HoldInv, BatchInv
<1>5. CacheInv' /\ HeldInv' /\ OwnInv'
  BY DEF IndInv, CacheInv, HeldInv, OwnInv, Emptied
<1>6. CounterExact'
  BY DEF IndInv, CounterExact, Outstanding
<1> QED BY <1>1, <1>2, <1>3, <1>4, <1>5, <1>6 DEF IndInv

(* Reading a parked flag changes the control of the main thread only. *)
LEMMA CheckParkedInv ==
  ASSUME IndInv, CheckParked
  PROVE  IndInv'
<1> USE DEF CheckParked
<1>1. TypeOK'
  BY DEF IndInv, TypeOK, GQ!QueueTypeOK, SQ!QueueTypeOK, GQ!Status, SQ!Status,
         MainPC, WorkerPC
<1>2. PushInv'
  BY DEF IndInv, TypeOK, PushInv
<1>3. CompletionSound'
  BY DEF IndInv, TypeOK, CompletionSound, Finished
<1>4. QueueInv' /\ HoldInv' /\ BatchInv'
  BY DEF IndInv, QueueInv, HoldInv, BatchInv
<1>5. CacheInv' /\ HeldInv' /\ OwnInv'
  BY DEF IndInv, CacheInv, HeldInv, OwnInv, Emptied
<1>6. CounterExact'
  BY DEF IndInv, CounterExact, Outstanding
<1> QED BY <1>1, <1>2, <1>3, <1>4, <1>5, <1>6 DEF IndInv

(* A counter of zero means that no operation is outstanding, hence that no   *)
(* worker executes anything, no cache holds anything and no push by a        *)
(* worker is under way: everything pushed is settled.                        *)
LEMMA CheckCounterInv ==
  ASSUME IndInv, CheckCounter
  PROVE  IndInv'
<1> USE DEF CheckCounter
<1>1. TypeOK'
  BY DEF IndInv, TypeOK, GQ!QueueTypeOK, SQ!QueueTypeOK, GQ!Status, SQ!Status,
         MainPC, WorkerPC
<1>2. PushInv'
  BY DEF IndInv, TypeOK, PushInv
<1>3. CompletionSound'
  <2>1. CASE counter # 0
    BY <2>1 DEF CompletionSound, Finished
  <2>2. CASE counter = 0
    <3>1. Outstanding = {}
      BY <2>2, OutstandingFinite, FS_EmptySet DEF IndInv, CounterExact
    <3>2. \A q \in Op : phase[q] \notin {"counted", "taken", "running", "done"}
      BY <3>1 DEF Outstanding
    <3>3. \A w \in Worker : batch[w] = {}
      BY <3>2 DEF IndInv, TypeOK, BatchInv
    <3>4. \A w \in Worker : pc[w] # "exec"
      BY <3>2, <3>3 DEF IndInv, HoldInv, BatchInv
    <3>5. \A t \in Thread : push[t] # "count"
      BY <3>4 DEF IndInv, PushInv
    <3>6. \A w \in Worker : cache[w] = <<>>
      BY <3>3, <3>4 DEF IndInv, CacheInv
    <3>7. \A q \in Op : phase[q] \notin {"called", "inline", "cached"}
      BY <3>4, <3>5, <3>6 DEF IndInv, HeldInv
    <3>8. \A q \in Op : phase[q] \in {"fresh", "settled"}
      BY <3>2, <3>7 DEF IndInv, TypeOK
    <3> QED BY <3>8 DEF CompletionSound
  <2> QED BY <2>1, <2>2
<1>4. QueueInv' /\ HoldInv' /\ BatchInv' /\ CacheInv' /\ HeldInv'
      /\ OwnInv' /\ CounterExact'
  BY DEF IndInv, QueueInv, HoldInv, BatchInv, CacheInv, HeldInv, OwnInv,
         CounterExact, Outstanding, Emptied
<1> QED BY <1>1, <1>2, <1>3, <1>4 DEF IndInv

(* Starting to wait on the condition variable changes the control only. *)
LEMMA BlockInv ==
  ASSUME IndInv, Block
  PROVE  IndInv'
<1> USE DEF Block
<1>1. TypeOK'
  BY DEF IndInv, TypeOK, GQ!QueueTypeOK, SQ!QueueTypeOK, GQ!Status, SQ!Status,
         MainPC, WorkerPC
<1>2. PushInv'
  BY DEF IndInv, TypeOK, PushInv
<1>3. CompletionSound'
  BY DEF IndInv, TypeOK, CompletionSound, Finished
<1>4. QueueInv' /\ HoldInv' /\ BatchInv'
  BY DEF IndInv, QueueInv, HoldInv, BatchInv
<1>5. CacheInv' /\ HeldInv' /\ OwnInv'
  BY DEF IndInv, CacheInv, HeldInv, OwnInv, Emptied
<1>6. CounterExact'
  BY DEF IndInv, CounterExact, Outstanding
<1> QED BY <1>1, <1>2, <1>3, <1>4, <1>5, <1>6 DEF IndInv

(* So does a spurious wake-up. *)
LEMMA SpuriousWakeupInv ==
  ASSUME IndInv, SpuriousWakeup
  PROVE  IndInv'
<1> USE DEF SpuriousWakeup
<1>1. TypeOK'
  BY DEF IndInv, TypeOK, GQ!QueueTypeOK, SQ!QueueTypeOK, GQ!Status, SQ!Status,
         MainPC, WorkerPC
<1>2. PushInv'
  BY DEF IndInv, TypeOK, PushInv
<1>3. CompletionSound'
  BY DEF IndInv, TypeOK, CompletionSound, Finished
<1>4. QueueInv' /\ HoldInv' /\ BatchInv'
  BY DEF IndInv, QueueInv, HoldInv, BatchInv
<1>5. CacheInv' /\ HeldInv' /\ OwnInv'
  BY DEF IndInv, CacheInv, HeldInv, OwnInv, Emptied
<1>6. CounterExact'
  BY DEF IndInv, CounterExact, Outstanding
<1> QED BY <1>1, <1>2, <1>3, <1>4, <1>5, <1>6 DEF IndInv

(* The program goes on after the wait. *)
LEMMA MainAgainInv ==
  ASSUME IndInv, MainAgain
  PROVE  IndInv'
<1> USE DEF MainAgain
<1>1. TypeOK'
  BY DEF IndInv, TypeOK, GQ!QueueTypeOK, SQ!QueueTypeOK, GQ!Status, SQ!Status,
         MainPC, WorkerPC
<1>2. PushInv'
  BY DEF IndInv, TypeOK, PushInv
<1>3. CompletionSound'
  BY DEF IndInv, TypeOK, CompletionSound, Finished
<1>4. QueueInv' /\ HoldInv' /\ BatchInv'
  BY DEF IndInv, QueueInv, HoldInv, BatchInv
<1>5. CacheInv' /\ HeldInv' /\ OwnInv'
  BY DEF IndInv, CacheInv, HeldInv, OwnInv, Emptied
<1>6. CounterExact'
  BY DEF IndInv, CounterExact, Outstanding
<1> QED BY <1>1, <1>2, <1>3, <1>4, <1>5, <1>6 DEF IndInv

(* tu_tm_fini is called after the wait, when nothing is left to execute. *)
LEMMA MainFiniInv ==
  ASSUME IndInv, MainFini
  PROVE  IndInv'
<1> USE DEF MainFini
<1>1. TypeOK'
  BY DEF IndInv, TypeOK, GQ!QueueTypeOK, SQ!QueueTypeOK, GQ!Status, SQ!Status,
         MainPC, WorkerPC
<1>2. PushInv'
  BY DEF IndInv, TypeOK, PushInv
<1>3. CompletionSound'
  BY DEF IndInv, TypeOK, CompletionSound, Finished
<1>4. QueueInv' /\ HoldInv' /\ BatchInv'
  BY DEF IndInv, QueueInv, HoldInv, BatchInv
<1>5. CacheInv' /\ HeldInv' /\ OwnInv'
  BY DEF IndInv, CacheInv, HeldInv, OwnInv, Emptied
<1>6. CounterExact'
  BY DEF IndInv, CounterExact, Outstanding
<1> QED BY <1>1, <1>2, <1>3, <1>4, <1>5, <1>6 DEF IndInv

(* Setting a can_terminate flag moves no operation. *)
LEMMA SetTerminateInv ==
  ASSUME IndInv, NEW w \in Worker, SetTerminate(w)
  PROVE  IndInv'
<1> USE DEF SetTerminate
<1>1. TypeOK'
  BY DEF IndInv, TypeOK, GQ!QueueTypeOK, SQ!QueueTypeOK, GQ!Status, SQ!Status,
         MainPC, WorkerPC
<1>2. PushInv'
  BY DEF IndInv, TypeOK, PushInv
<1>3. CompletionSound'
  BY DEF IndInv, TypeOK, CompletionSound, Finished
<1>4. QueueInv' /\ HoldInv' /\ BatchInv'
  BY DEF IndInv, QueueInv, HoldInv, BatchInv
<1>5. CacheInv' /\ HeldInv' /\ OwnInv'
  BY DEF IndInv, CacheInv, HeldInv, OwnInv, Emptied
<1>6. CounterExact'
  BY DEF IndInv, CounterExact, Outstanding
<1> QED BY <1>1, <1>2, <1>3, <1>4, <1>5, <1>6 DEF IndInv

(* Nor do the tokens that let the workers terminate. *)
LEMMA ReleaseAllInv ==
  ASSUME IndInv, ReleaseAll
  PROVE  IndInv'
<1> DEFINE n == Cardinality(Members(mi))
<1>a. n \in Nat
  <2>1. IsFiniteSet(Worker) /\ Members(mi) \subseteq Worker
    BY ConstantsAssumption, FS_Interval DEF Members
  <2> QED BY <2>1, FS_Subset, FS_CardinalityType
<1>b. /\ mpc = "release" /\ mpc' = "join" /\ mi' = mi
      /\ sem' = [sem EXCEPT ![mi] = @ + n]
      /\ UNCHANGED <<phase, counter, flagVars, pushVars, threadVars>>
  BY DEF ReleaseAll
<1> HIDE DEF n
<1>1. TypeOK'
  <2>1. sem' \in [Group -> Nat]
    <3>1. CASE mi \in Group
      BY <1>a, <1>b, <3>1 DEF IndInv, TypeOK
    <3>2. CASE mi \notin Group
      BY <1>b, <3>2 DEF IndInv, TypeOK
    <3> QED BY <3>1, <3>2
  <2> QED BY <1>b, <2>1 DEF IndInv, TypeOK, MainPC, GQ!QueueTypeOK,
                            SQ!QueueTypeOK
<1>2. PushInv'
  BY <1>b DEF IndInv, PushInv
<1>3. CompletionSound'
  BY <1>b DEF IndInv, CompletionSound, Finished
<1>4. QueueInv' /\ HoldInv' /\ BatchInv'
  BY <1>b DEF IndInv, QueueInv, HoldInv, BatchInv
<1>5. CacheInv' /\ HeldInv' /\ OwnInv'
  BY <1>b DEF IndInv, CacheInv, HeldInv, OwnInv, Emptied
<1>6. CounterExact'
  BY <1>b DEF IndInv, CounterExact, Outstanding
<1> QED BY <1>1, <1>2, <1>3, <1>4, <1>5, <1>6 DEF IndInv

(* Nor does joining them. *)
LEMMA JoinAllInv ==
  ASSUME IndInv, JoinAll
  PROVE  IndInv'
<1> USE DEF JoinAll
<1>1. TypeOK'
  BY DEF IndInv, TypeOK, GQ!QueueTypeOK, SQ!QueueTypeOK, GQ!Status, SQ!Status,
         MainPC, WorkerPC
<1>2. PushInv'
  BY DEF IndInv, TypeOK, PushInv
<1>3. CompletionSound'
  BY DEF IndInv, TypeOK, CompletionSound, Finished
<1>4. QueueInv' /\ HoldInv' /\ BatchInv'
  BY DEF IndInv, QueueInv, HoldInv, BatchInv
<1>5. CacheInv' /\ HeldInv' /\ OwnInv'
  BY DEF IndInv, CacheInv, HeldInv, OwnInv, Emptied
<1>6. CounterExact'
  BY DEF IndInv, CounterExact, Outstanding
<1> QED BY <1>1, <1>2, <1>3, <1>4, <1>5, <1>6 DEF IndInv

-----------------------------------------------------------------------------
(* The initial states satisfy the invariant: nothing has been pushed and   *)
(* every worker is parked.                                                 *)
LEMMA InitInv ==
  ASSUME Init
  PROVE  IndInv
<1>1. TypeOK
  BY DEF Init, TypeOK, GQ!QueueInit, SQ!QueueInit, GQ!QueueTypeOK,
         SQ!QueueTypeOK, GQ!Status, SQ!Status, MainPC, WorkerPC
<1>2. PushInv /\ QueueInv /\ HoldInv /\ HeldInv /\ OwnInv
  BY ConstantsAssumption
     DEF Init, PushInv, QueueInv, HoldInv, HeldInv, OwnInv, GQ!QueueInit,
         SQ!QueueInit, StateOp
<1>3. BatchInv
  BY FS_EmptySet DEF Init, BatchInv
<1>4. CacheInv
  BY DEF Init, CacheInv, Emptied
<1>5. CounterExact
  <2>1. Outstanding = {}
    BY DEF Init, Outstanding
  <2> QED BY <2>1, FS_EmptySet DEF Init, CounterExact
<1>6. CompletionSound
  BY DEF Init, CompletionSound, Finished
<1> QED BY <1>1, <1>2, <1>3, <1>4, <1>5, <1>6 DEF IndInv

(* A step that changes no variable preserves it. *)
LEMMA StutterInv ==
  ASSUME IndInv, UNCHANGED vars
  PROVE  IndInv'
<1> USE DEF vars
<1>1. TypeOK'
  BY DEF IndInv, TypeOK, GQ!QueueTypeOK, SQ!QueueTypeOK, GQ!Status, SQ!Status,
         MainPC, WorkerPC
<1>2. PushInv' /\ QueueInv' /\ HoldInv'
  BY DEF IndInv, PushInv, QueueInv, HoldInv
<1>3. BatchInv' /\ CacheInv' /\ HeldInv' /\ OwnInv'
  BY DEF IndInv, BatchInv, CacheInv, HeldInv, OwnInv, Emptied
<1>4. CounterExact' /\ CompletionSound'
  BY DEF IndInv, CounterExact, CompletionSound, Outstanding, Finished
<1> QED BY <1>1, <1>2, <1>3, <1>4 DEF IndInv

(* A call of tu_tm_push_op preserves it, in any thread. *)
LEMMA PushOpInv ==
  ASSUME IndInv, NEW t \in Thread, PushOp(t)
  PROVE  IndInv'
BY CountOpInv, ClaimOpInv, PublishOpInv, ReleaseTokenInv DEF PushOp

(* So does every step of a worker: inside the operation it executes, in    *)
(* worker_run, and with the queues of its group and of the states.         *)
LEMMA WorkerStepInv ==
  ASSUME IndInv, NEW w \in Worker, WorkerStep(w)
  PROVE  IndInv'
<1>1. CASE PushOp(w)
  <2>1. w \in Thread
    OBVIOUS
  <2> QED BY <1>1, <2>1, PushOpInv
<1>2. CASE Exec(w)
  BY <1>2, ExecPushOpInv, ExecCacheTaskInv, ExecEvictTaskInv, ExecReturnInv,
     CachedReturnInv DEF Exec
<1>3. CASE Run(w)
  BY <1>3, ParkInv, NotifyAllInv, AcquireInv, CheckTerminateInv, UnparkInv
     DEF Run
<1>4. CASE ProcessQueue(w)
  BY <1>4, GroupPopStartInv, GroupPopBlockedInv, GroupPopFailInv, TakeTaskInv,
     TakeStateOpInv, CachePopInv, CacheEmptyInv, SettleInv DEF ProcessQueue
<1>5. CASE ProcessState(w)
  BY <1>5, StateClaimInv, StatePublishInv, StateEnterInv, StateHandOverInv,
     StatePopStartInv, StatePopBlockedInv, StatePopFailInv, StatePopTakeInv,
     StateLeaveInv, StateContinueInv DEF ProcessState
<1> QED BY <1>1, <1>2, <1>3, <1>4, <1>5 DEF WorkerStep

(* IndInv is inductive: the other steps are those of the main thread. *)
LEMMA NextInv ==
  ASSUME IndInv, [Next]_vars
  PROVE  IndInv'
<1>1. CASE \E w \in Worker : WorkerStep(w)
  BY <1>1, WorkerStepInv
<1>2. CASE MainStep
  <2>1. CASE PushOp(Main)
    <3>1. Main \in Thread
      OBVIOUS
    <3> QED BY <2>1, <3>1, PushOpInv
  <2>2. CASE ~ PushOp(Main)
    BY <1>2, <2>2, CheckParkedInv, CheckCounterInv, BlockInv, SetTerminateInv,
       ReleaseAllInv, JoinAllInv DEF MainStep
  <2> QED BY <2>1, <2>2
<1>3. CASE UserStep
  BY <1>3, MainPushInv, MainWaitInv, MainAgainInv, MainFiniInv DEF UserStep
<1>4. CASE SpuriousWakeup
  BY <1>4, SpuriousWakeupInv
<1>5. CASE Terminated \/ UNCHANGED vars
  BY <1>5, StutterInv DEF Terminated
<1> QED BY <1>1, <1>2, <1>3, <1>4, <1>5 DEF Next

(* The inductive invariant holds in every reachable state. *)
THEOREM Invariance == Spec => []IndInv
<1>1. Init => IndInv
  BY InitInv
<1>2. IndInv /\ [Next]_vars => IndInv'
  BY NextInv
<1> QED BY <1>1, <1>2, PTL DEF Spec

(* Every variable keeps its type. *)
THEOREM TypeCorrect == Spec => []TypeOK
<1>1. IndInv => TypeOK
  BY DEF IndInv
<1> QED BY <1>1, Invariance, PTL

(* operation_counter is, at every moment, the number of operations that    *)
(* have been counted and not discharged, whichever threads they went       *)
(* through: the assertion that the counter is not negative                 *)
(* (task_manager.cpp:266) never fails.                                     *)
THEOREM CounterIsExact == Spec => []CounterExact
<1>1. IndInv => CounterExact
  BY DEF IndInv
<1> QED BY <1>1, Invariance, PTL

(* Two workers never execute operations of the same state at a time, with  *)
(* any number of workers and states: the counter of the state does the     *)
(* work of a lock.                                                         *)
THEOREM StatesAreExclusive == Spec => []StateExclusive
<1>1. IndInv => StateExclusive
  BY DEF IndInv, OwnInv, StateExclusive
<1> QED BY <1>1, Invariance, PTL

(* When tu_tm_wait_completion returns, everything that was pushed,         *)
(* directly or by executed operations, has been executed, although the     *)
(* parked flags are read one by one and cached tasks are not counted.      *)
THEOREM CompletionIsSound == Spec => []CompletionSound
<1>1. IndInv => CompletionSound
  BY DEF IndInv
<1> QED BY <1>1, Invariance, PTL

-----------------------------------------------------------------------------
(* Who will see to what is in the queues.  IndInv is known to hold before    *)
(* the steps below.                                                          *)

Sleepless == Awake \ {"popping"}

(* The part of the invariant about pops is not disturbed by a step that      *)
(* changes neither the queues of the groups nor who has claimed a slot.      *)
LEMMA PopKept ==
  ASSUME PopInv, gstatus' = gstatus, gon' = gon, gblocked' = gblocked,
         \A t \in Thread : push[t] = "publish" =>
           push'[t] = "publish" /\ arg'[t] = arg[t],
         \A w \in Worker : pc'[w] = "popping" <=> pc[w] = "popping",
         canTerminate' = canTerminate,
         mpc \in Finished \ {"returned"} => mpc' \in Finished \ {"returned"}
  PROVE  PopInv'
BY DEF PopInv

(* Nor is what is said of the queues of the groups by a step that takes no   *)
(* token and in which no worker goes to sleep or ends a pop.                 *)
LEMMA GroupServiceKept ==
  ASSUME GroupServiceInv, gstatus' = gstatus, gmust' = gmust, gblocked' = gblocked,
         \A g \in Group : sem[g] > 0 => sem'[g] > 0,
         \A t \in Thread : push[t] \in {"publish", "release"} =>
           push'[t] \in {"publish", "release"} /\ arg'[t] = arg[t],
         \A w \in Worker : pc[w] \in Sleepless => pc'[w] \in Sleepless,
         \A w \in Worker : pc[w] = "popping" => pc'[w] = "popping"
  PROVE  GroupServiceInv'
<1>1. ASSUME NEW g \in Group, Expected(g)
      PROVE  Expected(g)'
  BY <1>1 DEF Expected, Members, Sleepless
<1>2. ASSUME NEW o \in Op, NEW w \in Worker, SeenBy(w, o)
      PROVE  SeenBy(w, o)'
  BY <1>2 DEF SeenBy
<1>3. \A o \in Op : GroupOf[o] \in Group
  BY ConstantsAssumption
<1> QED BY <1>1, <1>2, <1>3 DEF GroupServiceInv, Members

(* Nor is what the counters of the states count by a step that changes       *)
(* neither the counters, the queues nor the owners of the states.            *)
LEMMA StateServiceKept ==
  ASSUME StateServiceInv, sstatus' = sstatus, stateCnt' = stateCnt, own' = own,
         \A w \in Worker : pc'[w] = "sadd" <=> pc[w] = "sadd",
         \A w \in Worker : pc[w] = "sadd" => cur'[w] = cur[w],
         \A w \in Worker : own[w] # NoState =>
           (pc'[w] \in {"exec", "ssub"} <=> pc[w] \in {"exec", "ssub"})
  PROVE  StateServiceInv'
<1>1. NoState \notin State
  BY ConstantsAssumption
<1>2. ASSUME NEW s \in State
      PROVE  /\ Adding(s)' = Adding(s) /\ Executing(s)' = Executing(s)
             /\ SQ!Inside(s, "ready")' = SQ!Inside(s, "ready")
  BY <1>1 DEF Adding, Executing, SQ!Inside
<1> QED BY <1>2 DEF StateServiceInv

(* The sets that are counted are finite.                                     *)
LEMMA ServiceFinite ==
  ASSUME NEW s
  PROVE  /\ IsFiniteSet(Adding(s)) /\ IsFiniteSet(Executing(s))
         /\ IsFiniteSet(SQ!Inside(s, "ready"))
         /\ Cardinality(Adding(s)) \in Nat /\ Cardinality(Executing(s)) \in Nat
         /\ Cardinality(SQ!Inside(s, "ready")) \in Nat
<1>1. IsFiniteSet(Worker)
  BY ConstantsAssumption, FS_Interval
<1>2. Adding(s) \subseteq Worker /\ Executing(s) \subseteq Worker
      /\ SQ!Inside(s, "ready") \subseteq Op
  BY DEF Adding, Executing, SQ!Inside, StateOp
<1>3. IsFiniteSet(Adding(s)) /\ IsFiniteSet(Executing(s))
      /\ IsFiniteSet(SQ!Inside(s, "ready"))
  BY <1>1, <1>2, FS_Subset, ConstantsAssumption
<1> QED BY <1>3, FS_CardinalityType

(* A step that does none of this preserves the three parts.                  *)
QuietStep ==
  /\ UNCHANGED <<gstatus, gon, gmust, gblocked, sstatus, stateCnt, own, canTerminate>>
  /\ mpc \in Finished \ {"returned"} => mpc' \in Finished \ {"returned"}
  /\ \A g \in Group : sem[g] > 0 => sem'[g] > 0
  /\ \A t \in Thread : push[t] \in {"publish", "release"} =>
       push'[t] = push[t] /\ arg'[t] = arg[t]
  /\ \A w \in Worker :
       /\ pc'[w] = "popping" <=> pc[w] = "popping"
       /\ pc[w] \in Sleepless => pc'[w] \in Sleepless
       /\ pc'[w] = "sadd" <=> pc[w] = "sadd"
       /\ pc[w] = "sadd" => cur'[w] = cur[w]
       /\ own[w] # NoState => (pc'[w] \in {"exec", "ssub"} <=> pc[w] \in {"exec", "ssub"})

LEMMA QuietService ==
  ASSUME ServiceInv, QuietStep
  PROVE  ServiceInv'
<1>1. PopInv'
  BY PopKept DEF ServiceInv, QuietStep
<1>2. GroupServiceInv'
  BY GroupServiceKept DEF ServiceInv, QuietStep
<1>3. StateServiceInv'
  BY StateServiceKept DEF ServiceInv, QuietStep
<1> QED BY <1>1, <1>2, <1>3 DEF ServiceInv

(* The steps of an executed operation are quiet: its worker stays awake and  *)
(* has no push to release.                                                   *)
LEMMA ExecQuiet ==
  ASSUME IndInv, NEW w \in Worker, Exec(w)
  PROVE  QuietStep
<1> USE DEF IndInv, TypeOK, QuietStep, Sleepless, Awake
<1>1. ASSUME NEW o \in Op, ExecPushOp(w, o) \/ ExecCacheTask(w, o) \/ ExecEvictTask(w, o)
      PROVE  QuietStep
  BY <1>1 DEF ExecPushOp, ExecCacheTask, ExecEvictTask, OwnTask
<1>2. CASE ExecReturn(w)
  BY <1>2 DEF ExecReturn
<1>3. CASE CachedReturn(w)
  BY <1>3 DEF CachedReturn, OwnInv
<1> QED BY <1>1, <1>2, <1>3 DEF Exec

(* So are those of worker_run, but for the two in which a token is consumed  *)
(* or the worker ends, ...                                                   *)
LEMMA RunQuiet ==
  ASSUME IndInv, NEW w \in Worker, Park(w) \/ NotifyAll(w) \/ Unpark(w)
  PROVE  QuietStep
BY DEF IndInv, TypeOK, QuietStep, Sleepless, Awake, Finished, Park, NotifyAll, Unpark

(* ... those with the cache, and the reduction of operation_counter by a     *)
(* worker that has already given up, ...                                     *)
LEMMA CacheQuiet ==
  ASSUME IndInv, NEW w \in Worker, CachePop(w) \/ CacheEmpty(w) \/ Settle(w)
  PROVE  QuietStep
<1> USE DEF IndInv, TypeOK, QuietStep, Sleepless, Awake
<1>1. CASE CachePop(w)
  BY <1>1 DEF CachePop, OwnInv
<1>2. CASE CacheEmpty(w)
  BY <1>2 DEF CacheEmpty, OwnInv
<1>3. CASE Settle(w)
  BY <1>3 DEF Settle, OwnInv
<1> QED BY <1>1, <1>2, <1>3

(* ... those of an owner that finds nothing, ...                             *)
LEMMA StatePopQuiet ==
  ASSUME IndInv, NEW w \in Worker,
         StatePopStart(w) \/ StatePopBlocked(w) \/ StatePopFail(w)
  PROVE  QuietStep
BY DEF IndInv, TypeOK, QuietStep, Sleepless, Awake, StatePopStart, StatePopBlocked,
       StatePopFail, SQ!PopStart, SQ!PopBlocked, SQ!PopFail

(* (tu_tm_fini releases a number of tokens.)                                 *)
LEMMA MembersFinite ==
  ASSUME NEW g
  PROVE  Cardinality(Members(g)) \in Nat
<1>1. IsFiniteSet(Worker)
  BY ConstantsAssumption, FS_Interval
<1>2. Members(g) \in SUBSET Worker
  BY DEF Members
<1> QED BY <1>1, <1>2, FS_Subset, FS_CardinalityType

(* ... and those of the thread that owns the task manager, but for the       *)
(* flags of the workers.                                                     *)
LEMMA MainQuiet ==
  ASSUME IndInv,
         \/ UserStep \/ SpuriousWakeup \/ CheckParked \/ CheckCounter \/ Block
         \/ ReleaseAll \/ JoinAll
  PROVE  QuietStep
<1> USE DEF IndInv, TypeOK, QuietStep, Sleepless, Finished
<1>1. ASSUME NEW o \in Op, MainPush(o)
      PROVE  QuietStep
  BY <1>1 DEF MainPush
<1>2. CASE ReleaseAll
  <2>1. Cardinality(Members(mi)) \in Nat
    BY MembersFinite
  <2>2. \A g \in Group : sem[g] > 0 => sem'[g] > 0
    BY <1>2, <2>1 DEF ReleaseAll
  <2> QED BY <1>2, <2>2 DEF ReleaseAll
<1>3. CASE MainWait \/ MainAgain \/ MainFini \/ SpuriousWakeup \/ CheckParked
           \/ CheckCounter \/ Block \/ JoinAll
  BY <1>3 DEF MainWait, MainAgain, MainFini, SpuriousWakeup, CheckParked,
              CheckCounter, Block, JoinAll
<1> QED BY <1>1, <1>2, <1>3 DEF UserStep

(* A push counts the operation, claims a slot, publishes, and releases its   *)
(* token: from the claim on the group can expect the token.                  *)
LEMMA PushService ==
  ASSUME IndInv, ServiceInv, NEW t \in Thread, PushOp(t)
  PROVE  ServiceInv'
<1>0. PopInv /\ GroupServiceInv /\ StateServiceInv
  BY DEF ServiceInv
<1>1. CASE CountOp(t)
  <2>1. QuietStep
    BY <1>1 DEF CountOp, QuietStep, IndInv, TypeOK
  <2> QED BY <2>1, QuietService
<1>2. CASE ClaimOp(t) \/ PublishOp(t) \/ ReleaseToken(t)
  <2>1. StateServiceInv'
    BY <1>0, <1>2, StateServiceKept DEF ClaimOp, PublishOp, ReleaseToken
  <2>2. arg[t] \in Op /\ GroupOf[arg[t]] \in Group
    BY <1>2, ConstantsAssumption DEF IndInv, PushInv, Busy, ClaimOp, PublishOp, ReleaseToken
  <2>3. CASE ClaimOp(t)
    <3>1. /\ gstatus[arg[t]] = "out" /\ gstatus'[arg[t]] = "claimed"
          /\ \A o \in Op : o # arg[t] => gstatus'[o] = gstatus[o]
          /\ push[t] = "push" /\ push'[t] = "publish"
          /\ \A u \in Thread : u # t => push'[u] = push[u]
          /\ UNCHANGED <<arg, gon, gmust, gblocked, pc, sem, canTerminate, mpc>>
      BY <2>2, <2>3 DEF ClaimOp, GQ!PushClaim, GQ!popVars, GQ!QueueTypeOK, IndInv, TypeOK
    <3>2. PopInv'
      <4>1. ASSUME NEW o \in Op, gstatus'[o] = "claimed"
            PROVE  \E u \in Thread : push'[u] = "publish" /\ arg'[u] = o
        <5>1. CASE o = arg[t]
          BY <3>1, <5>1
        <5>2. CASE o # arg[t]
          <6>1. PICK u \in Thread : push[u] = "publish" /\ arg[u] = o
            BY <1>0, <3>1, <4>1, <5>2 DEF PopInv
          <6>2. u # t
            BY <3>1, <6>1
          <6> QED BY <3>1, <6>1, <6>2
        <5> QED BY <5>1, <5>2
      <4> QED BY <1>0, <3>1, <4>1 DEF PopInv
    <3>3. ASSUME NEW g \in Group, Expected(g)
          PROVE  Expected(g)'
      BY <3>1, <3>3 DEF Expected, Members
    <3>4. GroupServiceInv'
      BY <3>1, <3>3, <1>0, ConstantsAssumption DEF GroupServiceInv, SeenBy, Members
    <3> QED BY <2>1, <3>2, <3>4 DEF ServiceInv
  <2>4. CASE PublishOp(t)
    <3>1. /\ gstatus'[arg[t]] = "ready"
          /\ \A o \in Op : o # arg[t] => gstatus'[o] = gstatus[o]
          /\ push'[t] = "release"
          /\ \A u \in Thread : u # t => push'[u] = push[u]
          /\ UNCHANGED <<arg, gon, gmust, gblocked, pc, sem, canTerminate, mpc>>
      BY <2>2, <2>4 DEF PublishOp, GQ!PushPublish, GQ!popVars, GQ!QueueTypeOK, IndInv, TypeOK
    <3>2. PopInv'
      <4>1. ASSUME NEW o \in Op, gstatus'[o] = "claimed"
            PROVE  \E u \in Thread : push'[u] = "publish" /\ arg'[u] = o
        <5>1. o # arg[t] /\ gstatus[o] = "claimed"
          BY <3>1, <4>1
        <5>2. PICK u \in Thread : push[u] = "publish" /\ arg[u] = o
          BY <1>0, <5>1 DEF PopInv
        <5> QED BY <3>1, <5>1, <5>2
      <4> QED BY <1>0, <3>1, <4>1 DEF PopInv
    <3>3. ASSUME NEW g \in Group, Expected(g)
          PROVE  Expected(g)'
      BY <3>1, <3>3 DEF Expected, Members
    <3>4. Expected(GroupOf[arg[t]])'
      BY <3>1 DEF Expected
    <3>5. GroupServiceInv'
      BY <3>1, <3>3, <3>4, <1>0, ConstantsAssumption DEF GroupServiceInv, SeenBy, Members
    <3> QED BY <2>1, <3>2, <3>5 DEF ServiceInv
  <2>5. CASE ReleaseToken(t)
    <3>1. /\ sem'[GroupOf[arg[t]]] > 0
          /\ \A g \in Group : sem[g] > 0 => sem'[g] > 0
          /\ push[t] = "release" /\ push'[t] = "idle"
          /\ \A u \in Thread : u # t => push'[u] = push[u] /\ arg'[u] = arg[u]
          /\ UNCHANGED <<gstatus, gon, gmust, gblocked, pc, canTerminate, mpc>>
      BY <2>2, <2>5 DEF ReleaseToken, IndInv, TypeOK
    <3>2. PopInv'
      <4>1. \A u \in Thread : push[u] = "publish" => push'[u] = "publish" /\ arg'[u] = arg[u]
        BY <3>1
      <4> QED BY <1>0, <3>1, <4>1, PopKept
    <3>3. ASSUME NEW g \in Group, Expected(g)
          PROVE  Expected(g)'
      BY <3>1, <3>3 DEF Expected, Members
    <3>4. GroupServiceInv'
      BY <3>1, <3>3, <1>0, ConstantsAssumption DEF GroupServiceInv, SeenBy, Members
    <3> QED BY <2>1, <3>2, <3>4 DEF ServiceInv
  <2> QED BY <1>2, <2>3, <2>4, <2>5
<1> QED BY <1>1, <1>2 DEF PushOp

(* The worker that takes a token is awake in its place, ...                  *)
LEMMA AcquireService ==
  ASSUME IndInv, ServiceInv, NEW w \in Worker, Acquire(w)
  PROVE  ServiceInv'
<1> USE DEF IndInv, TypeOK, ServiceInv
<1>0. GroupOfWorker[w] \in Group
  BY ConstantsAssumption
<1>1. /\ pc[w] = "acquire" /\ pc'[w] = "check"
      /\ \A v \in Worker : v # w => pc'[v] = pc[v]
      /\ \A g \in Group : g # GroupOfWorker[w] => sem'[g] = sem[g]
      /\ UNCHANGED <<gstatus, gon, gmust, gblocked, push, arg, canTerminate, mpc,
                     sstatus, stateCnt, own, cur>>
  BY <1>0 DEF Acquire
<1>2. PopInv'
  BY <1>1, PopKept
<1>3. StateServiceInv'
  BY <1>1, StateServiceKept
<1>4. Expected(GroupOfWorker[w])'
  BY <1>1 DEF Expected, Members, Awake
<1>5. ASSUME NEW g \in Group, g # GroupOfWorker[w], Expected(g)
      PROVE  Expected(g)'
  BY <1>1, <1>5 DEF Expected, Members
<1>6. GroupServiceInv'
  BY <1>1, <1>4, <1>5, ConstantsAssumption DEF GroupServiceInv, SeenBy, Members
<1> QED BY <1>2, <1>3, <1>6

(* ... and ends only when nothing can be in a queue any more: tu_tm_fini is  *)
(* called after a wait.                                                      *)
LEMMA CheckTerminateService ==
  ASSUME IndInv, ServiceInv, NEW w \in Worker, CheckTerminate(w)
  PROVE  ServiceInv'
<1> USE DEF IndInv, TypeOK, ServiceInv
<1>1. CASE canTerminate[w]
  <2>1. \A o \in Op : gstatus[o] # "ready"
    BY <1>1 DEF PopInv, CompletionSound, QueueInv
  <2>2. GroupServiceInv'
    BY <2>1 DEF GroupServiceInv, CheckTerminate
  <2>3. PopInv'
    BY PopKept DEF CheckTerminate
  <2>4. StateServiceInv'
    BY StateServiceKept DEF CheckTerminate
  <2> QED BY <2>2, <2>3, <2>4
<1>2. CASE ~ canTerminate[w]
  <2>1. QuietStep
    BY <1>2 DEF CheckTerminate, QuietStep, Sleepless, Awake
  <2> QED BY <2>1, QuietService
<1> QED BY <1>1, <1>2

(* A pop that begins sees every operation that is available.                 *)
LEMMA GroupPopStartService ==
  ASSUME IndInv, ServiceInv, NEW w \in Worker, GroupPopStart(w)
  PROVE  ServiceInv'
<1>0. PopInv /\ GroupServiceInv /\ StateServiceInv
  BY DEF ServiceInv
<1>1. /\ pc[w] = "pop" /\ pc'[w] = "popping"
      /\ \A v \in Worker : v # w => pc'[v] = pc[v] /\ gmust'[v] = gmust[v]
                                    /\ gon'[v] = gon[v]
      /\ gon'[w] = GroupOfWorker[w]
      /\ gmust'[w] = {o \in Op : GroupOf[o] = GroupOfWorker[w] /\ gstatus[o] = "ready"}
      /\ UNCHANGED <<gstatus, gblocked, push, arg, sem, canTerminate, mpc, sstatus,
                     stateCnt, own, cur>>
  BY DEF GroupPopStart, GQ!PopStart, GQ!Inside, GQ!QueueTypeOK, IndInv, TypeOK
<1>2. ~ gblocked[w]
  BY <1>0, <1>1 DEF PopInv
<1>3. PopInv'
  BY <1>0, <1>1 DEF PopInv
<1>4. StateServiceInv'
  BY <1>0, <1>1, StateServiceKept
<1>5. ASSUME NEW g \in Group, g # GroupOfWorker[w], Expected(g)
      PROVE  Expected(g)'
  BY <1>1, <1>5 DEF Expected, Members
<1>6. ASSUME NEW o \in Op, gstatus'[o] = "ready"
      PROVE  Expected(GroupOf[o])' \/ \E v \in Members(GroupOf[o]) : SeenBy(v, o)'
  <2>1. CASE GroupOf[o] = GroupOfWorker[w]
    BY <1>1, <1>2, <1>6, <2>1 DEF SeenBy, Members
  <2>2. CASE GroupOf[o] # GroupOfWorker[w]
    BY <1>0, <1>1, <1>5, <1>6, <2>2, ConstantsAssumption
       DEF GroupServiceInv, SeenBy, Members
  <2> QED BY <2>1, <2>2
<1>7. GroupServiceInv'
  BY <1>6 DEF GroupServiceInv, Members
<1> QED BY <1>3, <1>4, <1>7 DEF ServiceInv

(* A pop that meets a claimed slot may fail: the thread that has claimed it  *)
(* has its token still to release.                                           *)
LEMMA GroupPopBlockedService ==
  ASSUME IndInv, ServiceInv, NEW w \in Worker, GroupPopBlocked(w)
  PROVE  ServiceInv'
<1>0. PopInv /\ GroupServiceInv /\ StateServiceInv
  BY DEF ServiceInv
<1>1. /\ pc[w] = "popping"
      /\ \E o \in Op : GroupOf[o] = gon[w] /\ gstatus[o] = "claimed"
      /\ \A v \in Worker : v # w => gblocked'[v] = gblocked[v]
      /\ UNCHANGED <<gstatus, gon, gmust, push, arg, sem, canTerminate, mpc, sstatus,
                     stateCnt, own, cur, pc>>
  BY DEF GroupPopBlocked, GQ!PopBlocked, GQ!Inside, GQ!QueueTypeOK, IndInv, TypeOK,
         workerVars, pushVars
<1>2. PopInv'
  BY <1>0, <1>1 DEF PopInv
<1>3. StateServiceInv'
  BY <1>0, <1>1, StateServiceKept
<1>4. Expected(GroupOfWorker[w])'
  <2>1. PICK o \in Op : GroupOf[o] = GroupOfWorker[w] /\ gstatus[o] = "claimed"
    BY <1>0, <1>1 DEF PopInv
  <2>2. PICK t \in Thread : push[t] = "publish" /\ arg[t] = o
    BY <1>0, <2>1 DEF PopInv
  <2> QED BY <1>1, <2>1, <2>2 DEF Expected
<1>5. ASSUME NEW g \in Group, Expected(g)
      PROVE  Expected(g)'
  BY <1>1, <1>5 DEF Expected, Members
<1>6. GroupServiceInv'
  BY <1>0, <1>1, <1>4, <1>5, ConstantsAssumption DEF GroupServiceInv, SeenBy, Members
<1> QED BY <1>2, <1>3, <1>6 DEF ServiceInv

(* The worker that takes an operation will pop again.                        *)
LEMMA TakeService ==
  ASSUME IndInv, ServiceInv, NEW w \in Worker, NEW o \in Op,
         TakeTask(w, o) \/ TakeStateOp(w, o)
  PROVE  ServiceInv'
<1>0. PopInv /\ GroupServiceInv /\ StateServiceInv
  BY DEF ServiceInv
<1>a. /\ GQ!PopTake(w, o) /\ pc[w] = "popping"
      /\ pc' = [pc EXCEPT ![w] = "exec"] \/ pc' = [pc EXCEPT ![w] = "spush"]
      /\ cur' = [cur EXCEPT ![w] = o]
      /\ UNCHANGED <<push, arg, sem, canTerminate, mpc, sstatus, stateCnt, own>>
  BY DEF TakeTask, TakeStateOp
<1>b. /\ gstatus[o] = "ready" /\ gstatus'[o] = "out" /\ ~ gblocked'[w]
      /\ \A p \in Op : p # o => gstatus'[p] = gstatus[p]
      /\ \A v \in Worker : v # w =>
           /\ gmust'[v] = gmust[v] \ {o}
           /\ gon'[v] = gon[v] /\ gblocked'[v] = gblocked[v]
  BY <1>a DEF GQ!PopTake, GQ!PopEnd, GQ!QueueTypeOK, IndInv, TypeOK
<1>1. /\ pc[w] = "popping" /\ pc'[w] \in {"exec", "spush"}
      /\ \A v \in Worker : v # w => pc'[v] = pc[v] /\ cur'[v] = cur[v]
      /\ UNCHANGED <<push, arg, sem, canTerminate, mpc, sstatus, stateCnt, own>>
  BY <1>a DEF IndInv, TypeOK
<1>2. PopInv'
  BY <1>0, <1>1, <1>b DEF PopInv
<1>3. StateServiceInv'
  <2>1. own[w] = NoState
    BY <1>1 DEF IndInv, OwnInv
  <2> QED BY <1>0, <1>1, <2>1, StateServiceKept
<1>4. Expected(GroupOfWorker[w])'
  BY <1>1 DEF Expected, Members, Awake
<1>5. ASSUME NEW g \in Group, g # GroupOfWorker[w], Expected(g)
      PROVE  Expected(g)'
  BY <1>1, <1>5 DEF Expected, Members
<1>6. ASSUME NEW p \in Op, gstatus'[p] = "ready"
      PROVE  Expected(GroupOf[p])' \/ \E v \in Members(GroupOf[p]) : SeenBy(v, p)'
  <2>1. p # o /\ gstatus[p] = "ready" /\ GroupOf[p] \in Group
    BY <1>b, <1>6, ConstantsAssumption
  <2>2. CASE GroupOf[p] = GroupOfWorker[w]
    BY <1>4, <2>2
  <2>3. CASE GroupOf[p] # GroupOfWorker[w] /\ Expected(GroupOf[p])
    BY <1>5, <2>1, <2>3
  <2>4. CASE /\ GroupOf[p] # GroupOfWorker[w]
             /\ \E v \in Members(GroupOf[p]) : SeenBy(v, p)
    BY <1>1, <1>b, <2>1, <2>4 DEF SeenBy, Members
  <2> QED BY <1>0, <2>1, <2>2, <2>3, <2>4 DEF GroupServiceInv
<1>7. GroupServiceInv'
  BY <1>6 DEF GroupServiceInv, Members
<1> QED BY <1>2, <1>3, <1>7 DEF ServiceInv

(* A pop that fails has seen every operation it had to see taken, or a       *)
(* claimed slot: the worker was nobody's only hope.                          *)
LEMMA GroupPopFailService ==
  ASSUME IndInv, ServiceInv, NEW w \in Worker, GroupPopFail(w)
  PROVE  ServiceInv'
<1>0. PopInv /\ GroupServiceInv /\ StateServiceInv
  BY DEF ServiceInv
<1>1. /\ pc[w] = "popping" /\ pc'[w] = "settle"
      /\ gblocked[w] \/ gmust[w] = {}
      /\ \A v \in Worker : v # w =>
           /\ pc'[v] = pc[v] /\ gmust'[v] = gmust[v]
           /\ gon'[v] = gon[v] /\ gblocked'[v] = gblocked[v]
      /\ ~ gblocked'[w]
      /\ UNCHANGED <<gstatus, push, arg, sem, canTerminate, mpc, sstatus, stateCnt,
                     own, cur>>
  BY DEF GroupPopFail, GQ!PopFail, GQ!PopEnd, GQ!QueueTypeOK, IndInv, TypeOK
<1>2. PopInv'
  BY <1>0, <1>1 DEF PopInv
<1>3. StateServiceInv'
  <2>1. own[w] = NoState
    BY <1>1 DEF IndInv, OwnInv
  <2> QED BY <1>0, <1>1, <2>1, StateServiceKept
<1>4. ASSUME NEW g \in Group, Expected(g)
      PROVE  Expected(g)'
  BY <1>1, <1>4 DEF Expected, Members, Awake
<1>5. ASSUME NEW o \in Op, NEW v \in Worker, SeenBy(v, o)
      PROVE  SeenBy(v, o)'
  <2>1. v # w
    BY <1>1, <1>5 DEF SeenBy
  <2> QED BY <1>1, <1>5, <2>1 DEF SeenBy
<1>6. GroupServiceInv'
  BY <1>0, <1>1, <1>4, <1>5, ConstantsAssumption DEF GroupServiceInv, Members
<1> QED BY <1>2, <1>3, <1>6 DEF ServiceInv

(* What the steps with a state's queue leave alone.                          *)
LEMMA StateStepKeeps ==
  ASSUME IndInv, ServiceInv, NEW w \in Worker,
         \/ StateClaim(w) \/ StatePublish(w) \/ StateEnter(w) \/ StateHandOver(w)
         \/ \E o \in StateOp : StatePopTake(w, o)
         \/ StateLeave(w) \/ StateContinue(w)
  PROVE  PopInv' /\ GroupServiceInv'
<1>0. PopInv /\ GroupServiceInv
  BY DEF ServiceInv
<1>1. /\ pc[w] \in Sleepless /\ pc'[w] \in Sleepless
      /\ \A v \in Worker : v # w => pc'[v] = pc[v]
      /\ UNCHANGED <<gstatus, gon, gmust, gblocked, push, arg, sem, canTerminate, mpc>>
  BY DEF IndInv, TypeOK, Sleepless, Awake, StateClaim, StatePublish, StateEnter,
         StateHandOver, StateFetchAdd, StatePopTake, StateLeave, StateContinue,
         StateFetchSub
<1>2. \A v \in Worker : pc'[v] = "popping" <=> pc[v] = "popping"
  BY <1>1 DEF Sleepless
<1>3. PopInv'
  BY <1>0, <1>1, <1>2, PopKept
<1>4. GroupServiceInv'
  BY <1>0, <1>1, <1>2, GroupServiceKept
<1> QED BY <1>3, <1>4

(* What the counters of the states count: an operation is published before   *)
(* it is added, ...                                                          *)
LEMMA StatePublishService ==
  ASSUME IndInv, ServiceInv, NEW w \in Worker, StateClaim(w) \/ StatePublish(w)
  PROVE  StateServiceInv'
<1>0. StateServiceInv
  BY DEF ServiceInv
<1>1. cur[w] \in StateOp /\ own[w] = NoState
  BY DEF IndInv, HoldInv, OwnInv, StateClaim, StatePublish
<1>t. PICK t \in State : t = StateOf[cur[w]]
  BY <1>1, ConstantsAssumption DEF StateOp
<1>2. CASE StateClaim(w)
  <2>1. ASSUME NEW s \in State
        PROVE  /\ Adding(s)' = Adding(s) /\ Executing(s)' = Executing(s)
               /\ SQ!Inside(s, "ready")' = SQ!Inside(s, "ready")
    <3>1. /\ UNCHANGED <<own, cur>>
          /\ pc[w] = "spush" /\ pc' = [pc EXCEPT ![w] = "spublish"]
      BY <1>2 DEF StateClaim
    <3>2. \A o \in StateOp : sstatus'[o] = "ready" <=> sstatus[o] = "ready"
      BY <1>1, <1>2 DEF StateClaim, SQ!PushClaim, SQ!QueueTypeOK, IndInv, TypeOK
    <3>3. \A v \in Worker : /\ pc'[v] = "sadd" <=> pc[v] = "sadd"
                            /\ pc'[v] \in {"exec", "ssub"} <=> pc[v] \in {"exec", "ssub"}
      BY <3>1 DEF IndInv, TypeOK
    <3> QED BY <3>1, <3>2, <3>3 DEF Adding, Executing, SQ!Inside
  <2> QED BY <1>0, <1>2, <2>1 DEF StateServiceInv, StateClaim
<1>3. CASE StatePublish(w)
  <2>1. /\ UNCHANGED <<own, cur, stateCnt>>
        /\ pc[w] \in {"spush", "spublish"} /\ pc' = [pc EXCEPT ![w] = "sadd"]
        /\ sstatus[cur[w]] # "ready"
        /\ sstatus' = [sstatus EXCEPT ![cur[w]] = "ready"]
    BY <1>3 DEF StatePublish, SQ!PushPublish
  <2>2. /\ pc'[w] = "sadd" /\ sstatus'[cur[w]] = "ready"
        /\ \A v \in Worker : v # w => pc'[v] = pc[v]
        /\ \A o \in StateOp : o # cur[w] => sstatus'[o] = sstatus[o]
    BY <1>1, <2>1 DEF SQ!QueueTypeOK, IndInv, TypeOK
  <2>3. ASSUME NEW s \in State
        PROVE  Executing(s)' = Executing(s)
    BY <2>1, <2>2 DEF Executing
  <2>4. ASSUME NEW s \in State, s # t
        PROVE  Adding(s)' = Adding(s) /\ SQ!Inside(s, "ready")' = SQ!Inside(s, "ready")
    BY <1>t, <1>1, <2>1, <2>2, <2>4 DEF Adding, SQ!Inside
  <2>5. /\ Adding(t)' = Adding(t) \cup {w} /\ w \notin Adding(t)
        /\ SQ!Inside(t, "ready")' = SQ!Inside(t, "ready") \cup {cur[w]}
        /\ cur[w] \notin SQ!Inside(t, "ready")
    BY <1>t, <1>1, <2>1, <2>2 DEF Adding, SQ!Inside
  <2>6. /\ Cardinality(Adding(t)') = Cardinality(Adding(t)) + 1
        /\ Cardinality(SQ!Inside(t, "ready")') = Cardinality(SQ!Inside(t, "ready")) + 1
    BY <2>5, ServiceFinite, FS_AddElement
  <2>7. /\ \A s \in State : stateCnt[s] \in Int
        /\ \A s \in State : /\ Cardinality(Adding(s)) \in Nat
                            /\ Cardinality(SQ!Inside(s, "ready")) \in Nat
                            /\ Cardinality(Executing(s)) \in Nat
    BY ServiceFinite DEF IndInv, TypeOK
  <2>8. ASSUME NEW s \in State
        PROVE  /\ stateCnt[s] + Cardinality(Adding(s)') =
                    Cardinality(SQ!Inside(s, "ready")') + Cardinality(Executing(s)')
               /\ stateCnt[s] > 0 => \E v \in Worker : own[v] = s
    <3>1. CASE s = t
      BY <1>0, <2>3, <2>6, <2>7, <3>1 DEF StateServiceInv
    <3>2. CASE s # t
      BY <1>0, <2>3, <2>4, <2>7, <3>2 DEF StateServiceInv
    <3> QED BY <3>1, <3>2
  <2> QED BY <2>1, <2>8 DEF StateServiceInv
<1> QED BY <1>2, <1>3

(* ... its worker becomes the owner or finds one, ...                        *)
LEMMA StateEnterService ==
  ASSUME IndInv, ServiceInv, NEW w \in Worker, StateEnter(w) \/ StateHandOver(w)
  PROVE  StateServiceInv'
<1>0. StateServiceInv
  BY DEF ServiceInv
<1>a. cur[w] \in StateOp
  BY DEF IndInv, HoldInv, StateEnter, StateHandOver, StateFetchAdd
<1>t. PICK t \in State : t = StateOf[cur[w]]
  BY <1>a, ConstantsAssumption DEF StateOp
<1>1. /\ own[w] = NoState
      /\ \A s \in State : stateCnt[s] \in Int /\ stateCnt[s] >= 0
      /\ NoState \notin State
  BY ConstantsAssumption DEF IndInv, TypeOK, OwnInv, StateEnter, StateHandOver,
     StateFetchAdd
<1>2. /\ pc[w] = "sadd" /\ pc'[w] \in {"spop", "cache"}
      /\ \A v \in Worker : v # w => /\ pc'[v] = pc[v] /\ cur'[v] = cur[v]
                                    /\ own'[v] = own[v]
      /\ own'[w] \in {NoState, t}
      /\ stateCnt'[t] = stateCnt[t] + 1
      /\ \A s \in State : s # t => stateCnt'[s] = stateCnt[s]
      /\ sstatus' = sstatus
  BY <1>t, <1>1 DEF IndInv, TypeOK, StateEnter, StateHandOver, StateFetchAdd
<1>3. ASSUME NEW s \in State
      PROVE  /\ Executing(s)' = Executing(s)
             /\ SQ!Inside(s, "ready")' = SQ!Inside(s, "ready")
  BY <1>1, <1>2 DEF Executing, SQ!Inside
<1>4. ASSUME NEW s \in State, s # t
      PROVE  Adding(s)' = Adding(s)
  BY <1>t, <1>2, <1>4 DEF Adding
<1>5. Adding(t)' = Adding(t) \ {w} /\ w \in Adding(t)
  BY <1>a, <1>t, <1>1, <1>2 DEF Adding
<1>6. Cardinality(Adding(t)') = Cardinality(Adding(t)) - 1
  BY <1>5, ServiceFinite, FS_RemoveElement
<1>7. \A s \in State : /\ Cardinality(Adding(s)) \in Nat
                       /\ Cardinality(SQ!Inside(s, "ready")) \in Nat
                       /\ Cardinality(Executing(s)) \in Nat
  BY ServiceFinite
<1>8. \E v \in Worker : own'[v] = t
  <2>1. CASE StateEnter(w)
    BY <1>t, <2>1 DEF StateEnter, IndInv, TypeOK
  <2>2. CASE StateHandOver(w)
    <3>1. stateCnt[t] > 0 /\ own' = own
      BY <1>t, <1>1, <2>2 DEF StateHandOver
    <3> QED BY <1>0, <1>1, <3>1 DEF StateServiceInv
  <2> QED BY <2>1, <2>2
<1>9. ASSUME NEW s \in State
      PROVE  /\ stateCnt'[s] + Cardinality(Adding(s)') =
                  Cardinality(SQ!Inside(s, "ready")') + Cardinality(Executing(s)')
             /\ stateCnt'[s] > 0 => \E v \in Worker : own'[v] = s
  <2>1. CASE s = t
    BY <1>0, <1>1, <1>2, <1>3, <1>6, <1>7, <1>8, <2>1 DEF StateServiceInv
  <2>2. CASE s # t
    <3>1. \A v \in Worker : own[v] = s => own'[v] = s
      BY <1>1, <1>2, <2>2
    <3> QED BY <1>0, <1>1, <1>2, <1>3, <1>4, <1>7, <2>2, <3>1 DEF StateServiceInv
  <2> QED BY <2>1, <2>2
<1> QED BY <1>9 DEF StateServiceInv

(* ... the owner takes it, ...                                               *)
LEMMA StatePopTakeService ==
  ASSUME IndInv, ServiceInv, NEW w \in Worker, NEW o \in StateOp, StatePopTake(w, o)
  PROVE  StateServiceInv'
<1>0. StateServiceInv
  BY DEF ServiceInv
<1>1. /\ own[w] # NoState /\ StateOf[o] = own[w]
      /\ \A v \in Worker : own[v] = own[w] => v = w
      /\ \A s \in State : stateCnt[s] \in Int
  BY DEF IndInv, TypeOK, OwnInv, StatePopTake, SQ!PopTake
<1>t. PICK t \in State : t = own[w]
  BY <1>1, ConstantsAssumption DEF StateOp
<1>2. /\ pc[w] = "spopping" /\ pc'[w] = "exec"
      /\ \A v \in Worker : v # w => pc'[v] = pc[v] /\ cur'[v] = cur[v]
      /\ sstatus[o] = "ready" /\ sstatus'[o] = "out"
      /\ \A p \in StateOp : p # o => sstatus'[p] = sstatus[p]
      /\ UNCHANGED <<own, stateCnt>>
  BY DEF IndInv, TypeOK, StatePopTake, SQ!PopTake, SQ!QueueTypeOK
<1>3. ASSUME NEW s \in State
      PROVE  Adding(s)' = Adding(s)
  BY <1>2 DEF Adding
<1>4. ASSUME NEW s \in State, s # t
      PROVE  /\ Executing(s)' = Executing(s)
             /\ SQ!Inside(s, "ready")' = SQ!Inside(s, "ready")
  BY <1>t, <1>1, <1>2, <1>4 DEF Executing, SQ!Inside
<1>5. /\ Executing(t)' = Executing(t) \cup {w} /\ w \notin Executing(t)
      /\ SQ!Inside(t, "ready")' = SQ!Inside(t, "ready") \ {o}
      /\ o \in SQ!Inside(t, "ready")
  BY <1>t, <1>1, <1>2 DEF Executing, SQ!Inside
<1>6. /\ Cardinality(Executing(t)') = Cardinality(Executing(t)) + 1
      /\ Cardinality(SQ!Inside(t, "ready")') = Cardinality(SQ!Inside(t, "ready")) - 1
  <2>1. Cardinality(Executing(t)') = Cardinality(Executing(t)) + 1
    BY <1>5, ServiceFinite, FS_AddElement
  <2>2. Cardinality(SQ!Inside(t, "ready")') = Cardinality(SQ!Inside(t, "ready")) - 1
    BY <1>5, ServiceFinite, FS_RemoveElement
  <2> QED BY <2>1, <2>2
<1>7. \A s \in State : /\ Cardinality(Adding(s)) \in Nat
                       /\ Cardinality(SQ!Inside(s, "ready")) \in Nat
                       /\ Cardinality(Executing(s)) \in Nat
  BY ServiceFinite
<1>8. ASSUME NEW s \in State
      PROVE  /\ stateCnt[s] + Cardinality(Adding(s)') =
                  Cardinality(SQ!Inside(s, "ready")') + Cardinality(Executing(s)')
             /\ stateCnt[s] > 0 => \E v \in Worker : own[v] = s
  <2>1. CASE s = t
    BY <1>0, <1>1, <1>3, <1>6, <1>7, <2>1 DEF StateServiceInv
  <2>2. CASE s # t
    BY <1>0, <1>1, <1>3, <1>4, <1>7, <2>2 DEF StateServiceInv
  <2> QED BY <2>1, <2>2
<1> QED BY <1>2, <1>8 DEF StateServiceInv

(* ... and subtracts it once it is executed; the owner that leaves finds the *)
(* counter at zero.                                                          *)
LEMMA StateLeaveService ==
  ASSUME IndInv, ServiceInv, NEW w \in Worker, StateLeave(w) \/ StateContinue(w)
  PROVE  StateServiceInv'
<1>0. StateServiceInv
  BY DEF ServiceInv
<1>a. own[w] # NoState /\ own[w] \in State \cup {NoState}
  BY DEF IndInv, TypeOK, OwnInv, StateLeave, StateContinue, StateFetchSub
<1>t. PICK t \in State : t = own[w]
  BY <1>a
<1>1. /\ t # NoState
      /\ \A v \in Worker : own[v] = t => v = w
      /\ \A s \in State : stateCnt[s] \in Int
  BY <1>a, <1>t DEF IndInv, TypeOK, OwnInv
<1>2. /\ pc[w] = "ssub" /\ pc'[w] \in {"spop", "cache"}
      /\ \A v \in Worker : v # w => pc'[v] = pc[v] /\ own'[v] = own[v]
      /\ stateCnt'[t] = stateCnt[t] - 1
      /\ \A s \in State : s # t => stateCnt'[s] = stateCnt[s]
      /\ \/ own'[w] = t
         \/ own'[w] = NoState /\ stateCnt[t] = 1
      /\ UNCHANGED <<sstatus, cur>>
  BY <1>t, <1>1 DEF IndInv, TypeOK, StateLeave, StateContinue, StateFetchSub
<1>3. ASSUME NEW s \in State
      PROVE  /\ Adding(s)' = Adding(s)
             /\ SQ!Inside(s, "ready")' = SQ!Inside(s, "ready")
  BY <1>2 DEF Adding, SQ!Inside
<1>4. ASSUME NEW s \in State, s # t
      PROVE  Executing(s)' = Executing(s)
  BY <1>t, <1>1, <1>2, <1>4 DEF Executing
<1>5. Executing(t)' = Executing(t) \ {w} /\ w \in Executing(t)
  BY <1>t, <1>1, <1>2 DEF Executing
<1>6. Cardinality(Executing(t)') = Cardinality(Executing(t)) - 1
  BY <1>5, ServiceFinite, FS_RemoveElement
<1>7. \A s \in State : /\ Cardinality(Adding(s)) \in Nat
                       /\ Cardinality(SQ!Inside(s, "ready")) \in Nat
                       /\ Cardinality(Executing(s)) \in Nat
  BY ServiceFinite
<1>8. ASSUME NEW s \in State
      PROVE  /\ stateCnt'[s] + Cardinality(Adding(s)') =
                  Cardinality(SQ!Inside(s, "ready")') + Cardinality(Executing(s)')
             /\ stateCnt'[s] > 0 => \E v \in Worker : own'[v] = s
  <2>1. CASE s = t
    BY <1>0, <1>1, <1>2, <1>3, <1>6, <1>7, <2>1 DEF StateServiceInv
  <2>2. CASE s # t
    <3>1. \A v \in Worker : own[v] = s => own'[v] = s
      BY <1>t, <1>2, <2>2
    <3> QED BY <1>0, <1>1, <1>2, <1>3, <1>4, <1>7, <2>2, <3>1 DEF StateServiceInv
  <2> QED BY <2>1, <2>2
<1> QED BY <1>8 DEF StateServiceInv

(* The flags of the workers are raised in tu_tm_fini.                        *)
LEMMA SetTerminateService ==
  ASSUME IndInv, ServiceInv, NEW w \in Worker, SetTerminate(w)
  PROVE  ServiceInv'
<1>0. PopInv /\ GroupServiceInv /\ StateServiceInv
  BY DEF ServiceInv
<1>1. /\ mpc' \in Finished \ {"returned"}
      /\ UNCHANGED <<gstatus, gon, gmust, gblocked, push, arg, pc, sem, sstatus,
                     stateCnt, own, cur>>
  BY DEF SetTerminate, Finished
<1>2. PopInv'
  BY <1>0, <1>1 DEF PopInv
<1>3. GroupServiceInv'
  BY <1>0, <1>1, GroupServiceKept
<1>4. StateServiceInv'
  BY <1>0, <1>1, StateServiceKept
<1> QED BY <1>2, <1>3, <1>4 DEF ServiceInv

(* The queues are empty and the counters zero when tu_tm_start returns.      *)
LEMMA InitService ==
  ASSUME Init
  PROVE  ServiceInv
<1>1. PopInv
  <2>1. /\ \A o \in Op : gstatus[o] = "out"
        /\ \A w \in Worker : pc[w] = "park" /\ ~ gblocked[w] /\ ~ canTerminate[w]
    BY DEF Init, GQ!QueueInit
  <2> QED BY <2>1 DEF PopInv
<1>2. GroupServiceInv
  <2>1. \A o \in Op : gstatus[o] = "out"
    BY DEF Init, GQ!QueueInit
  <2> QED BY <2>1 DEF GroupServiceInv
<1>3. StateServiceInv
  <2>1. ASSUME NEW s \in State
        PROVE  Adding(s) = {} /\ Executing(s) = {} /\ SQ!Inside(s, "ready") = {}
    <3>1. /\ \A w \in Worker : pc[w] = "park"
          /\ \A o \in StateOp : sstatus[o] = "out"
      BY DEF Init, SQ!QueueInit
    <3> QED BY <3>1 DEF Adding, Executing, SQ!Inside
  <2>2. \A s \in State : stateCnt[s] = 0
    BY DEF Init
  <2>3. Cardinality({}) = 0
    BY FS_EmptySet
  <2> QED BY <2>1, <2>2, <2>3 DEF StateServiceInv
<1> QED BY <1>1, <1>2, <1>3 DEF ServiceInv

(* Every step preserves it.                                                  *)
LEMMA WorkerStepService ==
  ASSUME IndInv, ServiceInv, NEW w \in Worker, WorkerStep(w)
  PROVE  ServiceInv'
<1>1. CASE PushOp(w)
  <2>1. w \in Thread
    OBVIOUS
  <2> QED BY <1>1, <2>1, PushService
<1>2. CASE Exec(w)
  BY <1>2, ExecQuiet, QuietService
<1>3. CASE Run(w)
  BY <1>3, RunQuiet, QuietService, AcquireService, CheckTerminateService DEF Run
<1>4. CASE ProcessQueue(w)
  BY <1>4, GroupPopStartService, GroupPopBlockedService, GroupPopFailService,
     TakeService, CacheQuiet, QuietService DEF ProcessQueue
<1>5. CASE ProcessState(w)
  <2>1. CASE StatePopStart(w) \/ StatePopBlocked(w) \/ StatePopFail(w)
    BY <2>1, StatePopQuiet, QuietService
  <2>2. CASE StateClaim(w) \/ StatePublish(w)
    BY <2>2, StateStepKeeps, StatePublishService DEF ServiceInv
  <2>3. CASE StateEnter(w) \/ StateHandOver(w)
    BY <2>3, StateStepKeeps, StateEnterService DEF ServiceInv
  <2>4. ASSUME NEW o \in StateOp, StatePopTake(w, o)
        PROVE  ServiceInv'
    BY <2>4, StateStepKeeps, StatePopTakeService DEF ServiceInv
  <2>5. CASE StateLeave(w) \/ StateContinue(w)
    BY <2>5, StateStepKeeps, StateLeaveService DEF ServiceInv
  <2> QED BY <1>5, <2>1, <2>2, <2>3, <2>4, <2>5 DEF ProcessState
<1> QED BY <1>1, <1>2, <1>3, <1>4, <1>5 DEF WorkerStep

LEMMA NextService ==
  ASSUME IndInv, ServiceInv, [Next]_vars
  PROVE  ServiceInv'
<1>1. CASE \E w \in Worker : WorkerStep(w)
  BY <1>1, WorkerStepService
<1>2. CASE MainStep
  <2>1. CASE PushOp(Main)
    <3>1. Main \in Thread
      OBVIOUS
    <3> QED BY <2>1, <3>1, PushService
  <2>2. CASE \E w \in Worker : SetTerminate(w)
    BY <2>2, SetTerminateService
  <2>3. CASE CheckParked \/ CheckCounter \/ Block \/ ReleaseAll \/ JoinAll
    BY <2>3, MainQuiet, QuietService
  <2> QED BY <1>2, <2>1, <2>2, <2>3 DEF MainStep
<1>3. CASE UserStep \/ SpuriousWakeup
  BY <1>3, MainQuiet, QuietService
<1>4. CASE Terminated \/ UNCHANGED vars
  <2>1. QuietStep
    BY <1>4 DEF Terminated, vars, QuietStep
  <2> QED BY <2>1, QuietService
<1> QED BY <1>1, <1>2, <1>3, <1>4 DEF Next

(* Together with IndInv it holds in every reachable state.                   *)
THEOREM ServiceInvariance == Spec => []AllInv
<1>1. Init => AllInv
  BY InitInv, InitService DEF AllInv
<1>2. AllInv /\ [Next]_vars => AllInv'
  BY NextInv, NextService DEF AllInv
<1> QED BY <1>1, <1>2, PTL DEF Spec

(* An operation available in a group's queue is never forgotten, although a  *)
(* pop may fail on a slot that is claimed and a worker that finds nothing    *)
(* goes back to its semaphore: the worker that has not ended its pop, the    *)
(* thread that has not released its token, or a token is left for it.        *)
THEOREM QueuesAreServed == Spec => []QueueServed
<1>1. AllInv => QueueServed
  <2> SUFFICES ASSUME AllInv, NEW g \in Group, NEW o \in Op,
                      GroupOf[o] = g, gstatus[o] = "ready"
               PROVE  \/ sem[g] > 0
                      \/ \E t \in Thread : /\ push[t] \in {"publish", "release"}
                                           /\ GroupOf[arg[t]] = g
                      \/ \E w \in Members(g) : pc[w] \in Awake
    BY DEF QueueServed, GQ!Inside
  <2>1. Expected(g) \/ \E w \in Members(g) : SeenBy(w, o)
    BY DEF AllInv, ServiceInv, GroupServiceInv
  <2> QED BY <2>1 DEF Expected, SeenBy, Awake
<1> QED BY <1>1, ServiceInvariance, PTL

(* An operation in a state's queue has an owner that will pop it, or a       *)
(* worker that will become the owner or hand it to one: the comment on       *)
(* counter.fetch_sub, for any number of workers.                             *)
THEOREM StatesAreServed == Spec => []StateServed
<1>1. AllInv => StateServed
  <2> SUFFICES ASSUME AllInv, NEW s \in State, SQ!Inside(s, "ready") # {},
                      ~ \E w \in Worker : own[w] = s
               PROVE  \E w \in Worker : pc[w] = "sadd" /\ StateOf[cur[w]] = s
    BY DEF StateServed
  <2>1. /\ stateCnt[s] \in Int /\ stateCnt[s] <= 0
        /\ stateCnt[s] + Cardinality(Adding(s)) =
             Cardinality(SQ!Inside(s, "ready")) + Cardinality(Executing(s))
    BY DEF AllInv, IndInv, TypeOK, ServiceInv, StateServiceInv
  <2>2. Cardinality(SQ!Inside(s, "ready")) # 0
    BY ServiceFinite, FS_EmptySet
  <2>3. Cardinality(Adding(s)) # 0
    BY <2>1, <2>2, ServiceFinite
  <2>4. Adding(s) # {}
    BY <2>3, FS_EmptySet
  <2> QED BY <2>4 DEF Adding
<1> QED BY <1>1, ServiceInvariance, PTL

(* The owner of a state pops only while there is an operation in the queue:  *)
(* its pop may have to be tried again, and it never waits for an operation   *)
(* that nobody has pushed.                                                   *)
THEOREM OwnersHaveWork == Spec => []OwnerHasWork
<1>1. AllInv => OwnerHasWork
  <2> SUFFICES ASSUME AllInv, NEW w \in Worker, pc[w] = "spop"
               PROVE  SQ!Inside(own[w], "ready") # {}
    BY DEF OwnerHasWork
  <2>1. /\ own[w] # NoState /\ own[w] \in State \cup {NoState}
        /\ stateCnt[own[w]] >= 1
        /\ \A v \in Worker : own[v] = own[w] => v = w
    BY DEF AllInv, IndInv, TypeOK, OwnInv
  <2>2. PICK s \in State : s = own[w]
    BY <2>1
  <2>3. Executing(s) = {}
    BY <2>1, <2>2 DEF Executing
  <2>4. /\ stateCnt[s] \in Int /\ stateCnt[s] >= 1
        /\ stateCnt[s] + Cardinality(Adding(s)) =
             Cardinality(SQ!Inside(s, "ready")) + Cardinality(Executing(s))
    BY <2>1, <2>2 DEF AllInv, IndInv, TypeOK, ServiceInv, StateServiceInv
  <2>5. Cardinality(SQ!Inside(s, "ready")) # 0
    BY <2>3, <2>4, ServiceFinite, FS_EmptySet
  <2> QED BY <2>2, <2>5, FS_EmptySet
<1> QED BY <1>1, ServiceInvariance, PTL

-----------------------------------------------------------------------------
(* The caches of the workers                                                 *)

(* A set of numbers has a least one, and one that holds the predecessor of   *)
(* each of its numbers is empty.                                             *)
LEMMA LeastNumber ==
  ASSUME NEW T, T \subseteq Nat, T # {}
  PROVE  \E x \in T : \A y \in T : x <= y
<1> DEFINE R == StrictSubsetOrdering(Nat)
           Lower == {1 .. z : z \in T}
<1>1. IsWellFoundedOn(R, FiniteSubsetsOf(Nat))
  BY FS_StrictSubsetOrderingWellFounded
<1>2. Lower \subseteq FiniteSubsetsOf(Nat) /\ Lower # {}
  <2>1. ASSUME NEW z \in T
        PROVE  1 .. z \in FiniteSubsetsOf(Nat)
    <3>1. IsFiniteSet(1 .. z)
      <4>1. z \in Int
        OBVIOUS
      <4> QED BY <4>1, FS_Interval
    <3>2. 1 .. z \in SUBSET Nat
      OBVIOUS
    <3> QED BY <3>1, <3>2 DEF FiniteSubsetsOf
  <2> QED BY <2>1
<1>3. PICK L \in Lower : \A M \in Lower : ~ (<<M, L>> \in R)
  <2> HIDE DEF R, Lower
  <2> QED BY <1>1, <1>2, WFMin
<1>4. PICK x \in T : L = 1 .. x
  OBVIOUS
<1>5. ASSUME NEW y \in T, y < x
      PROVE FALSE
  <2>1. 1 .. y \in Lower /\ 1 .. y \subseteq Nat /\ 1 .. x \subseteq Nat
    OBVIOUS
  <2>2. x \in 1 .. x /\ x \notin 1 .. y /\ 1 .. y \subseteq 1 .. x
    BY <1>5
  <2>3. <<1 .. y, L>> \in R
    BY <1>4, <2>1, <2>2 DEF StrictSubsetOrdering
  <2> QED BY <1>3, <2>1, <2>3
<1> QED BY <1>5

LEMMA Descent ==
  ASSUME NEW T, T \subseteq Nat, \A m \in T : m # 0 /\ m - 1 \in T
  PROVE  T = {}
<1> SUFFICES ASSUME T # {} PROVE FALSE
  OBVIOUS
<1>1. PICK m \in T : \A y \in T : m <= y
  BY LeastNumber
<1>2. m - 1 \in T /\ m \in Nat
  OBVIOUS
<1> QED BY <1>1, <1>2

(* TaskManager has a sequence in the place of a ring.                        *)
Ring == INSTANCE CacheQueue WITH Nothing <- NoOp

(* Two positions less than a lap apart have different slots.                 *)
LEMMA SlotsDiffer ==
  ASSUME NEW k \in Nat \ {0}, NEW x \in Nat, NEW y \in Nat, x < y, y < x + k
  PROVE  x % k # y % k
<1> SUFFICES ASSUME x % k = y % k PROVE FALSE
  OBVIOUS
<1> DEFINE a == x \div k
           b == y \div k
           r == x % k
<1>1. x = k * a + r /\ y = k * b + r /\ a \in Int /\ b \in Int /\ r \in Int
  OBVIOUS
<1> HIDE DEF a, b, r
<1>2. y - x = k * b - k * a
  BY <1>1
<1>3. k * b - k * a = k * (b - a)
  BY <1>1
<1>4. CASE b - a >= 1
  <2>1. k * (b - a) >= k
    BY <1>1, <1>4
  <2> QED BY <1>2, <1>3, <2>1
<1>5. CASE b - a <= 0
  <2>1. k * (b - a) <= 0
    BY <1>1, <1>5
  <2> QED BY <1>2, <1>3, <2>1
<1> QED BY <1>1, <1>4, <1>5

(* A ring and the sequence of the same elements, from the oldest.            *)
Agrees(q, s, size, V) ==
  /\ q \in [size : {size}, head : Nat, tail : Nat, data : [0 .. size - 1 -> V]]
  /\ q.tail - q.head \in 0 .. size
  /\ s \in Seq(V) /\ Len(s) = q.tail - q.head
  /\ \A i \in 1 .. Len(s) : s[i] = q.data[(q.head + i - 1) % size]

LEMMA SlotType ==
  ASSUME NEW k \in Nat \ {0}, NEW x \in Nat
  PROVE  x % k \in 0 .. k - 1
OBVIOUS

(* cache evicts the oldest element of a full ring, and no other.             *)
LEMMA CacheAgrees ==
  ASSUME NEW size \in Nat \ {0}, NEW V, NEW q, NEW s, Agrees(q, s, size, V), NEW v \in V
  PROVE  /\ Ring!Evicted(q) = Ring!Oldest(s, size)
         /\ Agrees(Ring!Cache(q, v), Append(Ring!Kept(s, size), v), size, V)
<1> DEFINE r == Ring!Cache(q, v)
           kept == Ring!Kept(s, size)
<1>0. /\ q \in [size : {size}, head : Nat, tail : Nat, data : [0 .. size - 1 -> V]]
      /\ q.size = size /\ q.head \in Nat /\ q.tail \in Nat
      /\ q.data \in [0 .. size - 1 -> V]
      /\ q.tail - q.head \in 0 .. size
      /\ s \in Seq(V) /\ Len(s) = q.tail - q.head
      /\ \A i \in 1 .. Len(s) : s[i] = q.data[(q.head + i - 1) % size]
  BY DEF Agrees
<1>1. q.tail % size \in 0 .. size - 1
  BY <1>0, SlotType
<1>2. /\ r \in [size : {size}, head : Nat, tail : Nat, data : [0 .. size - 1 -> V]]
      /\ r.tail = q.tail + 1
      /\ r.head = IF q.tail - q.head >= size THEN q.head + 1 ELSE q.head
      /\ r.data = [q.data EXCEPT ![q.tail % size] = v]
  <2> DEFINE first == IF q.tail - q.head >= size THEN q.head + 1 ELSE q.head
             slots == [q.data EXCEPT ![q.tail % size] = v]
  <2>1. first \in Nat /\ q.tail + 1 \in Nat
    BY <1>0
  <2>2. slots \in [0 .. size - 1 -> V]
    BY <1>0, <1>1
  <2>3. Ring!IsFull(q) <=> q.tail - q.head >= size
    BY <1>0 DEF Ring!IsFull
  <2>4. r = [q EXCEPT !.head = first, !.tail = q.tail + 1, !.data[q.tail % size] = v]
    BY <1>0, <2>3 DEF Ring!Cache
  <2>5. r = [q EXCEPT !.head = first, !.tail = q.tail + 1, !.data = slots]
    BY <2>4
  <2> HIDE DEF r, first, slots
  <2>6. r.tail = q.tail + 1 /\ r.head = first /\ r.data = slots
    BY <1>0, <2>5
  <2>7. r \in [size : {size}, head : Nat, tail : Nat, data : [0 .. size - 1 -> V]]
    BY <1>0, <2>1, <2>2, <2>5
  <2> QED BY <2>6, <2>7 DEF first, slots
<1>3. \A x \in Nat : x < q.tail /\ q.tail < x + size => r.data[x % size] = q.data[x % size]
  <2> SUFFICES ASSUME NEW x \in Nat, x < q.tail, q.tail < x + size
               PROVE  r.data[x % size] = q.data[x % size]
    OBVIOUS
  <2>1. x % size # q.tail % size /\ x % size \in 0 .. size - 1
    BY <1>0, SlotsDiffer, SlotType
  <2> QED BY <1>0, <1>2, <2>1
<1>4. r.data[q.tail % size] = v
  BY <1>0, <1>1, <1>2
<1> HIDE DEF r, kept
<1>5. CASE Len(s) < size
  <2>1. kept = s /\ r.head = q.head
    BY <1>0, <1>2, <1>5 DEF kept, Ring!Kept
  <2>2. Append(s, v) \in Seq(V) /\ Len(Append(s, v)) = Len(s) + 1
    <3>1. s \in Seq(V) /\ v \in V
      BY <1>0
    <3> QED BY <3>1
  <2>3. ASSUME NEW i \in 1 .. Len(s) + 1
        PROVE  Append(s, v)[i] = r.data[(r.head + i - 1) % size]
    <3>1. CASE i = Len(s) + 1
      <4>1. q.head + i - 1 = q.tail
        BY <1>0, <3>1
      <4>2. Append(s, v)[i] = v
        BY <1>0, <3>1
      <4> QED BY <1>4, <2>1, <4>1, <4>2
    <3>2. CASE i \in 1 .. Len(s)
      <4>1. Append(s, v)[i] = s[i]
        BY <1>0, <3>2
      <4>2. q.head + i - 1 \in Nat /\ q.head + i - 1 < q.tail
            /\ q.tail < q.head + i - 1 + size
        <5>1. Len(s) = q.tail - q.head /\ q.head \in Nat /\ q.tail \in Nat
          BY <1>0
        <5> QED BY <1>5, <3>2, <5>1
      <4> QED BY <1>0, <1>3, <2>1, <3>2, <4>1, <4>2
    <3> QED BY <1>0, <3>1, <3>2
  <2>4. Agrees(r, Append(kept, v), size, V)
    <3>1. r.tail - r.head = Len(s) + 1 /\ Len(s) + 1 \in 0 .. size
      BY <1>0, <1>2, <1>5, <2>1
    <3> QED BY <1>2, <2>1, <2>2, <2>3, <3>1 DEF Agrees
  <2>5. Ring!Evicted(q) = Ring!Oldest(s, size)
    BY <1>0, <1>5 DEF Ring!Evicted, Ring!Oldest, Ring!IsFull
  <2> QED BY <2>4, <2>5 DEF r, kept
<1>6. CASE ~ (Len(s) < size)
  <2>0. Len(s) = size /\ s # <<>> /\ r.head = q.head + 1 /\ q.tail = q.head + size
    <3>1. Len(s) = q.tail - q.head /\ q.head \in Nat /\ q.tail \in Nat /\ Len(s) \in 0 .. size
      BY <1>0
    <3>2. Len(s) = size /\ q.tail = q.head + size /\ q.tail - q.head >= size
      BY <1>6, <3>1
    <3>3. s # <<>>
      BY <3>2
    <3> QED BY <1>2, <3>2, <3>3
  <2>1. /\ kept = Tail(s) /\ kept \in Seq(V) /\ Len(kept) = size - 1
        /\ \A i \in 1 .. size - 1 : kept[i] = s[i + 1]
    BY <1>0, <1>6, <2>0 DEF kept, Ring!Kept
  <2>2. Append(kept, v) \in Seq(V) /\ Len(Append(kept, v)) = size
    BY <2>1
  <2>3. ASSUME NEW i \in 1 .. size
        PROVE  Append(kept, v)[i] = r.data[(r.head + i - 1) % size]
    <3>1. CASE i = size
      <4>1. r.head + i - 1 = q.tail
        BY <1>0, <2>0, <3>1
      <4>2. Append(kept, v)[i] = v
        BY <2>1, <3>1
      <4> QED BY <1>4, <4>1, <4>2
    <3>2. CASE i \in 1 .. size - 1
      <4>1. Append(kept, v)[i] = s[i + 1]
        BY <2>1, <3>2
      <4>2. /\ r.head + i - 1 = q.head + (i + 1) - 1 /\ i + 1 \in 1 .. Len(s)
            /\ q.head + (i + 1) - 1 \in Nat /\ q.head + (i + 1) - 1 < q.tail
            /\ q.tail < q.head + (i + 1) - 1 + size
        <5>1. q.head \in Nat /\ i \in 1 .. size - 1
          BY <1>0, <3>2
        <5>2. r.head = q.head + 1 /\ q.tail = q.head + size /\ Len(s) = size
          BY <2>0
        <5>3. r.head + i - 1 = q.head + (i + 1) - 1
          BY <5>1, <5>2
        <5>4. i + 1 \in 1 .. Len(s) /\ q.head + (i + 1) - 1 \in Nat
          BY <5>1, <5>2
        <5> QED BY <5>1, <5>2, <5>3, <5>4
      <4> QED BY <1>0, <1>3, <4>1, <4>2
    <3>3. i = size \/ i \in 1 .. size - 1
      OBVIOUS
    <3> QED BY <3>1, <3>2, <3>3, Zenon
  <2>4. Agrees(r, Append(kept, v), size, V)
    <3>1. r.tail - r.head = size /\ size \in 0 .. size
      <4>1. q.head \in Nat
        BY <1>0
      <4> QED BY <1>2, <2>0, <4>1
    <3>2. r \in [size : {size}, head : Nat, tail : Nat, data : [0 .. size - 1 -> V]]
      BY <1>2
    <3> HIDE DEF r
    <3> QED BY <2>2, <2>3, <3>1, <3>2 DEF Agrees
  <2>5. Ring!Evicted(q) = Ring!Oldest(s, size)
    <3>1. Head(s) = s[1] /\ s[1] = q.data[(q.head + 1 - 1) % size] /\ q.head + 1 - 1 = q.head
      BY <1>0, <2>0
    <3> QED BY <1>0, <1>6, <2>0, <3>1 DEF Ring!Evicted, Ring!Oldest, Ring!IsFull, Ring!Slot
  <2> QED BY <2>4, <2>5 DEF r, kept
<1> QED BY <1>5, <1>6

(* pop returns the newest element.                                           *)
LEMMA PopAgrees ==
  ASSUME NEW size \in Nat \ {0}, NEW V, NEW q, NEW s, Agrees(q, s, size, V)
  PROVE  /\ Ring!Popped(q) = Ring!Newest(s)
         /\ Agrees(Ring!Pop(q), Ring!Older(s), size, V)
<1>0. /\ q \in [size : {size}, head : Nat, tail : Nat, data : [0 .. size - 1 -> V]]
      /\ q.size = size /\ q.head \in Nat /\ q.tail \in Nat
      /\ q.tail - q.head \in 0 .. size
      /\ s \in Seq(V) /\ Len(s) = q.tail - q.head /\ Len(s) \in Nat
      /\ \A i \in 1 .. Len(s) : s[i] = q.data[(q.head + i - 1) % size]
  BY DEF Agrees
<1>1. CASE s = <<>>
  <2>1. q.tail <= q.head
    BY <1>0, <1>1
  <2> QED BY <1>1, <2>1 DEF Ring!Popped, Ring!Newest, Ring!Pop, Ring!Older
<1>2. CASE s # <<>>
  <2> DEFINE r == [q EXCEPT !.tail = @ - 1]
             u == SubSeq(s, 1, Len(s) - 1)
  <2>1. ~ (q.tail <= q.head) /\ Len(s) \in 1 .. size
    BY <1>0, <1>2
  <2>2. /\ r \in [size : {size}, head : Nat, tail : Nat, data : [0 .. size - 1 -> V]]
        /\ r.tail = q.tail - 1 /\ r.head = q.head /\ r.data = q.data
    BY <1>0, <2>1
  <2>3. /\ u \in Seq(V) /\ Len(u) = Len(s) - 1
        /\ \A i \in 1 .. Len(s) - 1 : u[i] = s[i]
    BY <1>0, <2>1
  <2> HIDE DEF r, u
  <2>4. Agrees(r, u, size, V)
    BY <1>0, <2>1, <2>2, <2>3 DEF Agrees
  <2>5. s[Len(s)] = q.data[(q.tail - 1) % size]
    <3>1. q.head + Len(s) - 1 = q.tail - 1 /\ Len(s) \in 1 .. Len(s)
      BY <1>0, <2>1
    <3> QED BY <1>0, <3>1
  <2>6. Ring!Pop(q) = r /\ Ring!Older(s) = u
    BY <1>2, <2>1 DEF Ring!Pop, Ring!Older, r, u
  <2>7. Ring!Popped(q) = s[Len(s)] /\ Ring!Newest(s) = s[Len(s)]
    BY <1>0, <1>2, <2>1, <2>5 DEF Ring!Popped, Ring!Newest, Ring!Slot
  <2> QED BY <2>4, <2>6, <2>7
<1> QED BY <1>1, <1>2

(* A ring and a sequence after some calls, and what they returned.           *)
Alike(x, size) ==
  /\ x.v \in Nat /\ x.same = TRUE
  /\ Agrees(x.q, x.s, size, Nat \cup {NoOp})

LEMMA NewAlike ==
  ASSUME NEW size \in Nat \ {0}
  PROVE  Alike(Ring!Start(size), size)
<1>1. /\ Ring!New(size) \in [size : {size}, head : Nat, tail : Nat,
                             data : [0 .. size - 1 -> Nat \cup {NoOp}]]
      /\ Ring!New(size).tail = 0 /\ Ring!New(size).head = 0
  BY DEF Ring!New
<1>2. Agrees(Ring!New(size), <<>>, size, Nat \cup {NoOp})
  BY <1>1 DEF Agrees
<1> QED BY <1>2 DEF Alike, Ring!Start

LEMMA CallAlike ==
  ASSUME NEW size \in Nat \ {0}, NEW x, Alike(x, size), NEW op
  PROVE  Alike(Ring!Call(x, op), size)
<1> DEFINE V == Nat \cup {NoOp}
<1>0. x.v \in Nat /\ x.v \in V /\ x.same = TRUE /\ Agrees(x.q, x.s, size, V)
  BY DEF Alike
<1>1. x.q.size = size
  BY <1>0 DEF Agrees
<1> HIDE DEF V
<1>2. /\ Ring!Evicted(x.q) = Ring!Oldest(x.s, size)
      /\ Agrees(Ring!Cache(x.q, x.v), Append(Ring!Kept(x.s, size), x.v), size, V)
  BY <1>0, CacheAgrees
<1>3. /\ Ring!Popped(x.q) = Ring!Newest(x.s)
      /\ Agrees(Ring!Pop(x.q), Ring!Older(x.s), size, V)
  BY <1>0, PopAgrees
<1>4. CASE op = "cache"
  <2>1. Ring!Call(x, op) =
          [q |-> Ring!Cache(x.q, x.v), s |-> Append(Ring!Kept(x.s, size), x.v),
           v |-> x.v + 1, same |-> TRUE]
    BY <1>0, <1>1, <1>2, <1>4 DEF Ring!Call
  <2> QED BY <1>0, <1>2, <2>1 DEF Alike, V
<1>5. CASE op # "cache"
  BY <1>0, <1>3, <1>5 DEF Alike, Ring!Call, V
<1> QED BY <1>4, <1>5

(* A record of the first m calls.                                            *)
IsRun(after, size, ops, m) ==
  after = [k \in 0 .. m |->
             IF k = 0 THEN Ring!Start(size) ELSE Ring!Call(after[k - 1], ops[k])]

(* There is one for every number of calls: a longer one extends a shorter.   *)
LEMMA RunExists ==
  ASSUME NEW size, NEW ops, NEW m \in Nat
  PROVE  \E after : IsRun(after, size, ops, m)
<1> DEFINE T == {k \in Nat : ~ \E after : IsRun(after, size, ops, k)}
<1>1. ASSUME NEW k \in T
      PROVE  k # 0 /\ k - 1 \in T
  <2>1. k # 0
    <3>1. IsRun([i \in 0 .. 0 |-> Ring!Start(size)], size, ops, 0)
      BY DEF IsRun
    <3> QED BY <3>1
  <2>2. ASSUME NEW before, IsRun(before, size, ops, k - 1)
        PROVE  FALSE
    <3> DEFINE after == [i \in 0 .. k |->
                           IF i < k THEN before[i] ELSE Ring!Call(before[k - 1], ops[k])]
    <3>1. ASSUME NEW i \in 0 .. k
          PROVE  after[i] = IF i = 0 THEN Ring!Start(size) ELSE Ring!Call(after[i - 1], ops[i])
      <4>1. CASE i < k
        <5>1. i \in 0 .. k - 1 /\ k - 1 \in Nat /\ after[i] = before[i]
          BY <2>1, <4>1
        <5>2. before[i] = IF i = 0 THEN Ring!Start(size) ELSE Ring!Call(before[i - 1], ops[i])
          <6>1. k - 1 \in Nat /\ i \in 0 .. k - 1
            BY <5>1
          <6> HIDE DEF T, after
          <6> QED BY <2>2, <6>1 DEF IsRun
        <5>3. i # 0 => after[i - 1] = before[i - 1]
          BY <4>1
        <5> HIDE DEF after
        <5> QED BY <5>1, <5>2, <5>3
      <4>2. CASE i = k
        <5>1. after[i] = Ring!Call(before[k - 1], ops[k])
          BY <4>2
        <5>2. after[i - 1] = before[k - 1]
          BY <2>1, <4>2
        <5> HIDE DEF after
        <5> QED BY <2>1, <4>2, <5>1, <5>2
      <4> QED BY <4>1, <4>2
    <3>2. IsRun(after, size, ops, k)
      <4>1. after = [i \in 0 .. k |-> after[i]]
        OBVIOUS
      <4> HIDE DEF after
      <4> QED BY <3>1, <4>1 DEF IsRun
    <3> QED BY <3>2
  <2> QED BY <2>1, <2>2
<1>2. T = {}
  <2>1. T \subseteq Nat
    OBVIOUS
  <2> HIDE DEF T
  <2> QED BY <1>1, <2>1, Descent
<1> QED BY <1>2

(* By induction on the number of calls.                                      *)
LEMMA CallsAlike ==
  ASSUME NEW size \in Nat \ {0}, NEW ops, NEW m \in Nat, NEW after,
         IsRun(after, size, ops, m)
  PROVE  Alike(after[m], size)
<1> DEFINE T == {k \in 0 .. m : ~ Alike(after[k], size)}
<1>1. ASSUME NEW k \in T
      PROVE  k # 0 /\ k - 1 \in T
  <2>1. after[k] = IF k = 0 THEN Ring!Start(size) ELSE Ring!Call(after[k - 1], ops[k])
    <3>1. k \in 0 .. m
      OBVIOUS
    <3> HIDE DEF T
    <3> QED BY <3>1 DEF IsRun
  <2>2. k # 0
    BY <2>1, NewAlike
  <2>3. ~ Alike(after[k - 1], size)
    BY <2>1, <2>2, CallAlike
  <2> QED BY <2>2, <2>3
<1>2. T = {}
  <2>1. T \subseteq Nat
    OBVIOUS
  <2> HIDE DEF T
  <2> QED BY <1>1, <2>1, Descent
<1>3. m \in 0 .. m
  OBVIOUS
<1> QED BY <1>2, <1>3

(* Whatever is called, the ring of a worker's cache returns and holds what   *)
(* the sequence does that TaskManager has in its place.                      *)
THEOREM CachesConform ==
  ASSUME NEW size \in Nat \ {0}, NEW ops \in Seq({"cache", "pop"})
  PROVE  Ring!Conforms(size, ops)
<1> DEFINE m == Len(ops)
           after == CHOOSE g : IsRun(g, size, ops, m)
           end == after[m]
<1>1. m \in Nat
  OBVIOUS
<1>2. IsRun(after, size, ops, m)
  <2> HIDE DEF m
  <2> QED BY <1>1, RunExists
<1>3. Alike(end, size)
  <2> HIDE DEF m, after
  <2> QED BY <1>1, <1>2, CallsAlike
<1>4. Ring!Contents(end.q) = end.s
  <2> HIDE DEF end
  <2>1. Agrees(end.q, end.s, size, Nat \cup {NoOp})
    BY <1>3 DEF Alike
  <2>2. /\ end.s \in Seq(Nat \cup {NoOp}) /\ Len(end.s) = end.q.tail - end.q.head
        /\ end.q.size = size
        /\ \A i \in 1 .. Len(end.s) : end.s[i] = end.q.data[(end.q.head + i - 1) % size]
    BY <2>1 DEF Agrees
  <2>3. end.s = [i \in 1 .. Len(end.s) |-> end.s[i]]
    BY <2>2
  <2> QED BY <2>2, <2>3 DEF Ring!Contents, Ring!Slot
<1>5. Ring!Conforms(size, ops) = (end.same /\ Ring!Contents(end.q) = end.s)
  BY DEF Ring!Conforms, IsRun
<1> HIDE DEF end
<1> QED BY <1>3, <1>4, <1>5 DEF Alike
=============================================================================
