-------------------------- MODULE ThreadPoolProofs --------------------------
(***************************************************************************)
(* For any number of workers, users, jobs and operations: process_count is *)
(* exact, the handle of an operation is its owner's again once             *)
(* tu_tp_op_wait has returned, and no job is left behind.                  *)
(***************************************************************************)
EXTENDS ThreadPool, FiniteSetTheorems, TLAPS

USE DEF Goto, UserGoto, MainGoto, queueVars, workerVars, handleVars, userVars,
        mainVars

(* The jobs that a handle waits for can be counted.                        *)
LEMMA PendingFinite ==
  ASSUME NEW u
  PROVE  /\ IsFiniteSet(Pending(u)) /\ Cardinality(Pending(u)) \in Nat
         /\ Cardinality(Pending(u)) = 0 <=> Pending(u) = {}
<1>1. IsFiniteSet(1 .. MaxJobs)
  BY PoolAssumption, FS_Interval
<1>2. Pending(u) \subseteq 1 .. MaxJobs
  BY DEF Pending
<1>3. IsFiniteSet(Pending(u))
  BY <1>1, <1>2, FS_Subset
<1> QED BY <1>3, FS_CardinalityType, FS_EmptySet

(* The identity of a job.                                                  *)
LEMMA JobFacts ==
  /\ \A j \in Job : /\ j.handle \in User /\ j.index \in 1 .. MaxJobs
                    /\ j = [handle |-> j.handle, index |-> j.index]
  /\ \A u \in User, i \in 1 .. MaxJobs :
       LET j == [handle |-> u, index |-> i]
       IN  j \in Job /\ j.handle = u /\ j.index = i
BY DEF Job

(* A step that moves no job from one place to another.                     *)
LEMMA SamePlaces ==
  ASSUME UniqueInv, items' = items,
         \A x \in User, i \in 1 .. MaxJobs : ToPush(x, i)' <=> ToPush(x, i),
         \A v \in Worker, j \in Job : Holds(v, j)' <=> Holds(v, j)
  PROVE  UniqueInv' /\ \A x \in User : Pending(x)' = Pending(x)
<1>1. \A j \in Job : (Queued(j)' <=> Queued(j)) /\ (Held(j)' <=> Held(j))
  BY DEF Queued, Held
<1>2. UniqueInv'
  BY <1>1, JobFacts DEF UniqueInv
<1>3. \A x \in User : Pending(x)' = Pending(x)
  BY <1>1, JobFacts DEF Pending
<1> QED BY <1>2, <1>3

(* The same for a step that also leaves the counts alone and lets no       *)
(* worker use a handle that it does not use: only JobsServed, the types    *)
(* and the hands of the workers are left to show.                          *)
LEMMA SameCounts ==
  ASSUME PoolInv, UniqueInv', count' = count,
         \A x \in User : Pending(x)' = Pending(x),
         \A x \in User : upc'[x] = "idle" => upc[x] = "idle",
         \A v \in Worker, x \in User :
           Using(v, x)' => Using(v, x) \/ upc[x] # "idle"
  PROVE  IdleInv' /\ CountExact' /\ HandleReleased'
<1>1. IdleInv'
  BY DEF PoolInv, IdleInv
<1>2. CountExact'
  BY DEF PoolInv, CountExact
<1>3. HandleReleased'
  BY DEF PoolInv, HandleReleased, Released
<1> QED BY <1>1, <1>2, <1>3

-----------------------------------------------------------------------------
(* The users                                                               *)

LEMMA LaunchInv ==
  ASSUME PoolInv, NEW u \in User, NEW n \in 0 .. MaxJobs, Launch(u, n)
  PROVE  PoolInv'
<1>0. n \in Nat /\ MaxJobs \in Nat
  BY PoolAssumption
<1>1. /\ upc[u] = "idle" /\ mpc = "run"
      /\ count' = [count EXCEPT ![u] = n] /\ len' = [len EXCEPT ![u] = n]
      /\ next' = [next EXCEPT ![u] = 1] /\ launches' = launches + 1
      /\ upc' = [upc EXCEPT ![u] = "push"]
      /\ UNCHANGED <<queueVars, sem, canTerminate, workerVars, mutex, mainVars>>
  BY DEF Launch
<1>2. TypeOK'
  BY <1>0, <1>1 DEF PoolInv, TypeOK, UserPC
<1>3. HandsInv'
  BY <1>1 DEF PoolInv, HandsInv
<1>4. /\ Pending(u) = {}
      /\ \A j \in Job : /\ (Queued(j)' <=> Queued(j)) /\ (Held(j)' <=> Held(j))
                        /\ j.handle = u => ~ Queued(j) /\ ~ Held(j)
      /\ \A v \in Worker, j \in Job : Holds(v, j)' <=> Holds(v, j)
  <2>1. Pending(u) = {}
    BY <1>1 DEF PoolInv, IdleInv
  <2>2. \A j \in Job : j.handle = u => ~ Queued(j) /\ ~ Held(j)
    BY <2>1, JobFacts DEF Pending
  <2> QED BY <1>1, <2>1, <2>2 DEF Queued, Held, Holds
<1>5. \A x \in User, i \in 1 .. MaxJobs :
        ToPush(x, i)' <=> IF x = u THEN i <= n ELSE ToPush(x, i)
  BY <1>0, <1>1 DEF PoolInv, TypeOK, ToPush
<1>6. UniqueInv'
  BY <1>1, <1>4, <1>5, JobFacts DEF PoolInv, UniqueInv
<1>7. Pending(u)' = 1 .. n
  BY <1>0, <1>4, <1>5, JobFacts DEF Pending
<1>8. \A x \in User : x # u => Pending(x)' = Pending(x)
  BY <1>4, <1>5, JobFacts DEF Pending
<1>9. CountExact'
  <2>1. Cardinality(1 .. n) = n
    BY <1>0, FS_Interval
  <2> QED BY <1>1, <1>7, <1>8, <2>1 DEF PoolInv, TypeOK, CountExact
<1>10. IdleInv' /\ HandleReleased'
  BY <1>1, <1>8 DEF PoolInv, TypeOK, IdleInv, HandleReleased, Released, Using
<1>11. JobsServed'
  BY <1>0, <1>1 DEF PoolInv, TypeOK, JobsServed
<1> QED BY <1>2, <1>3, <1>6, <1>9, <1>10, <1>11 DEF PoolInv

(* A job that is pushed goes from the user to the queue.                   *)
LEMMA PushJobInv ==
  ASSUME PoolInv, NEW u \in User, PushJob(u)
  PROVE  PoolInv'
<1> DEFINE new == [handle |-> u, index |-> next[u]]
<1>0. /\ upc[u] = "push" /\ next[u] \in 1 .. len[u] /\ len[u] \in 0 .. MaxJobs
      /\ MaxJobs \in Nat /\ next[u] \in 1 .. MaxJobs /\ new \in Job
  BY PoolAssumption, JobFacts DEF PushJob, PoolInv, TypeOK
<1>1. /\ items' = Append(items, new)
      /\ next' = [next EXCEPT ![u] = @ + 1]
      /\ UNCHANGED <<call, sawEmpty, result, sem, canTerminate, workerVars,
                     handleVars, upc, len, launches, mainVars>>
  BY DEF PushJob, Queue!Push
<1>2. items \in Seq(Job) /\ items' \in Seq(Job)
      /\ Len(items') = Len(items) + 1 /\ Len(items) \in Nat
      /\ items'[Len(items) + 1] = new
      /\ \A k \in 1 .. Len(items) : items'[k] = items[k]
  BY <1>0, <1>1 DEF PoolInv, TypeOK
<1>3. TypeOK'
  BY <1>0, <1>1, <1>2 DEF PoolInv, TypeOK
<1>4. HandsInv'
  BY <1>1 DEF PoolInv, HandsInv
<1>5. /\ \A j \in Job : Queued(j)' <=> Queued(j) \/ j = new
      /\ \A j \in Job : Held(j)' <=> Held(j)
      /\ \A v \in Worker, j \in Job : Holds(v, j)' <=> Holds(v, j)
  <2>1. \A j \in Job : Queued(j)' <=> Queued(j) \/ j = new
    BY <1>2 DEF Queued
  <2> QED BY <1>1, <2>1 DEF Held, Holds
<1>6. \A x \in User, i \in 1 .. MaxJobs :
        ToPush(x, i)' <=> ToPush(x, i) /\ ~ (x = u /\ i = next[u])
  BY <1>0, <1>1 DEF PoolInv, TypeOK, ToPush
<1>7. ToPush(u, next[u]) /\ ~ Queued(new) /\ ~ Held(new)
  <2>1. ToPush(u, next[u])
    BY <1>0 DEF ToPush
  <2>2. ToPush(new.handle, new.index)
    BY <2>1
  <2> QED BY <1>0, <2>1, <2>2 DEF PoolInv, UniqueInv
<1>8. UniqueInv'
  <2>1. \A i, k \in 1 .. Len(items') : items'[i] = items'[k] => i = k
    <3>1. \A k \in 1 .. Len(items) : items[k] # new
      BY <1>7 DEF Queued
    <3> QED BY <1>2, <3>1 DEF PoolInv, UniqueInv
  <2>2. ASSUME NEW j \in Job
        PROVE  /\ Queued(j)' => ~ Held(j)'
               /\ ToPush(j.handle, j.index)' => ~ Queued(j)' /\ ~ Held(j)'
               /\ \A v, w \in Worker : Holds(v, j)' /\ Holds(w, j)' => v = w
    BY <1>5, <1>6, <1>7, JobFacts DEF PoolInv, UniqueInv
  <2> QED BY <2>1, <2>2 DEF UniqueInv
<1>9. \A x \in User : Pending(x)' = Pending(x)
  <2>1. ASSUME NEW x \in User, NEW i \in 1 .. MaxJobs
        PROVE  LET j == [handle |-> x, index |-> i]
               IN  (ToPush(x, i) \/ Queued(j) \/ Held(j))'
                     <=> (ToPush(x, i) \/ Queued(j) \/ Held(j))
    BY <1>0, <1>5, <1>6, <1>7, JobFacts
  <2> QED BY <2>1 DEF Pending
<1>10. IdleInv' /\ CountExact' /\ HandleReleased'
  BY <1>1, <1>8, <1>9, SameCounts DEF Using
<1>11. JobsServed'
  BY <1>0, <1>1 DEF PoolInv, TypeOK, JobsServed
<1> QED BY <1>3, <1>4, <1>8, <1>10, <1>11 DEF PoolInv

(* The tokens of an operation replace its user, who was about to give them.*)
LEMMA ReleaseInv ==
  ASSUME PoolInv, NEW u \in User, Release(u)
  PROVE  PoolInv'
<1>1. /\ upc[u] = "push" /\ next[u] > len[u]
      /\ sem' = sem + len[u] /\ upc' = [upc EXCEPT ![u] = "launched"]
      /\ UNCHANGED <<queueVars, canTerminate, workerVars, handleVars, len, next,
                     launches, mainVars>>
  BY DEF Release
<1>2. TypeOK'
  BY <1>1, PoolAssumption DEF PoolInv, TypeOK, UserPC
<1>3. HandsInv'
  BY <1>1 DEF PoolInv, HandsInv
<1>4. UniqueInv' /\ \A x \in User : Pending(x)' = Pending(x)
  <2>1. \A x \in User, i \in 1 .. MaxJobs : ToPush(x, i)' <=> ToPush(x, i)
    BY <1>1, PoolAssumption DEF PoolInv, TypeOK, ToPush
  <2>2. \A v \in Worker, j \in Job : Holds(v, j)' <=> Holds(v, j)
    BY <1>1 DEF Holds
  <2> QED BY <1>1, <2>1, <2>2, SamePlaces DEF PoolInv
<1>5. IdleInv' /\ CountExact' /\ HandleReleased'
  BY <1>1, <1>4, SameCounts DEF PoolInv, TypeOK, Using
<1>6. JobsServed'
  BY <1>1, PoolAssumption DEF PoolInv, TypeOK, JobsServed
<1> QED BY <1>2, <1>3, <1>4, <1>5, <1>6 DEF PoolInv

(* A user that sees the count at 0 has no job left; if it holds the mutex  *)
(* as well, no worker is still about to leave the handle.                  *)
LEMMA CountZero ==
  ASSUME PoolInv, NEW u \in User, count[u] = 0
  PROVE  /\ Pending(u) = {}
         /\ mutex[u] = NoWorker => Released(u)
<1>1. Pending(u) = {}
  BY PendingFinite DEF PoolInv, CountExact
<1>2. ASSUME mutex[u] = NoWorker, NEW w \in Worker, Using(w, u)
      PROVE  FALSE
  <2>1. /\ job[w] \in Job /\ job[w].handle = u /\ NoWorker \notin Worker
        /\ pc[w] \notin {"sub", "notify", "unlock"}
    BY <1>2, PoolAssumption DEF PoolInv, HandsInv, Using
  <2>2. pc[w] = "exec" /\ Holds(w, job[w])
    BY <1>2, <2>1 DEF Using, Holds
  <2>3. job[w].index \in Pending(u)
    BY <2>1, <2>2, JobFacts DEF Pending, Held
  <2> QED BY <1>1, <2>3
<1> QED BY <1>1, <1>2 DEF Released

(* Polling, waiting and waking up move no job.                             *)
LEMMA WaitInv ==
  ASSUME PoolInv, NEW u \in User,
         Poll(u) \/ OpWait(u) \/ TestCount(u) \/ SpuriousWakeup(u)
  PROVE  PoolInv'
<1>1. PICK l \in {"idle", "lock", "waiting"} :
        /\ upc[u] \in {"launched", "lock", "waiting"}
        /\ upc' = [upc EXCEPT ![u] = l]
        /\ l = "idle" => /\ count[u] = 0
                         /\ u \notin Poller => mutex[u] = NoWorker
        /\ l # "idle" => u \notin Poller \/ upc[u] \in {"lock", "waiting"}
        /\ UNCHANGED <<queueVars, sem, canTerminate, workerVars, handleVars, len,
                       next, launches, mainVars>>
  <2>1. CASE Poll(u)
    BY <2>1 DEF Poll
  <2>2. CASE OpWait(u)
    BY <2>2 DEF OpWait
  <2>3. CASE TestCount(u)
    BY <2>3 DEF TestCount
  <2>4. CASE SpuriousWakeup(u)
    BY <2>4 DEF SpuriousWakeup
  <2> QED BY <2>1, <2>2, <2>3, <2>4
<1>2. TypeOK'
  BY <1>1 DEF PoolInv, TypeOK, UserPC
<1>3. HandsInv'
  BY <1>1 DEF PoolInv, HandsInv
<1>4. UniqueInv' /\ \A x \in User : Pending(x)' = Pending(x)
  <2>1. \A x \in User, i \in 1 .. MaxJobs : ToPush(x, i)' <=> ToPush(x, i)
    BY <1>1 DEF PoolInv, TypeOK, ToPush
  <2>2. \A v \in Worker, j \in Job : Holds(v, j)' <=> Holds(v, j)
    BY <1>1 DEF Holds
  <2> QED BY <1>1, <2>1, <2>2, SamePlaces DEF PoolInv
<1>5. \A w \in Worker, x \in User : Using(w, x)' <=> Using(w, x)
  BY <1>1 DEF Using
<1>6. l = "idle" => /\ Pending(u) = {}
                    /\ u \notin Poller => Released(u)
  BY <1>1, CountZero
<1>7. \A x \in User : x # u => upc'[x] = upc[x]
  BY <1>1 DEF PoolInv, TypeOK
<1>8. upc'[u] = l
  BY <1>1 DEF PoolInv, TypeOK
<1>9. IdleInv'
  BY <1>4, <1>6, <1>7, <1>8 DEF PoolInv, IdleInv
<1>10. HandleReleased'
  BY <1>4, <1>5, <1>6, <1>7, <1>8 DEF PoolInv, HandleReleased, Released
<1>11. CountExact'
  BY <1>1, <1>4 DEF PoolInv, CountExact
<1>12. JobsServed'
  BY <1>1, <1>7 DEF PoolInv, JobsServed
<1> QED BY <1>2, <1>3, <1>4, <1>9, <1>10, <1>11, <1>12 DEF PoolInv

-----------------------------------------------------------------------------
(* The workers                                                             *)

(* A worker moves between the semaphore and the queue without a job.       *)
LEMMA ParkInv ==
  ASSUME PoolInv, NEW w \in Worker, Acquire(w) \/ CheckTerminate(w) \/ PopStart(w)
  PROVE  PoolInv'
<1>1. PICK l \in {"check", "exited", "pop", "popping"} :
        /\ pc[w] \in {"park", "check", "pop"} /\ pc' = [pc EXCEPT ![w] = l]
        /\ UNCHANGED <<items, result, canTerminate, job, handleVars, userVars,
                       mainVars>>
  <2>1. CASE Acquire(w)
    BY <2>1 DEF Acquire
  <2>2. CASE CheckTerminate(w)
    BY <2>2 DEF CheckTerminate
  <2>3. CASE PopStart(w)
    BY <2>3 DEF PopStart, Queue!PopStart
  <2> QED BY <2>1, <2>2, <2>3
<1>2. TypeOK'
  <2>1. /\ sem' \in Nat /\ call' \in [Worker -> {"none", "pop", "return"}]
        /\ sawEmpty' \in [Worker -> BOOLEAN]
    <3>1. CASE Acquire(w)
      BY <3>1 DEF PoolInv, TypeOK, Acquire
    <3>2. CASE CheckTerminate(w)
      BY <3>2 DEF PoolInv, TypeOK, CheckTerminate
    <3>3. CASE PopStart(w)
      <4>1. (items = <<>>) \in BOOLEAN
        OBVIOUS
      <4> QED BY <3>3, <4>1 DEF PoolInv, TypeOK, PopStart, Queue!PopStart
    <3> QED BY <3>1, <3>2, <3>3
  <2> QED BY <1>1, <2>1 DEF PoolInv, TypeOK, WorkerPC
<1>3. HandsInv'
  BY <1>1 DEF PoolInv, TypeOK, HandsInv
<1>4. UniqueInv' /\ \A x \in User : Pending(x)' = Pending(x)
  <2>1. \A x \in User, i \in 1 .. MaxJobs : ToPush(x, i)' <=> ToPush(x, i)
    BY <1>1 DEF ToPush
  <2>2. \A v \in Worker, j \in Job : Holds(v, j)' <=> Holds(v, j)
    BY <1>1 DEF PoolInv, TypeOK, Holds
  <2> QED BY <1>1, <2>1, <2>2, SamePlaces DEF PoolInv
<1>5. IdleInv' /\ CountExact' /\ HandleReleased'
  BY <1>1, <1>4, SameCounts DEF PoolInv, TypeOK, Using
<1>6. JobsServed'
  <2>1. CASE Acquire(w)
    BY <2>1 DEF PoolInv, TypeOK, JobsServed, Acquire
  <2>2. CASE CheckTerminate(w)
    BY <2>2 DEF PoolInv, TypeOK, JobsServed, HandsInv, CheckTerminate
  <2>3. CASE PopStart(w)
    BY <2>3 DEF PoolInv, TypeOK, JobsServed, PopStart, Queue!PopStart
  <2> QED BY <2>1, <2>2, <2>3
<1> QED BY <1>2, <1>3, <1>4, <1>5, <1>6 DEF PoolInv

(* A pop that finds the queue empty is of no use to the jobs that were     *)
(* pushed since.                                                           *)
LEMMA PopFailInv ==
  ASSUME PoolInv, NEW w \in Worker, PopFail(w)
  PROVE  PoolInv'
<1>1. /\ pc[w] = "popping" /\ pc' = [pc EXCEPT ![w] = "park"]
      /\ sawEmpty[w] /\ sawEmpty' = [sawEmpty EXCEPT ![w] = FALSE]
      /\ call' = [call EXCEPT ![w] = "none"]
      /\ UNCHANGED <<items, result, sem, canTerminate, job, handleVars, userVars,
                     mainVars>>
  BY DEF PopFail, Queue!PopFail
<1>2. TypeOK'
  BY <1>1 DEF PoolInv, TypeOK, WorkerPC
<1>3. HandsInv'
  BY <1>1 DEF PoolInv, TypeOK, HandsInv
<1>4. UniqueInv' /\ \A x \in User : Pending(x)' = Pending(x)
  <2>1. \A x \in User, i \in 1 .. MaxJobs : ToPush(x, i)' <=> ToPush(x, i)
    BY <1>1 DEF ToPush
  <2>2. \A v \in Worker, j \in Job : Holds(v, j)' <=> Holds(v, j)
    BY <1>1 DEF PoolInv, TypeOK, Holds
  <2> QED BY <1>1, <2>1, <2>2, SamePlaces DEF PoolInv
<1>5. IdleInv' /\ CountExact' /\ HandleReleased'
  BY <1>1, <1>4, SameCounts DEF PoolInv, TypeOK, Using
<1>6. JobsServed'
  BY <1>1 DEF PoolInv, TypeOK, JobsServed
<1> QED BY <1>2, <1>3, <1>4, <1>5, <1>6 DEF PoolInv

(* A pop moves the oldest job from the queue to the worker, which will     *)
(* look at the queue again.                                                *)
LEMMA PopTakeInv ==
  ASSUME PoolInv, NEW w \in Worker, PopTake(w)
  PROVE  PoolInv'
<1> DEFINE taken == Head(items)
<1>1. /\ pc[w] = "popping" /\ items # <<>>
      /\ items' = Tail(items)
      /\ result' = [result EXCEPT ![w] = taken]
      /\ call' = [call EXCEPT ![w] = "return"]
      /\ pc' = [pc EXCEPT ![w] = "return"]
      /\ sawEmpty' = [d \in Worker |->
           d # w /\ (sawEmpty[d] \/ (call[d] = "pop" /\ Tail(items) = <<>>))]
      /\ UNCHANGED <<sem, canTerminate, job, handleVars, userVars, mainVars>>
  BY DEF PopTake, Queue!PopTake
<1>2. /\ items \in Seq(Job) /\ items' \in Seq(Job) /\ Len(items) \in Nat \ {0}
      /\ Len(items') = Len(items) - 1 /\ taken = items[1] /\ taken \in Job
      /\ \A k \in 1 .. Len(items') : items'[k] = items[k + 1]
  BY <1>1 DEF PoolInv, TypeOK
<1>3. TypeOK'
  <2>1. sawEmpty' \in [Worker -> BOOLEAN]
    <3>1. \A d \in Worker :
            (d # w /\ (sawEmpty[d] \/ (call[d] = "pop" /\ Tail(items) = <<>>)))
              \in BOOLEAN
      OBVIOUS
    <3> QED BY <1>1, <3>1
  <2> QED BY <1>1, <1>2, <2>1 DEF PoolInv, TypeOK, WorkerPC
<1>4. HandsInv'
  BY <1>1, <1>2 DEF PoolInv, TypeOK, HandsInv
<1>5. \A j \in Job : Queued(j)' <=> Queued(j) /\ j # taken
  <2>1. \A k \in 2 .. Len(items) : items[k] # taken
    BY <1>2 DEF PoolInv, UniqueInv
  <2>2. \A j \in Job : Queued(j)' <=> \E k \in 2 .. Len(items) : items[k] = j
    <3>1. ASSUME NEW j \in Job, Queued(j)'
          PROVE  \E k \in 2 .. Len(items) : items[k] = j
      <4>1. PICK k \in 1 .. Len(items') : items'[k] = j
        BY <3>1 DEF Queued
      <4>2. k + 1 \in 2 .. Len(items) /\ items[k + 1] = j
        BY <1>2, <4>1
      <4> QED BY <4>2
    <3>2. ASSUME NEW j \in Job, NEW k \in 2 .. Len(items), items[k] = j
          PROVE  Queued(j)'
      <4>1. k - 1 \in 1 .. Len(items') /\ items'[k - 1] = items[(k - 1) + 1]
        BY <1>2
      <4>2. items'[k - 1] = j
        BY <3>2, <4>1
      <4> QED BY <4>1, <4>2 DEF Queued
    <3> QED BY <3>1, <3>2
  <2>3. \A j \in Job : Queued(j) <=> j = taken \/ \E k \in 2 .. Len(items) : items[k] = j
    BY <1>2 DEF Queued
  <2> QED BY <2>1, <2>2, <2>3
<1>6. \A v \in Worker, j \in Job :
        Holds(v, j)' <=> Holds(v, j) \/ (v = w /\ j = taken)
  BY <1>1 DEF PoolInv, TypeOK, Holds
<1>7. \A j \in Job : Held(j)' <=> Held(j) \/ j = taken
  BY <1>6 DEF Held
<1>8. /\ Queued(taken) /\ ~ Held(taken)
      /\ ~ ToPush(taken.handle, taken.index)
      /\ \A v \in Worker : ~ Holds(v, taken)
  <2>1. Queued(taken)
    BY <1>2 DEF Queued
  <2> QED BY <1>2, <2>1 DEF PoolInv, UniqueInv, Held
<1>9. \A x \in User, i \in 1 .. MaxJobs : ToPush(x, i)' <=> ToPush(x, i)
  BY <1>1 DEF ToPush
<1>10. UniqueInv'
  <2>1. \A i, k \in 1 .. Len(items') : items'[i] = items'[k] => i = k
    <3>1. ASSUME NEW i \in 1 .. Len(items'), NEW k \in 1 .. Len(items'),
                 items'[i] = items'[k]
          PROVE  i = k
      <4>1. i + 1 \in 1 .. Len(items) /\ k + 1 \in 1 .. Len(items)
            /\ items[i + 1] = items[k + 1]
        BY <1>2, <3>1
      <4>2. i + 1 = k + 1
        BY <4>1 DEF PoolInv, UniqueInv
      <4> QED BY <4>2
    <3> QED BY <3>1
  <2>2. ASSUME NEW j \in Job
        PROVE  /\ Queued(j)' => ~ Held(j)'
               /\ ToPush(j.handle, j.index)' => ~ Queued(j)' /\ ~ Held(j)'
               /\ \A u, v \in Worker : Holds(u, j)' /\ Holds(v, j)' => u = v
    BY <1>5, <1>6, <1>7, <1>8, <1>9, JobFacts DEF PoolInv, UniqueInv
  <2> QED BY <2>1, <2>2 DEF UniqueInv
<1>11. \A x \in User : Pending(x)' = Pending(x)
  <2>1. ASSUME NEW x \in User, NEW i \in 1 .. MaxJobs
        PROVE  LET j == [handle |-> x, index |-> i]
               IN  (ToPush(x, i) \/ Queued(j) \/ Held(j))'
                     <=> (ToPush(x, i) \/ Queued(j) \/ Held(j))
    BY <1>5, <1>7, <1>8, <1>9, JobFacts
  <2> QED BY <2>1 DEF Pending
<1>12. IdleInv' /\ CountExact' /\ HandleReleased'
  BY <1>1, <1>10, <1>11, SameCounts DEF PoolInv, TypeOK, Using
<1>13. JobsServed'
  BY <1>1 DEF PoolInv, TypeOK, JobsServed
<1> QED BY <1>3, <1>4, <1>10, <1>12, <1>13 DEF PoolInv

(* From the return of the pop to the end of the job, the job stays in the  *)
(* hands of its worker.                                                    *)
LEMMA PopReturnInv ==
  ASSUME PoolInv, NEW w \in Worker, PopReturn(w)
  PROVE  PoolInv'
<1>1. /\ pc[w] = "return" /\ pc' = [pc EXCEPT ![w] = "exec"]
      /\ job' = [job EXCEPT ![w] = result[w]]
      /\ result' = [result EXCEPT ![w] = NoJob]
      /\ call' = [call EXCEPT ![w] = "none"]
      /\ UNCHANGED <<items, sawEmpty, sem, canTerminate, handleVars, userVars,
                     mainVars>>
  BY DEF PopReturn, Queue!PopReturn
<1>2. TypeOK'
  BY <1>1 DEF PoolInv, TypeOK, WorkerPC
<1>3. HandsInv'
  BY <1>1 DEF PoolInv, TypeOK, HandsInv
<1>4. UniqueInv' /\ \A x \in User : Pending(x)' = Pending(x)
  <2>1. \A x \in User, i \in 1 .. MaxJobs : ToPush(x, i)' <=> ToPush(x, i)
    BY <1>1 DEF ToPush
  <2>2. \A v \in Worker, j \in Job : Holds(v, j)' <=> Holds(v, j)
    BY <1>1 DEF PoolInv, TypeOK, Holds
  <2> QED BY <1>1, <2>1, <2>2, SamePlaces DEF PoolInv
<1>5. ASSUME NEW v \in Worker, NEW x \in User, Using(v, x)', ~ Using(v, x)
      PROVE  upc[x] # "idle"
  <2>1. v = w /\ result[w].handle = x /\ result[w] \in Job
    BY <1>1, <1>5 DEF PoolInv, TypeOK, HandsInv, Using
  <2>2. result[w].index \in Pending(x)
    BY <1>1, <2>1, JobFacts DEF Pending, Held, Holds
  <2> QED BY <2>2 DEF PoolInv, IdleInv
<1>6. IdleInv' /\ CountExact' /\ HandleReleased'
  BY <1>1, <1>4, <1>5, SameCounts DEF PoolInv, TypeOK
<1>7. JobsServed'
  BY <1>1 DEF PoolInv, TypeOK, JobsServed
<1> QED BY <1>2, <1>3, <1>4, <1>6, <1>7 DEF PoolInv

LEMMA LockInv ==
  ASSUME PoolInv, NEW w \in Worker, Lock(w)
  PROVE  PoolInv'
<1>1. /\ pc[w] = "exec" /\ mutex[job[w].handle] = NoWorker
      /\ pc' = [pc EXCEPT ![w] = "sub"]
      /\ mutex' = [mutex EXCEPT ![job[w].handle] = w]
      /\ UNCHANGED <<queueVars, sem, canTerminate, job, count, userVars, mainVars>>
  BY DEF Lock
<1>2. TypeOK'
  BY <1>1 DEF PoolInv, TypeOK, WorkerPC
<1>3. HandsInv'
  <2>1. job[w] \in Job /\ job[w].handle \in User /\ NoWorker \notin Worker
    BY <1>1, JobFacts, PoolAssumption DEF PoolInv, HandsInv
  <2>2. ASSUME NEW v \in Worker, pc[v] \in {"sub", "notify", "unlock"}
        PROVE  job[v].handle # job[w].handle
    BY <1>1, <2>1, <2>2 DEF PoolInv, HandsInv
  <2> QED BY <1>1, <2>1, <2>2 DEF PoolInv, TypeOK, HandsInv
<1>4. UniqueInv' /\ \A x \in User : Pending(x)' = Pending(x)
  <2>1. \A x \in User, i \in 1 .. MaxJobs : ToPush(x, i)' <=> ToPush(x, i)
    BY <1>1 DEF ToPush
  <2>2. \A v \in Worker, j \in Job : Holds(v, j)' <=> Holds(v, j)
    BY <1>1 DEF PoolInv, TypeOK, Holds
  <2> QED BY <1>1, <2>1, <2>2, SamePlaces DEF PoolInv
<1>5. IdleInv' /\ CountExact' /\ HandleReleased'
  BY <1>1, <1>4, SameCounts DEF PoolInv, TypeOK, Using
<1>6. JobsServed'
  BY <1>1 DEF PoolInv, TypeOK, JobsServed
<1> QED BY <1>2, <1>3, <1>4, <1>5, <1>6 DEF PoolInv

(* The worker counts exactly the job that it holds.                        *)
LEMMA SubInv ==
  ASSUME PoolInv, NEW w \in Worker, Sub(w)
  PROVE  PoolInv'
<1>0. job[w] \in Job
  BY DEF Sub, PoolInv, HandsInv
<1>a. PICK u \in User : u = job[w].handle
  BY <1>0, JobFacts
<1>b. PICK i \in 1 .. MaxJobs : i = job[w].index
  BY <1>0, JobFacts
<1>1. /\ pc[w] = "sub" /\ pc' = [pc EXCEPT ![w] = "notify"]
      /\ count' = [count EXCEPT ![u] = @ - 1]
      /\ UNCHANGED <<queueVars, sem, canTerminate, job, mutex, userVars, mainVars>>
  BY <1>a DEF Sub
<1>2. job[w] \in Job /\ u \in User /\ i \in 1 .. MaxJobs /\ Holds(w, job[w])
      /\ job[w] = [handle |-> u, index |-> i]
  BY <1>0, <1>a, <1>b, <1>1, JobFacts DEF Holds
<1>3. \A v \in Worker, j \in Job : Holds(v, j)' <=> Holds(v, j) /\ v # w
  BY <1>1 DEF PoolInv, TypeOK, Holds
<1>4. \A j \in Job : /\ Queued(j)' <=> Queued(j)
                     /\ Held(j)' <=> Held(j) /\ j # job[w]
  <2>1. \A j \in Job : Queued(j)' <=> Queued(j)
    BY <1>1 DEF Queued
  <2>2. \A j \in Job : Holds(w, j) => j = job[w]
    BY <1>1 DEF Holds
  <2>3. \A v \in Worker : Holds(v, job[w]) => v = w
    BY <1>2 DEF PoolInv, UniqueInv
  <2>4. ASSUME NEW j \in Job
        PROVE  Held(j)' <=> Held(j) /\ j # job[w]
    BY <1>3, <2>2, <2>3 DEF Held
  <2> QED BY <2>1, <2>4
<1>5. \A x \in User, k \in 1 .. MaxJobs : ToPush(x, k)' <=> ToPush(x, k)
  BY <1>1 DEF ToPush
<1>6. Held(job[w]) /\ ~ Queued(job[w]) /\ ~ ToPush(u, i)
  <2>1. Held(job[w])
    BY <1>2 DEF Held
  <2> QED BY <1>2, <2>1 DEF PoolInv, UniqueInv
<1>7. UniqueInv'
  BY <1>1, <1>3, <1>4, <1>5, JobFacts DEF PoolInv, UniqueInv
<1>8. i \in Pending(u) /\ Pending(u)' = Pending(u) \ {i}
  <2>1. i \in Pending(u)
    BY <1>2, <1>6 DEF Pending
  <2>2. ASSUME NEW k \in 1 .. MaxJobs
        PROVE  LET j == [handle |-> u, index |-> k]
               IN  (ToPush(u, k) \/ Queued(j) \/ Held(j))'
                     <=> (ToPush(u, k) \/ Queued(j) \/ Held(j)) /\ k # i
    <3> DEFINE j == [handle |-> u, index |-> k]
    <3>1. CASE k = i
      <4>1. j = job[w]
        BY <1>2, <3>1
      <4>2. ~ Held(j)' /\ ~ Queued(j)' /\ ~ ToPush(u, k)'
        BY <1>2, <1>4, <1>5, <1>6, <3>1, <4>1
      <4> QED BY <3>1, <4>2
    <3>2. CASE k # i
      <4>1. j \in Job /\ j # job[w]
        BY <1>2, <3>2, JobFacts
      <4> QED BY <1>2, <1>4, <1>5, <3>2, <4>1
    <3> QED BY <3>1, <3>2
  <2> QED BY <2>1, <2>2 DEF Pending
<1>9. \A x \in User : x # u => Pending(x)' = Pending(x)
  <2>1. ASSUME NEW x \in User, x # u, NEW k \in 1 .. MaxJobs
        PROVE  LET j == [handle |-> x, index |-> k]
               IN  (ToPush(x, k) \/ Queued(j) \/ Held(j))'
                     <=> (ToPush(x, k) \/ Queued(j) \/ Held(j))
    <3> DEFINE j == [handle |-> x, index |-> k]
    <3>1. j \in Job /\ j # job[w]
      BY <1>2, <2>1, JobFacts
    <3> QED BY <1>4, <1>5, <3>1
  <2> QED BY <2>1 DEF Pending
<1>10. /\ count[u] = Cardinality(Pending(u))
       /\ Cardinality(Pending(u)') = count[u] - 1
       /\ count[u] - 1 \in Nat
  <2>1. count[u] = Cardinality(Pending(u))
    BY <1>2 DEF PoolInv, CountExact
  <2>2. Cardinality(Pending(u)') = Cardinality(Pending(u)) - 1
    BY <1>8, PendingFinite, FS_RemoveElement
  <2>3. Cardinality(Pending(u)) \in Nat /\ Cardinality(Pending(u)) # 0
    BY <1>8, PendingFinite
  <2> QED BY <2>1, <2>2, <2>3
<1>11. TypeOK'
  BY <1>1, <1>10 DEF PoolInv, TypeOK, WorkerPC
<1>12. HandsInv'
  BY <1>1 DEF PoolInv, TypeOK, HandsInv
<1>13. CountExact'
  BY <1>1, <1>2, <1>9, <1>10 DEF PoolInv, TypeOK, CountExact
<1>14. upc[u] # "idle"
  BY <1>2, <1>8 DEF PoolInv, IdleInv
<1>15. IdleInv' /\ HandleReleased'
  <2>1. \A v \in Worker, x \in User : Using(v, x)' <=> Using(v, x)
    BY <1>1 DEF PoolInv, TypeOK, Using
  <2> QED BY <1>1, <1>9, <1>14, <2>1
          DEF PoolInv, IdleInv, HandleReleased, Released
<1>16. JobsServed'
  BY <1>1 DEF PoolInv, TypeOK, JobsServed
<1> QED BY <1>7, <1>11, <1>12, <1>13, <1>15, <1>16 DEF PoolInv

LEMMA NotifyInv ==
  ASSUME PoolInv, NEW w \in Worker, Notify(w)
  PROVE  PoolInv'
<1>1. /\ pc[w] = "notify" /\ pc' = [pc EXCEPT ![w] = "unlock"]
      /\ \/ upc' = upc
         \/ /\ upc[job[w].handle] = "waiting"
            /\ upc' = [upc EXCEPT ![job[w].handle] = "lock"]
      /\ UNCHANGED <<queueVars, sem, canTerminate, job, handleVars, len, next,
                     launches, mainVars>>
  BY DEF Notify
<1>2. TypeOK'
  BY <1>1 DEF PoolInv, TypeOK, WorkerPC, UserPC
<1>3. HandsInv'
  BY <1>1 DEF PoolInv, TypeOK, HandsInv
<1>4. UniqueInv' /\ \A x \in User : Pending(x)' = Pending(x)
  <2>1. \A x \in User, i \in 1 .. MaxJobs : ToPush(x, i)' <=> ToPush(x, i)
    BY <1>1 DEF PoolInv, TypeOK, ToPush
  <2>2. \A v \in Worker, j \in Job : Holds(v, j)' <=> Holds(v, j)
    BY <1>1 DEF PoolInv, TypeOK, Holds
  <2> QED BY <1>1, <2>1, <2>2, SamePlaces DEF PoolInv
<1>5. IdleInv' /\ CountExact' /\ HandleReleased'
  BY <1>1, <1>4, SameCounts DEF PoolInv, TypeOK, Using
<1>6. JobsServed'
  BY <1>1 DEF PoolInv, TypeOK, JobsServed
<1> QED BY <1>2, <1>3, <1>4, <1>5, <1>6 DEF PoolInv

LEMMA UnlockInv ==
  ASSUME PoolInv, NEW w \in Worker, Unlock(w)
  PROVE  PoolInv'
<1>1. /\ pc[w] = "unlock" /\ pc' = [pc EXCEPT ![w] = "pop"]
      /\ mutex' = [mutex EXCEPT ![job[w].handle] = NoWorker]
      /\ job' = [job EXCEPT ![w] = NoJob]
      /\ UNCHANGED <<queueVars, sem, canTerminate, count, userVars, mainVars>>
  BY DEF Unlock
<1>2. TypeOK'
  BY <1>1 DEF PoolInv, TypeOK, WorkerPC
<1>3. HandsInv'
  <2>1. mutex[job[w].handle] = w
    BY <1>1 DEF PoolInv, HandsInv
  <2> QED BY <1>1, <2>1 DEF PoolInv, TypeOK, HandsInv
<1>4. UniqueInv' /\ \A x \in User : Pending(x)' = Pending(x)
  <2>1. \A x \in User, i \in 1 .. MaxJobs : ToPush(x, i)' <=> ToPush(x, i)
    BY <1>1 DEF ToPush
  <2>2. \A v \in Worker, j \in Job : Holds(v, j)' <=> Holds(v, j)
    BY <1>1 DEF PoolInv, TypeOK, Holds
  <2> QED BY <1>1, <2>1, <2>2, SamePlaces DEF PoolInv
<1>5. IdleInv' /\ CountExact' /\ HandleReleased'
  BY <1>1, <1>4, SameCounts DEF PoolInv, TypeOK, Using
<1>6. JobsServed'
  BY <1>1 DEF PoolInv, TypeOK, JobsServed
<1> QED BY <1>2, <1>3, <1>4, <1>5, <1>6 DEF PoolInv

-----------------------------------------------------------------------------
(* tu_tp_fini                                                              *)

LEMMA FiniInv ==
  ASSUME PoolInv, Fini \/ FiniStep
  PROVE  PoolInv'
<1>1. /\ mpc' # "run" /\ mpc' \in MainPC
      /\ UNCHANGED <<queueVars, workerVars, handleVars, userVars>>
  <2>1. CASE Fini
    BY <2>1 DEF Fini, MainPC
  <2>2. CASE SetTerminate
    BY <2>2 DEF SetTerminate, MainPC
  <2>3. CASE ReleaseAll
    BY <2>3 DEF ReleaseAll, MainPC
  <2>4. CASE JoinAll
    BY <2>4 DEF JoinAll, MainPC
  <2> QED BY <2>1, <2>2, <2>3, <2>4 DEF FiniStep
<1>2. TypeOK'
  <2>1. /\ sem' \in Nat /\ canTerminate' \in [Worker -> BOOLEAN]
        /\ mi' \in 1 .. NumWorkers + 1
    <3>0. NumWorkers \in Nat \ {0} /\ NumWorkers \in Nat
      BY PoolAssumption
    <3>1. CASE Fini \/ JoinAll
      BY <3>0, <3>1 DEF PoolInv, TypeOK, Fini, JoinAll
    <3>2. CASE SetTerminate
      <4>1. canTerminate' \in [Worker -> BOOLEAN]
        BY <3>2 DEF PoolInv, TypeOK, SetTerminate
      <4>2. sem' \in Nat /\ mi' \in 1 .. NumWorkers + 1
        BY <3>0, <3>2 DEF PoolInv, TypeOK, SetTerminate
      <4> QED BY <4>1, <4>2
    <3>3. CASE ReleaseAll
      BY <3>0, <3>3 DEF PoolInv, TypeOK, ReleaseAll
    <3> QED BY <3>1, <3>2, <3>3 DEF FiniStep
  <2> QED BY <1>1, <2>1 DEF PoolInv, TypeOK
<1>3. HandsInv'
  BY <1>1 DEF PoolInv, HandsInv
<1>4. UniqueInv' /\ \A x \in User : Pending(x)' = Pending(x)
  <2>1. \A x \in User, i \in 1 .. MaxJobs : ToPush(x, i)' <=> ToPush(x, i)
    BY <1>1 DEF ToPush
  <2>2. \A v \in Worker, j \in Job : Holds(v, j)' <=> Holds(v, j)
    BY <1>1 DEF Holds
  <2> QED BY <1>1, <2>1, <2>2, SamePlaces DEF PoolInv
<1>5. IdleInv' /\ CountExact' /\ HandleReleased'
  BY <1>1, <1>4, SameCounts DEF Using
<1>6. JobsServed'
  BY <1>1 DEF JobsServed
<1> QED BY <1>2, <1>3, <1>4, <1>5, <1>6 DEF PoolInv

-----------------------------------------------------------------------------
LEMMA PoolInvInit == Init => PoolInv
<1> SUFFICES ASSUME Init PROVE PoolInv
  OBVIOUS
<1>1. TypeOK
  BY PoolAssumption DEF Init, Queue!FifoInit, TypeOK, WorkerPC, UserPC, MainPC
<1>2. HandsInv
  BY DEF Init, HandsInv
<1>3. /\ items = <<>>
      /\ \A j \in Job : ~ Queued(j) /\ ~ Held(j)
      /\ \A j \in Job, w \in Worker : ~ Holds(w, j)
  <2>1. items = <<>>
    BY DEF Init, Queue!FifoInit
  <2>2. \A j \in Job, w \in Worker : ~ Holds(w, j)
    BY DEF Init, Holds
  <2> QED BY <2>1, <2>2 DEF Queued, Held
<1>4. \A u \in User, i \in 1 .. MaxJobs : ~ ToPush(u, i)
  BY DEF Init, ToPush
<1>5. UniqueInv
  BY <1>3, <1>4, JobFacts DEF UniqueInv
<1>6. \A u \in User : Pending(u) = {}
  BY <1>3, <1>4, JobFacts DEF Pending
<1>7. IdleInv /\ CountExact
  BY <1>6, FS_EmptySet DEF IdleInv, CountExact, Init
<1>8. HandleReleased
  BY <1>6 DEF HandleReleased, Released, Using, Init
<1>9. JobsServed
  BY DEF JobsServed, Init, Queue!FifoInit
<1> QED BY <1>1, <1>2, <1>5, <1>7, <1>8, <1>9 DEF PoolInv

LEMMA PoolInvNext == PoolInv /\ [Next]_vars => PoolInv'
<1> SUFFICES ASSUME PoolInv, [Next]_vars PROVE PoolInv'
  OBVIOUS
<1>1. ASSUME NEW w \in Worker, WorkerStep(w)
      PROVE  PoolInv'
  <2>1. CASE Acquire(w) \/ CheckTerminate(w) \/ PopStart(w)
    BY <2>1, ParkInv
  <2>2. CASE PopTake(w) \/ PopReturn(w) \/ PopFail(w)
    BY <2>2, PopTakeInv, PopReturnInv, PopFailInv
  <2>3. CASE Lock(w) \/ Sub(w) \/ Notify(w) \/ Unlock(w)
    BY <2>3, LockInv, SubInv, NotifyInv, UnlockInv
  <2> QED BY <1>1, <2>1, <2>2, <2>3 DEF WorkerStep
<1>2. ASSUME NEW u \in User, UserStep(u) \/ SpuriousWakeup(u)
      PROVE  PoolInv'
  BY <1>2, PushJobInv, ReleaseInv, WaitInv DEF UserStep
<1>3. CASE Decide
  BY <1>3, WaitInv, LaunchInv, FiniInv DEF Decide
<1>4. CASE FiniStep
  BY <1>4, FiniInv
<1>5. CASE UNCHANGED vars
  <2>1. /\ TypeOK' /\ HandsInv' /\ JobsServed'
        /\ items' = items /\ count' = count /\ upc' = upc
    BY <1>5 DEF vars, PoolInv, TypeOK, HandsInv, JobsServed
  <2>2. /\ \A x \in User, i \in 1 .. MaxJobs : ToPush(x, i)' <=> ToPush(x, i)
        /\ \A v \in Worker, j \in Job : Holds(v, j)' <=> Holds(v, j)
        /\ \A v \in Worker, x \in User : Using(v, x)' <=> Using(v, x)
    BY <1>5 DEF vars, ToPush, Holds, Using
  <2>3. UniqueInv' /\ \A x \in User : Pending(x)' = Pending(x)
    BY <2>1, <2>2, SamePlaces DEF PoolInv
  <2>4. IdleInv' /\ CountExact' /\ HandleReleased'
    BY <2>1, <2>2, <2>3, SameCounts
  <2> QED BY <2>1, <2>3, <2>4 DEF PoolInv
<1> QED BY <1>1, <1>2, <1>3, <1>4, <1>5 DEF Next, Terminated

(* The invariant of the pool holds in every reachable state.               *)
THEOREM PoolInvariance == Spec => []PoolInv
BY PoolInvInit, PoolInvNext, PTL DEF Spec

(* No variable leaves its type: tu_tp_progress_op never decrements a count *)
(* of 0, a user never pushes more than the jobs it was given.              *)
THEOREM PoolTyped == Spec => []TypeOK
<1>1. PoolInv => TypeOK
  BY DEF PoolInv
<1> QED BY <1>1, PoolInvariance, PTL

(* process_count is the number of the jobs of the operation that have not  *)
(* been counted.                                                           *)
THEOREM CountIsExact == Spec => []CountExact
<1>1. PoolInv => CountExact
  BY DEF PoolInv
<1> QED BY <1>1, PoolInvariance, PTL

(* When tu_tp_op_wait has returned, no job of the operation is left and no *)
(* worker will use the handle: its owner may destroy it.                   *)
THEOREM HandlesAreReleased == Spec => []HandleReleased
<1>1. PoolInv => HandleReleased
  BY DEF PoolInv
<1> QED BY <1>1, PoolInvariance, PTL

(* As long as the pool runs, a job in the queue has a token or a worker    *)
(* that will look at the queue again.                                      *)
THEOREM JobsAreServed == Spec => []JobsServed
<1>1. PoolInv => JobsServed
  BY DEF PoolInv
<1> QED BY <1>1, PoolInvariance, PTL
=============================================================================
