-------------------------- MODULE AsyncWorkerProofs --------------------------
(***************************************************************************)
(* Proofs about the asynchronous worker: for any number of users that wait *)
(* and any number of jobs.                                                 *)
(***************************************************************************)
EXTENDS AsyncWorker, SequenceTheorems, TLAPS

-----------------------------------------------------------------------------
(* Lemmas                                                                  *)

(* The worker, the owner and the others are different threads.             *)
LEMMA Threads ==
  /\ Worker \in Thread /\ Owner \in Thread /\ Owner \in User
  /\ Worker \notin User
  /\ User \subseteq Thread /\ Waiter \subseteq User
  /\ Worker # Owner
  /\ \A u \in Waiter : u # Owner /\ u # Worker
BY AwAssumption DEF Thread, User

(* The type invariant in two parts: where the threads are, and the data.   *)
PcOK ==
  /\ pc \in [Thread -> WorkerPC \cup OwnerPC]
  /\ pc[Worker] \in WorkerPC /\ pc[Owner] \in OwnerPC
  /\ \A u \in Waiter : pc[u] \in UserPC

DataOK ==
  /\ workDone \in BOOLEAN /\ canTerminate \in BOOLEAN
  /\ waited \in BOOLEAN /\ absorbed \in BOOLEAN
  /\ job \in Nat /\ posted \in Nat /\ ran \in Seq(Nat)
  /\ target \in [User -> Nat] /\ inits \in Nat

LEMMA TypeParts == TypeOK <=> PcOK /\ DataOK
BY DEF TypeOK, PcOK, DataOK

(* One thread goes on, the others stay.                                    *)
LEMMA OneGoes ==
  ASSUME PcOK, NEW t \in Thread, NEW l, Goto(t, l),
         t = Worker => l \in WorkerPC,
         t = Owner => l \in OwnerPC,
         t \in Waiter => l \in UserPC
  PROVE  /\ PcOK' /\ pc'[t] = l
         /\ \A s \in Thread \ {t} : pc'[s] = pc[s]
<1>1. l \in WorkerPC \cup OwnerPC
  BY DEF Thread, User, OwnerPC
<1>2. /\ pc' \in [Thread -> WorkerPC \cup OwnerPC] /\ pc'[t] = l
      /\ \A s \in Thread \ {t} : pc'[s] = pc[s]
  BY <1>1 DEF PcOK, Goto
<1> QED BY <1>2, Threads DEF PcOK

(* A thread is where it was, or has been woken.                            *)
Kept(t) == pc'[t] = pc[t]
Woken(t) == pc[t] = "asleep" /\ pc'[t] = "lock"

LEMMA WokenTyped ==
  ASSUME PcOK, NEW t \in Thread, pc'[t] \in OwnerPC,
         t = Owner,
         pc' \in [Thread -> WorkerPC \cup OwnerPC],
         \A s \in Thread \ {t} : Kept(s) \/ Woken(s)
  PROVE  PcOK'
BY Threads DEF PcOK, Kept, Woken, WorkerPC, UserPC

(* A notification: the caller goes on, at most one thread wakes up, and if *)
(* it is not the worker, which sleeps, this is recorded.                   *)
LEMMA Notification ==
  ASSUME PcOK, absorbed \in BOOLEAN,
         NEW t \in Thread, NEW l \in WorkerPC \cup OwnerPC,
         NotifyOne(t, l), pc[t] # "asleep"
  PROVE  /\ pc'[t] = l
         /\ \A s \in Thread \ {t} : Kept(s) \/ Woken(s)
         /\ pc' \in [Thread -> WorkerPC \cup OwnerPC]
         /\ absorbed' \in BOOLEAN
         /\ t # Worker /\ pc'[Worker] = "asleep" => absorbed'
<1>1. CASE Asleep = {} /\ Goto(t, l) /\ UNCHANGED absorbed
  <2>1. \A r \in Thread : pc[r] # "asleep"
    BY <1>1 DEF Asleep
  <2>2. /\ pc' \in [Thread -> WorkerPC \cup OwnerPC] /\ pc'[t] = l
        /\ \A s \in Thread \ {t} : pc'[s] = pc[s]
    BY <1>1 DEF PcOK, Goto
  <2>3. absorbed' \in BOOLEAN
    BY <1>1
  <2> QED BY <2>1, <2>2, <2>3, Threads DEF Kept
<1>2. ASSUME NEW s \in Asleep,
             pc' = [pc EXCEPT ![t] = l, ![s] = "lock"],
             absorbed' = (s # Worker /\ Worker \in Asleep)
      PROVE  /\ pc'[t] = l
             /\ \A r \in Thread \ {t} : Kept(r) \/ Woken(r)
             /\ pc' \in [Thread -> WorkerPC \cup OwnerPC]
             /\ absorbed' \in BOOLEAN
             /\ t # Worker /\ pc'[Worker] = "asleep" => absorbed'
  <2>1. s \in Thread /\ pc[s] = "asleep" /\ s # t
    BY <1>2 DEF Asleep
  <2>2. pc' \in [Thread -> WorkerPC \cup OwnerPC] /\ pc'[t] = l /\ pc'[s] = "lock"
        /\ \A r \in Thread \ {s, t} : pc'[r] = pc[r]
    BY <1>2, <2>1 DEF PcOK, WorkerPC
  <2>3. t # Worker /\ pc'[Worker] = "asleep" => Worker # s /\ Worker \in Asleep
    BY <2>1, <2>2, Threads DEF Asleep
  <2> QED BY <1>2, <2>1, <2>2, <2>3 DEF Kept, Woken
<1>3. \/ Asleep = {} /\ Goto(t, l) /\ UNCHANGED absorbed
      \/ \E s \in Asleep :
           /\ pc' = [pc EXCEPT ![t] = l, ![s] = "lock"]
           /\ absorbed' = (s # Worker /\ Worker \in Asleep)
  BY DEF NotifyOne
<1> QED BY <1>1, <1>2, <1>3, Zenon

(* What the flags and the counts say of the jobs.                          *)
InOrder == \A i \in 1 .. Len(ran) : ran[i] = i

LEMMA OrderFromCounts ==
  DataOK /\ FlagsInv /\ CountInv /\ InOrder => JobsInOrder
<1> SUFFICES ASSUME DataOK, FlagsInv, CountInv, InOrder PROVE JobsInOrder
  OBVIOUS
<1>1. Len(ran) \in Nat /\ posted \in Nat
  BY DEF DataOK
<1>2. posted - Len(ran) \in {0, 1}
  BY <1>1 DEF CountInv
<1>3. ASSUME waited, pc[Owner] = "idle"
      PROVE  workDone /\ ~ canTerminate /\ Finished = posted
  BY <1>1, <1>3 DEF FlagsInv, CountInv, Finished
<1> QED BY <1>2, <1>3 DEF JobsInOrder, InOrder

(* The parts of the invariant after a step.                                *)
LEMMA Assemble ==
  ASSUME PcOK', DataOK', FlagsInv', CountInv', InOrder', WorkerNotified'
  PROVE  AwInv'
<1>1. (DataOK /\ FlagsInv /\ CountInv /\ InOrder => JobsInOrder)'
  BY OrderFromCounts, PTL
<1>2. (TypeOK <=> PcOK /\ DataOK)'
  BY TypeParts, PTL
<1> QED BY <1>1, <1>2 DEF AwInv

(* A step that moves threads only.                                         *)
LEMMA QuietStep ==
  ASSUME AwInv, UNCHANGED <<flags, job, history, inits>>,
         PcOK', absorbed' \in BOOLEAN,
         pc'[Worker] = "run" <=> pc[Worker] = "run",
         pc'[Owner] \in {"finiNotify", "join", "end"}
           <=> pc[Owner] \in {"finiNotify", "join", "end"},
         WorkerNotified'
  PROVE  AwInv'
<1>1. PcOK /\ DataOK /\ FlagsInv /\ CountInv /\ JobsInOrder
  BY TypeParts DEF AwInv
<1>2. UNCHANGED <<workDone, canTerminate, job, posted, ran, waited, target, inits>>
  BY DEF flags, history
<1>3. DataOK'
  BY <1>1, <1>2 DEF DataOK
<1>4. FlagsInv'
  BY <1>1, <1>2 DEF FlagsInv
<1>5. CountInv'
  BY <1>1, <1>2 DEF CountInv
<1>6. InOrder'
  BY <1>1, <1>2 DEF JobsInOrder, InOrder
<1> QED BY <1>3, <1>4, <1>5, <1>6, Assemble

-----------------------------------------------------------------------------
(* The invariant                                                           *)

LEMMA InitInv == Init => AwInv
<1> SUFFICES ASSUME Init PROVE AwInv
  OBVIOUS
<1>1. pc = [t \in Thread |-> IF t = Worker THEN "lock" ELSE "idle"]
  BY DEF Init
<1>2. PcOK /\ pc[Worker] = "lock" /\ pc[Owner] = "idle"
  BY <1>1, Threads DEF PcOK, WorkerPC, OwnerPC, UserPC
<1>3. workDone /\ ~ canTerminate
  BY DEF Init
<1>4. ran \in Seq(Nat) /\ Len(ran) = 0
  BY EmptySeq DEF Init
<1>5. job = 0 /\ posted = 0 /\ target = [u \in User |-> 0] /\ inits = 1
  BY DEF Init
<1>6. workDone \in BOOLEAN /\ canTerminate \in BOOLEAN
      /\ waited \in BOOLEAN /\ absorbed \in BOOLEAN
  BY DEF Init
<1>7. DataOK
  BY <1>4, <1>5, <1>6 DEF DataOK
<1>8. FlagsInv
  BY <1>2, <1>3 DEF FlagsInv
<1>9. CountInv
  BY <1>3, <1>4, <1>5 DEF CountInv
<1>10. JobsInOrder
  BY <1>4, <1>7, <1>8, <1>9, OrderFromCounts DEF InOrder
<1>11. WorkerNotified
  BY <1>2 DEF WorkerNotified
<1> QED BY <1>2, <1>7, <1>8, <1>9, <1>10, <1>11, TypeParts DEF AwInv
-----------------------------------------------------------------------------
(* The steps                                                               *)

LEMMA StepExec == AwInv /\ Exec => AwInv'
<1> SUFFICES ASSUME AwInv, Exec PROVE AwInv'
  OBVIOUS
<1>1. PcOK /\ DataOK /\ FlagsInv /\ CountInv /\ JobsInOrder
  BY TypeParts DEF AwInv
<1>2. /\ Goto(Owner, "notify") /\ waited /\ pc[Owner] = "idle" /\ pc[Worker] # "run"
      /\ posted' = posted + 1 /\ job' = posted + 1
      /\ UNCHANGED <<canTerminate, ran, target, absorbed, inits>>
  BY DEF Exec, MutexFree
<1>3. ~ workDone' /\ ~ waited' /\ workDone /\ ~ canTerminate
  BY <1>1, <1>2 DEF Exec, FlagsInv
<1>4. PcOK' /\ pc'[Owner] = "notify" /\ pc'[Worker] = pc[Worker]
  BY <1>1, <1>2, Threads, OneGoes DEF OwnerPC
<1>5. workDone' \in BOOLEAN /\ waited' \in BOOLEAN /\ canTerminate' \in BOOLEAN
      /\ absorbed' \in BOOLEAN
  BY <1>1, <1>2 DEF Exec, DataOK
<1>6. DataOK'
  BY <1>1, <1>2, <1>5 DEF DataOK
<1>7. FlagsInv'
  BY <1>2, <1>3, <1>4 DEF FlagsInv
<1>8. CountInv'
  <2>1. posted = Len(ran) /\ Len(ran) \in Nat
    BY <1>1, <1>3 DEF CountInv, DataOK
  <2>2. \A u \in User : target'[u] <= posted'
    BY <1>1, <1>2 DEF CountInv, DataOK
  <2> QED BY <1>2, <1>3, <1>4, <2>1, <2>2 DEF CountInv
<1>9. InOrder'
  BY <1>1, <1>2 DEF JobsInOrder, InOrder
<1>10. WorkerNotified'
  BY <1>4 DEF WorkerNotified
<1> QED BY <1>4, <1>6, <1>7, <1>8, <1>9, <1>10, Assemble

(* Both notifications of the owner.                                        *)
LEMMA StepNotify ==
  ASSUME AwInv, UNCHANGED <<flags, job, history, inits>>,
         NEW l \in {"idle", "join"}, NotifyOne(Owner, l),
         l = "idle" => pc[Owner] = "notify",
         l = "join" => pc[Owner] = "finiNotify"
  PROVE  AwInv'
<1>1. PcOK /\ absorbed \in BOOLEAN
  BY TypeParts DEF AwInv, DataOK
<1>2. l \in OwnerPC /\ pc[Owner] # "asleep"
  BY DEF OwnerPC, UserPC
<1>3. /\ pc'[Owner] = l
      /\ \A s \in Thread \ {Owner} : Kept(s) \/ Woken(s)
      /\ pc' \in [Thread -> WorkerPC \cup OwnerPC]
      /\ absorbed' \in BOOLEAN
      /\ pc'[Worker] = "asleep" => absorbed'
  BY <1>1, <1>2, Threads, Notification
<1>4. PcOK'
  BY <1>1, <1>2, <1>3, Threads, WokenTyped
<1>5. pc'[Worker] = "run" <=> pc[Worker] = "run"
  BY <1>3, Threads DEF Kept, Woken
<1>6. WorkerNotified'
  BY <1>3 DEF WorkerNotified
<1> QED BY <1>3, <1>4, <1>5, <1>6, QuietStep

LEMMA StepOwner == AwInv /\ OwnerStep => AwInv'
<1>1. ASSUME AwInv, ExecNotify PROVE AwInv'
  BY <1>1, StepNotify DEF ExecNotify
<1>2. ASSUME AwInv, FiniNotify PROVE AwInv'
  BY <1>2, StepNotify DEF FiniNotify
<1>3. ASSUME AwInv, Join PROVE AwInv'
  <2>1. PcOK /\ absorbed \in BOOLEAN
    BY <1>3, TypeParts DEF AwInv, DataOK
  <2>2. PcOK' /\ pc'[Owner] = "end" /\ pc'[Worker] = pc[Worker] /\ absorbed' = absorbed
    BY <1>3, <2>1, Threads, OneGoes DEF Join, OwnerPC
  <2>3. WorkerNotified'
    BY <1>3, <2>2 DEF WorkerNotified, Join
  <2> QED BY <1>3, <2>1, <2>2, <2>3, QuietStep DEF Join
<1> QED BY <1>1, <1>2, <1>3 DEF OwnerStep

LEMMA UserGoes ==
  ASSUME PcOK, NEW u \in User, NEW l \in UserPC, Goto(u, l)
  PROVE  /\ PcOK' /\ pc'[u] = l /\ pc'[Worker] = pc[Worker]
         /\ u # Owner => pc'[Owner] = pc[Owner]
BY Threads, OneGoes DEF OwnerPC

LEMMA StepWait ==
  ASSUME AwInv, NEW u \in User, Wait(u)
  PROVE  AwInv'
<1>1. PcOK /\ DataOK /\ FlagsInv /\ CountInv /\ JobsInOrder /\ WorkerNotified
  BY TypeParts DEF AwInv
<1>2. /\ target' = [target EXCEPT ![u] = posted] /\ Goto(u, "lock")
      /\ pc[u] = "idle" /\ pc[Owner] \notin {"finiNotify", "join", "end"}
      /\ UNCHANGED <<workDone, canTerminate, job, posted, ran, waited, absorbed, inits>>
  BY DEF Wait, flags
<1>3. /\ PcOK' /\ pc'[u] = "lock" /\ pc'[Worker] = pc[Worker]
      /\ u # Owner => pc'[Owner] = pc[Owner]
  BY <1>1, <1>2, UserGoes DEF UserPC
<1>4. DataOK'
  BY <1>1, <1>2 DEF DataOK
<1>5. FlagsInv'
  BY <1>1, <1>2, <1>3 DEF FlagsInv
<1>6. CountInv'
  <2>1. \A v \in User : target'[v] <= posted'
    BY <1>1, <1>2 DEF CountInv, DataOK
  <2> QED BY <1>1, <1>2, <1>3, <2>1 DEF CountInv
<1>7. InOrder'
  BY <1>1, <1>2 DEF JobsInOrder, InOrder
<1>8. WorkerNotified'
  BY <1>1, <1>2, <1>3 DEF WorkerNotified
<1> QED BY <1>3, <1>4, <1>5, <1>6, <1>7, <1>8, Assemble

(* The owner returns when its last job is done: it has not called          *)
(* tu_aw_fini, so the flag is not the reason.                              *)
LEMMA StepUser ==
  ASSUME AwInv, NEW u \in User, UserStep(u)
  PROVE  AwInv'
<1>1. PcOK /\ DataOK /\ FlagsInv /\ CountInv /\ JobsInOrder /\ WorkerNotified
  BY TypeParts DEF AwInv
<1>2. CASE WaitReturn(u)
  <2>1. /\ Goto(u, "idle") /\ pc[u] = "lock" /\ pc[Worker] # "run"
        /\ UNCHANGED <<workDone, canTerminate, job, posted, ran, target, absorbed, inits>>
    BY <1>2 DEF WaitReturn, MutexFree, flags
  <2>2. /\ PcOK' /\ pc'[u] = "idle" /\ pc'[Worker] = pc[Worker]
        /\ u # Owner => pc'[Owner] = pc[Owner]
    BY <1>1, <2>1, UserGoes DEF UserPC
  <2>3. waited' \in BOOLEAN /\ (waited' => waited \/ u = Owner)
    BY <1>2 DEF WaitReturn
  <2>4. u = Owner => ~ canTerminate /\ workDone
    BY <1>1, <1>2, <2>1 DEF FlagsInv, WaitReturn
  <2>5. DataOK'
    <3>1. workDone' \in BOOLEAN /\ canTerminate' \in BOOLEAN /\ absorbed' \in BOOLEAN
      BY <1>1, <2>1 DEF DataOK
    <3> QED BY <1>1, <2>1, <2>3, <3>1 DEF DataOK
  <2>6. FlagsInv'
    BY <1>1, <2>1, <2>2, <2>3, <2>4 DEF FlagsInv
  <2>7. CountInv'
    BY <1>1, <2>1, <2>2 DEF CountInv
  <2>8. InOrder'
    BY <1>1, <2>1 DEF JobsInOrder, InOrder
  <2>9. WorkerNotified'
    BY <1>1, <2>1, <2>2 DEF WorkerNotified
  <2> QED BY <2>2, <2>5, <2>6, <2>7, <2>8, <2>9, Assemble
<1>3. CASE WaitSleep(u)
  <2>1. /\ Goto(u, "asleep") /\ pc[u] = "lock"
        /\ UNCHANGED <<flags, job, history, inits>> /\ absorbed' = absorbed
    BY <1>3 DEF WaitSleep
  <2>2. /\ PcOK' /\ pc'[u] = "asleep" /\ pc'[Worker] = pc[Worker]
        /\ u # Owner => pc'[Owner] = pc[Owner]
    BY <1>1, <2>1, UserGoes DEF UserPC
  <2>3. WorkerNotified'
    BY <1>1, <2>1, <2>2 DEF WorkerNotified, flags
  <2>4. absorbed' \in BOOLEAN
    BY <1>1, <2>1 DEF DataOK
  <2> QED BY <2>1, <2>2, <2>3, <2>4, QuietStep
<1> QED BY <1>2, <1>3 DEF UserStep

LEMMA StepFini == AwInv /\ Fini => AwInv'
<1> SUFFICES ASSUME AwInv, Fini PROVE AwInv'
  OBVIOUS
<1>1. PcOK /\ DataOK /\ FlagsInv /\ CountInv /\ JobsInOrder
  BY TypeParts DEF AwInv
<1>2. /\ Goto(Owner, "finiNotify") /\ pc[Owner] = "idle"
      /\ UNCHANGED <<workDone, job, posted, ran, waited, target, absorbed, inits>>
  BY DEF Fini, history
<1>3. canTerminate'
  BY DEF Fini
<1>4. PcOK' /\ pc'[Owner] = "finiNotify" /\ pc'[Worker] = pc[Worker]
  BY <1>1, <1>2, Threads, OneGoes DEF OwnerPC
<1>5. DataOK'
  <2>1. workDone' \in BOOLEAN /\ canTerminate' \in BOOLEAN
        /\ waited' \in BOOLEAN /\ absorbed' \in BOOLEAN
    BY <1>1, <1>2 DEF DataOK, Fini
  <2> QED BY <1>1, <1>2, <2>1 DEF DataOK
<1>6. FlagsInv'
  BY <1>1, <1>2, <1>3, <1>4 DEF FlagsInv
<1>7. CountInv'
  BY <1>1, <1>2, <1>4 DEF CountInv
<1>8. InOrder'
  BY <1>1, <1>2 DEF JobsInOrder, InOrder
<1>9. WorkerNotified'
  BY <1>4 DEF WorkerNotified
<1> QED BY <1>4, <1>5, <1>6, <1>7, <1>8, <1>9, Assemble

LEMMA StepReinit == AwInv /\ Reinit => AwInv'
<1> SUFFICES ASSUME AwInv, Reinit PROVE AwInv'
  OBVIOUS
<1>1. PcOK /\ DataOK
  BY TypeParts DEF AwInv
<1>2. /\ pc' = [pc EXCEPT ![Owner] = "idle", ![Worker] = "lock"]
      /\ inits' = inits + 1 /\ job' = 0 /\ posted' = 0 /\ ran' = <<>>
      /\ target' = [u \in User |-> 0] /\ absorbed' = absorbed
  BY DEF Reinit
<1>3. workDone' /\ ~ canTerminate' /\ waited' \in BOOLEAN
      /\ workDone' \in BOOLEAN /\ canTerminate' \in BOOLEAN
  BY DEF Reinit
<1>4. PcOK' /\ pc'[Owner] = "idle" /\ pc'[Worker] = "lock"
  BY <1>1, <1>2, Threads DEF PcOK, WorkerPC, OwnerPC, UserPC
<1>5. ran' \in Seq(Nat) /\ Len(ran') = 0
  BY <1>2, EmptySeq
<1>6. DataOK'
  <2>1. absorbed' \in BOOLEAN
    BY <1>1, <1>2 DEF DataOK
  <2> QED BY <1>1, <1>2, <1>3, <1>5, <2>1 DEF DataOK
<1>7. FlagsInv'
  BY <1>3, <1>4 DEF FlagsInv
<1>8. CountInv'
  BY <1>2, <1>3, <1>5 DEF CountInv
<1>9. InOrder'
  BY <1>5 DEF InOrder
<1>10. WorkerNotified'
  BY <1>4 DEF WorkerNotified
<1> QED BY <1>4, <1>6, <1>7, <1>8, <1>9, <1>10, Assemble

LEMMA WorkerGoes ==
  ASSUME PcOK, NEW l \in WorkerPC, Goto(Worker, l)
  PROVE  /\ PcOK' /\ pc'[Worker] = l
         /\ \A u \in User : pc'[u] = pc[u]
BY Threads, OneGoes

LEMMA StepRunJob == AwInv /\ RunJob => AwInv'
<1> SUFFICES ASSUME AwInv, RunJob PROVE AwInv'
  OBVIOUS
<1>1. PcOK /\ DataOK /\ FlagsInv /\ CountInv /\ JobsInOrder
  BY TypeParts DEF AwInv
<1>2. /\ Goto(Worker, "run") /\ pc[Worker] = "lock" /\ ~ workDone
      /\ ran' = Append(ran, job)
      /\ UNCHANGED <<workDone, canTerminate, job, posted, waited, target, absorbed, inits>>
  BY DEF RunJob, flags
<1>3. PcOK' /\ pc'[Worker] = "run" /\ pc'[Owner] = pc[Owner]
  BY <1>1, <1>2, WorkerGoes, Threads DEF WorkerPC
<1>4. /\ ran' \in Seq(Nat) /\ Len(ran') = Len(ran) + 1 /\ Len(ran) \in Nat
      /\ ran'[Len(ran) + 1] = job
      /\ \A i \in 1 .. Len(ran) : ran'[i] = ran[i]
  BY <1>1, <1>2, AppendProperties DEF DataOK
<1>5. job = Len(ran) + 1 /\ posted = Len(ran) + 1
  BY <1>1, <1>2 DEF CountInv
<1>6. DataOK'
  <2>1. workDone' \in BOOLEAN /\ canTerminate' \in BOOLEAN
        /\ waited' \in BOOLEAN /\ absorbed' \in BOOLEAN
    BY <1>1, <1>2 DEF DataOK
  <2> QED BY <1>1, <1>2, <1>4, <2>1 DEF DataOK
<1>7. FlagsInv'
  BY <1>1, <1>2, <1>3 DEF FlagsInv
<1>8. CountInv'
  BY <1>1, <1>2, <1>3, <1>4, <1>5 DEF CountInv
<1>9. InOrder'
  BY <1>1, <1>4, <1>5 DEF JobsInOrder, InOrder
<1>10. WorkerNotified'
  BY <1>3 DEF WorkerNotified
<1> QED BY <1>3, <1>6, <1>7, <1>8, <1>9, <1>10, Assemble

LEMMA StepJobDone == AwInv /\ JobDone => AwInv'
<1> SUFFICES ASSUME AwInv, JobDone PROVE AwInv'
  OBVIOUS
<1>1. PcOK /\ DataOK /\ FlagsInv /\ CountInv /\ JobsInOrder
  BY TypeParts DEF AwInv
<1>2. /\ Goto(Worker, "notify") /\ pc[Worker] = "run"
      /\ UNCHANGED <<canTerminate, job, posted, ran, waited, target, absorbed, inits>>
  BY DEF JobDone, history
<1>3. workDone' /\ workDone' \in BOOLEAN
  BY DEF JobDone
<1>4. PcOK' /\ pc'[Worker] = "notify" /\ pc'[Owner] = pc[Owner]
  BY <1>1, <1>2, WorkerGoes, Threads DEF WorkerPC
<1>5. DataOK'
  <2>1. canTerminate' \in BOOLEAN /\ waited' \in BOOLEAN /\ absorbed' \in BOOLEAN
    BY <1>1, <1>2 DEF DataOK
  <2> QED BY <1>1, <1>2, <1>3, <2>1 DEF DataOK
<1>6. FlagsInv'
  BY <1>1, <1>2, <1>3, <1>4 DEF FlagsInv
<1>7. CountInv'
  BY <1>1, <1>2, <1>3, <1>4 DEF CountInv, DataOK
<1>8. InOrder'
  BY <1>1, <1>2 DEF JobsInOrder, InOrder
<1>9. WorkerNotified'
  BY <1>4 DEF WorkerNotified
<1> QED BY <1>4, <1>5, <1>6, <1>7, <1>8, <1>9, Assemble

(* The worker goes to sleep only when there is no job and no termination.  *)
LEMMA StepWorker == AwInv /\ WorkerStep => AwInv'
<1> SUFFICES ASSUME AwInv, WorkerStep PROVE AwInv'
  OBVIOUS
<1>1. PcOK /\ absorbed \in BOOLEAN
  BY TypeParts DEF AwInv, DataOK
<1>2. CASE WorkerSleep
  <2>1. /\ Goto(Worker, "asleep") /\ pc[Worker] = "lock"
        /\ workDone /\ ~ canTerminate
        /\ UNCHANGED <<flags, job, history, inits>> /\ absorbed' = absorbed
    BY <1>2 DEF WorkerSleep
  <2>2. PcOK' /\ pc'[Worker] = "asleep" /\ pc'[Owner] = pc[Owner]
    BY <1>1, <2>1, WorkerGoes, Threads DEF WorkerPC
  <2>3. WorkerNotified'
    BY <2>1 DEF WorkerNotified, flags
  <2> QED BY <1>1, <2>1, <2>2, <2>3, QuietStep
<1>3. CASE Exit
  <2>1. /\ Goto(Worker, "exited") /\ pc[Worker] = "lock"
        /\ UNCHANGED <<flags, job, history, inits>> /\ absorbed' = absorbed
    BY <1>3 DEF Exit
  <2>2. PcOK' /\ pc'[Worker] = "exited" /\ pc'[Owner] = pc[Owner]
    BY <1>1, <2>1, WorkerGoes, Threads DEF WorkerPC
  <2>3. WorkerNotified'
    BY <2>2 DEF WorkerNotified
  <2> QED BY <1>1, <2>1, <2>2, <2>3, QuietStep
<1>4. CASE NotifyAll
  <2>1. /\ pc' = [t \in Thread |->
                    IF t = Worker \/ pc[t] = "asleep" THEN "lock" ELSE pc[t]]
        /\ pc[Worker] = "notify"
        /\ UNCHANGED <<flags, job, history, inits>> /\ absorbed' = absorbed
    BY <1>4 DEF NotifyAll
  <2>2. /\ PcOK' /\ pc'[Worker] = "lock"
        /\ Kept(Owner) \/ Woken(Owner)
    <3>1. pc' \in [Thread -> WorkerPC \cup OwnerPC] /\ pc'[Worker] = "lock"
          /\ \A u \in User : Kept(u) \/ Woken(u)
      BY <1>1, <2>1, Threads DEF PcOK, WorkerPC, Kept, Woken
    <3> QED BY <1>1, <3>1, Threads DEF PcOK, WorkerPC, OwnerPC, UserPC, Kept, Woken
  <2>3. WorkerNotified'
    BY <2>2 DEF WorkerNotified
  <2> QED BY <1>1, <2>1, <2>2, <2>3, QuietStep DEF Kept, Woken
<1> QED BY <1>2, <1>3, <1>4, StepRunJob, StepJobDone DEF WorkerStep

LEMMA StepSpurious ==
  ASSUME AwInv, NEW t \in Thread, SpuriousWakeup(t)
  PROVE  AwInv'
<1>1. PcOK /\ absorbed \in BOOLEAN /\ WorkerNotified
  BY TypeParts DEF AwInv, DataOK
<1>2. /\ Goto(t, "lock") /\ pc[t] = "asleep"
      /\ UNCHANGED <<flags, job, history, inits>>
  BY DEF SpuriousWakeup
<1>3. absorbed' \in BOOLEAN /\ (t # Worker /\ absorbed => absorbed')
  BY DEF SpuriousWakeup
<1>4. /\ PcOK' /\ pc'[t] = "lock"
      /\ \A s \in Thread \ {t} : pc'[s] = pc[s]
  BY <1>1, <1>2, OneGoes DEF WorkerPC, OwnerPC, UserPC
<1>5. /\ pc'[Worker] = "run" <=> pc[Worker] = "run"
      /\ Kept(Owner) \/ Woken(Owner)
      /\ pc'[Worker] = "asleep" => (pc[Worker] = "asleep" /\ t # Worker)
  <2>1. CASE t = Worker
    BY <1>2, <1>4, <2>1, Threads DEF Kept, Woken
  <2>2. CASE t # Worker
    BY <1>2, <1>4, <2>2, Threads DEF Kept, Woken
  <2> QED BY <2>1, <2>2
<1>6. WorkerNotified'
  <2>1. SUFFICES ASSUME ~ workDone' \/ canTerminate', pc'[Worker] = "asleep"
                 PROVE  pc'[Owner] \in {"notify", "finiNotify"} \/ absorbed'
    BY DEF WorkerNotified
  <2>2. ~ workDone \/ canTerminate
    BY <1>2, <2>1 DEF flags
  <2>3. pc[Owner] \in {"notify", "finiNotify"} \/ absorbed
    BY <1>1, <1>5, <2>1, <2>2 DEF WorkerNotified
  <2>4. CASE absorbed
    BY <1>3, <1>5, <2>1, <2>4
  <2>5. CASE pc[Owner] \in {"notify", "finiNotify"}
    BY <1>5, <2>5 DEF Kept, Woken
  <2> QED BY <2>3, <2>4, <2>5
<1> QED BY <1>2, <1>3, <1>4, <1>5, <1>6, QuietStep DEF Kept, Woken

LEMMA StepInv == AwInv /\ [Next]_vars => AwInv'
<1> SUFFICES ASSUME AwInv, [Next]_vars PROVE AwInv'
  OBVIOUS
<1>1. CASE UNCHANGED vars
  BY <1>1 DEF AwInv, TypeOK, FlagsInv, CountInv, JobsInOrder, Finished, WorkerNotified,
              vars, flags, history
<1>2. CASE Decide
  BY <1>2, StepExec, StepFini, StepReinit, StepWait DEF Decide
<1>3. CASE \E u \in User : UserStep(u)
  BY <1>3, StepUser
<1>4. CASE \E t \in Thread : SpuriousWakeup(t)
  BY <1>4, StepSpurious
<1> QED BY <1>1, <1>2, <1>3, <1>4, StepWorker, StepOwner DEF Next

-----------------------------------------------------------------------------
(* Theorems                                                                *)

(* The invariant of the flags, the counts and the notifications holds in   *)
(* every state.                                                            *)
THEOREM AwInvariance == Spec => []AwInv
BY InitInv, StepInv, PTL DEF Spec

(* Jobs are executed in the order of tu_aw_exec, none twice, none with the *)
(* data of another, and the assertions of tu_aw_exec hold.                 *)
THEOREM JobsAreInOrder == Spec => []JobsInOrder
<1>1. AwInv => JobsInOrder
  BY DEF AwInv
<1> QED BY <1>1, AwInvariance, PTL

(* The worker sleeps through a job or through the termination only when    *)
(* another thread has had the notification.                                *)
THEOREM WorkerIsNotified == Spec => []WorkerNotified
<1>1. AwInv => WorkerNotified
  BY DEF AwInv
<1> QED BY <1>1, AwInvariance, PTL

(* Only tu_aw_wait takes a thread from the mutex back to its program.      *)
LEMMA ReturnsByWait ==
  ASSUME PcOK, [Next]_vars, NEW u \in User, pc[u] = "lock", pc'[u] = "idle"
  PROVE  WaitReturn(u)
<1>1. u \in Thread /\ u # Worker
  BY Threads
<1>2. CASE UNCHANGED vars
  BY <1>2 DEF vars
<1>3. CASE WorkerStep
  BY <1>1, <1>3, OneGoes, Threads
  DEF WorkerStep, WorkerSleep, Exit, RunJob, JobDone, NotifyAll, Goto, PcOK
<1>4. CASE OwnerStep
  BY <1>1, <1>4, Threads
  DEF OwnerStep, ExecNotify, FiniNotify, Join, NotifyOne, Goto, PcOK
<1>5. ASSUME NEW v \in User, UserStep(v) PROVE WaitReturn(u)
  BY <1>1, <1>5, Threads DEF UserStep, WaitReturn, WaitSleep, Goto, PcOK
<1>6. CASE Decide
  BY <1>1, <1>6, Threads DEF Decide, Exec, Fini, Reinit, Wait, Goto, PcOK
<1>7. ASSUME NEW t \in Thread, SpuriousWakeup(t) PROVE WaitReturn(u)
  BY <1>1, <1>7, Threads DEF SpuriousWakeup, Goto, PcOK
<1> QED BY <1>2, <1>3, <1>4, <1>5, <1>6, <1>7 DEF Next

(* tu_aw_wait returns when the jobs handed over before the call have been  *)
(* executed, or the worker is being terminated.                            *)
THEOREM WaitsMeanDone == Spec => WaitMeansDone
<1>1. ASSUME AwInv, [Next]_vars
      PROVE  [\A u \in User : pc[u] = "lock" /\ pc'[u] = "idle" =>
                Finished >= target[u] \/ canTerminate]_vars
  <2>1. SUFFICES ASSUME NEW u \in User, pc[u] = "lock", pc'[u] = "idle"
                 PROVE  Finished >= target[u] \/ canTerminate
    OBVIOUS
  <2>2. PcOK /\ DataOK /\ CountInv
    BY <1>1, TypeParts DEF AwInv
  <2>3. WaitReturn(u)
    BY <1>1, <2>1, <2>2, ReturnsByWait
  <2>4. pc[Worker] # "run" /\ (workDone \/ canTerminate)
    BY <2>3 DEF WaitReturn, MutexFree
  <2>5. CASE workDone
    BY <2>2, <2>4, <2>5 DEF CountInv, Finished, DataOK
  <2> QED BY <2>4, <2>5
<1> QED BY <1>1, AwInvariance, PTL DEF Spec, WaitMeansDone
=============================================================================
