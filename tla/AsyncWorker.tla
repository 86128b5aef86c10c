----------------------------- MODULE AsyncWorker -----------------------------
(***************************************************************************)
(* A thread that executes one job at a time, from tu_aw_init to tu_aw_fini *)
(* and, possibly, a new tu_aw_init.                                        *)
(*                                                                         *)
(* The owner hands jobs over with tu_aw_exec, waits for them with          *)
(* tu_aw_wait and ends the worker with tu_aw_fini; other users only wait.  *)
(* The worker and those who wait share one mutex and one condition         *)
(* variable.  Everything but the notifications is done with the mutex      *)
(* held, and only the execution of a job is long: a step is what a thread  *)
(* does with the mutex, or a notification.  A thread in cv.wait is asleep, *)
(* or about to take the mutex and to evaluate its predicate.               *)
(***************************************************************************)
EXTENDS Integers, Sequences

CONSTANTS
  Worker, Owner,
  Waiter,      \* the other users
  MaxJobs,     \* bound: jobs between tu_aw_init and tu_aw_fini
  MaxInits     \* bound: calls of tu_aw_init

User == {Owner} \cup Waiter
Thread == {Worker} \cup User

ASSUME AwAssumption ==
  /\ Owner # Worker
  /\ Owner \notin Waiter /\ Worker \notin Waiter
  /\ MaxJobs \in Nat /\ MaxInits \in Nat

VARIABLES
  workDone, canTerminate,
  job,       \* exec_data: the jobs of an owner are numbered
  pc,        \* where each thread is
  posted,    \* number of jobs handed over
  ran,       \* the jobs executed, or in execution, in order
  waited,    \* the owner has waited for the last job
  target,    \* the number of jobs handed over when a user called tu_aw_wait
  absorbed,  \* the worker sleeps, and a notification went to a user
  inits

flags == <<workDone, canTerminate>>
history == <<posted, ran, waited, target>>
vars == <<flags, job, pc, history, absorbed, inits>>

WorkerPC == {"lock", "asleep", "run", "notify", "exited"}
UserPC == {"idle", "lock", "asleep"}
OwnerPC == UserPC \cup {"notify", "finiNotify", "join", "end"}

TypeOK ==
  /\ workDone \in BOOLEAN /\ canTerminate \in BOOLEAN
  /\ job \in Nat
  /\ pc \in [Thread -> WorkerPC \cup OwnerPC]
  /\ pc[Worker] \in WorkerPC /\ pc[Owner] \in OwnerPC
  /\ \A u \in Waiter : pc[u] \in UserPC
  /\ posted \in Nat /\ ran \in Seq(Nat)
  /\ waited \in BOOLEAN
  /\ target \in [User -> Nat]
  /\ absorbed \in BOOLEAN
  /\ inits \in Nat

(* tu_aw_init: the worker begins as if it had just been woken.             *)
Init ==
  /\ workDone = TRUE /\ canTerminate = FALSE
  /\ job = 0
  /\ pc = [t \in Thread |-> IF t = Worker THEN "lock" ELSE "idle"]
  /\ posted = 0 /\ ran = <<>>
  /\ waited = TRUE
  /\ target = [u \in User |-> 0]
  /\ absorbed = FALSE
  /\ inits = 1

-----------------------------------------------------------------------------
Goto(t, l) == pc' = [pc EXCEPT ![t] = l]

(* The worker holds the mutex while it executes a job.                     *)
MutexFree == pc[Worker] # "run"

Asleep == {t \in Thread : pc[t] = "asleep"}

(* cv.notify_one wakes any one of the threads that sleep; thread t, which  *)
(* calls it, goes on at l.                                                 *)
NotifyOne(t, l) ==
  \/ /\ Asleep = {}
     /\ Goto(t, l)
     /\ UNCHANGED absorbed
  \/ \E s \in Asleep :
       /\ pc' = [pc EXCEPT ![t] = l, ![s] = "lock"]
       /\ absorbed' = (s # Worker /\ Worker \in Asleep)

-----------------------------------------------------------------------------
(* tu_aw_exec.  The owner has waited for the previous job: the function    *)
(* asserts work_done.                                                      *)
Exec ==
  /\ posted < MaxJobs
  /\ pc[Owner] = "idle" /\ waited /\ MutexFree
  /\ posted' = posted + 1
  /\ job' = posted + 1
  /\ workDone' = FALSE
  /\ waited' = FALSE
  /\ Goto(Owner, "notify")
  /\ UNCHANGED <<canTerminate, ran, target, absorbed, inits>>

(* Mutant: the notification is forgotten. *)
ExecNotify_Missing ==
  /\ pc[Owner] = "notify"
  /\ Goto(Owner, "idle")
  /\ UNCHANGED <<flags, job, history, absorbed, inits>>

ExecNotify ==
  /\ pc[Owner] = "notify"
  /\ NotifyOne(Owner, "idle")
  /\ UNCHANGED <<flags, job, history, inits>>

(* tu_aw_wait: the call ...                                                *)
Wait(u) ==
  /\ pc[u] = "idle"
  /\ pc[Owner] \notin {"finiNotify", "join", "end"}
  /\ target' = [target EXCEPT ![u] = posted]
  /\ Goto(u, "lock")
  /\ UNCHANGED <<flags, job, posted, ran, waited, absorbed, inits>>

(* Mutant: any wake-up ends the wait. *)
WaitReturn_NoPredicate(u) ==
  /\ pc[u] = "lock" /\ MutexFree
  /\ waited' = (waited \/ u = Owner)
  /\ Goto(u, "idle")
  /\ UNCHANGED <<flags, job, posted, ran, target, absorbed, inits>>

(* ... and, with the mutex, the predicate: return or sleep.                *)
WaitReturn(u) ==
  /\ pc[u] = "lock" /\ MutexFree
  /\ workDone \/ canTerminate
  /\ waited' = (waited \/ u = Owner)
  /\ Goto(u, "idle")
  /\ UNCHANGED <<flags, job, posted, ran, target, absorbed, inits>>

WaitSleep(u) ==
  /\ pc[u] = "lock" /\ MutexFree
  /\ ~ workDone /\ ~ canTerminate
  /\ Goto(u, "asleep")
  /\ UNCHANGED <<flags, job, history, absorbed, inits>>

(* tu_aw_fini: the flag, one notification, the join.                       *)
Fini ==
  /\ pc[Owner] = "idle" /\ MutexFree
  /\ canTerminate' = TRUE
  /\ Goto(Owner, "finiNotify")
  /\ UNCHANGED <<workDone, job, history, absorbed, inits>>

(* Mutant: the join without a notification. *)
FiniNotify_Missing ==
  /\ pc[Owner] = "finiNotify"
  /\ Goto(Owner, "join")
  /\ UNCHANGED <<flags, job, history, absorbed, inits>>

FiniNotify ==
  /\ pc[Owner] = "finiNotify"
  /\ NotifyOne(Owner, "join")
  /\ UNCHANGED <<flags, job, history, inits>>

Join ==
  /\ pc[Owner] = "join" /\ pc[Worker] = "exited"
  /\ Goto(Owner, "end")
  /\ UNCHANGED <<flags, job, history, absorbed, inits>>

(* tu_aw_init again, when nobody is inside any more.                       *)
Reinit ==
  /\ inits < MaxInits
  /\ pc[Owner] = "end" /\ \A u \in Waiter : pc[u] = "idle"
  /\ inits' = inits + 1
  /\ workDone' = TRUE /\ canTerminate' = FALSE
  /\ job' = 0
  /\ pc' = [pc EXCEPT ![Owner] = "idle", ![Worker] = "lock"]
  /\ posted' = 0 /\ ran' = <<>> /\ waited' = TRUE
  /\ target' = [u \in User |-> 0]
  /\ UNCHANGED absorbed

-----------------------------------------------------------------------------
(* tu_aw_run.  With the mutex, the predicate; then the flag before the job. *)
WorkerSleep ==
  /\ pc[Worker] = "lock"
  /\ workDone /\ ~ canTerminate
  /\ Goto(Worker, "asleep")
  /\ UNCHANGED <<flags, job, history, absorbed, inits>>

Exit ==
  /\ pc[Worker] = "lock" /\ canTerminate
  /\ Goto(Worker, "exited")
  /\ UNCHANGED <<flags, job, history, absorbed, inits>>

RunJob ==
  /\ pc[Worker] = "lock"
  /\ ~ workDone /\ ~ canTerminate
  /\ ran' = Append(ran, job)
  /\ Goto(Worker, "run")
  /\ UNCHANGED <<flags, job, posted, waited, target, absorbed, inits>>

(* Mutant: work_done is left as it is. *)
JobDone_Unset ==
  /\ pc[Worker] = "run"
  /\ Goto(Worker, "notify")
  /\ UNCHANGED <<flags, job, history, absorbed, inits>>

JobDone ==
  /\ pc[Worker] = "run"
  /\ workDone' = TRUE
  /\ Goto(Worker, "notify")
  /\ UNCHANGED <<canTerminate, job, history, absorbed, inits>>

(* Mutant: notify_one instead of notify_all. *)
NotifyAll_One ==
  /\ pc[Worker] = "notify"
  /\ NotifyOne(Worker, "lock")
  /\ UNCHANGED <<flags, job, history, inits>>

NotifyAll ==
  /\ pc[Worker] = "notify"
  /\ pc' = [t \in Thread |->
              IF t = Worker \/ pc[t] = "asleep" THEN "lock" ELSE pc[t]]
  /\ UNCHANGED <<flags, job, history, absorbed, inits>>

SpuriousWakeup(t) ==
  /\ pc[t] = "asleep"
  /\ absorbed' = (absorbed /\ t # Worker)
  /\ Goto(t, "lock")
  /\ UNCHANGED <<flags, job, history, inits>>

-----------------------------------------------------------------------------
WorkerStep == WorkerSleep \/ Exit \/ RunJob \/ JobDone \/ NotifyAll

(* What a user does inside the functions.                                  *)
UserStep(u) == WaitReturn(u) \/ WaitSleep(u)
OwnerStep == ExecNotify \/ FiniNotify \/ Join

(* What the program decides.                                               *)
Decide == Exec \/ Fini \/ Reinit \/ \E u \in User : Wait(u)

Next ==
  \/ WorkerStep
  \/ OwnerStep
  \/ \E u \in User : UserStep(u)
  \/ Decide
  \/ \E t \in Thread : SpuriousWakeup(t)

Spec == Init /\ [][Next]_vars

(* Every thread that can run does, and jobs return.                        *)
Fairness ==
  /\ WF_vars(WorkerStep) /\ WF_vars(OwnerStep)
  /\ \A u \in User : WF_vars(UserStep(u))

FairSpec == Spec /\ Fairness

-----------------------------------------------------------------------------
(* Properties                                                              *)

Finished == IF pc[Worker] = "run" THEN Len(ran) - 1 ELSE Len(ran)

(* Every job is executed at most once, in the order of tu_aw_exec and with *)
(* the data it was handed over with, and all but the last for certain; the *)
(* assertions of tu_aw_exec hold for an owner that has waited.             *)
JobsInOrder ==
  /\ \A i \in 1 .. Len(ran) : ran[i] = i
  /\ posted - Len(ran) \in {0, 1}
  /\ waited /\ pc[Owner] = "idle" =>
       workDone /\ ~ canTerminate /\ Finished = posted

(* The worker does not sleep through a job or through the termination: the *)
(* owner is about to notify it, or a user that shares the condition        *)
(* variable has had the notification instead.                              *)
WorkerNotified ==
  (~ workDone \/ canTerminate) /\ pc[Worker] = "asleep" =>
    pc[Owner] \in {"notify", "finiNotify"} \/ absorbed

(* A thread returns from tu_aw_wait when the jobs handed over before its   *)
(* call have been executed, unless the worker is terminated.               *)
WaitMeansDone ==
  [][\A u \in User : pc[u] = "lock" /\ pc'[u] = "idle" =>
       Finished >= target[u] \/ canTerminate]_vars

(* The inductive invariant behind the three.                               *)
FlagsInv ==
  /\ canTerminate <=> pc[Owner] \in {"finiNotify", "join", "end"}
  /\ waited => workDone
  /\ pc[Worker] = "run" => ~ workDone

CountInv ==
  /\ job = posted
  /\ posted = Len(ran) + (IF workDone \/ pc[Worker] = "run" THEN 0 ELSE 1)
  /\ \A u \in User : target[u] <= posted

AwInv == TypeOK /\ FlagsInv /\ CountInv /\ JobsInOrder /\ WorkerNotified

(* A job is executed and a wait returns.  The exceptions are a termination *)
(* that comes before the job, and a notification that another thread had.  *)
(* The termination leaves behind no user but those who wait for a job that *)
(* it has dropped.                                                         *)
JobRuns == ~ workDone ~> (workDone \/ canTerminate \/ absorbed)

WaitReturns ==
  \A u \in User : pc[u] \in {"lock", "asleep"} ~>
    (pc[u] = "idle" \/ (canTerminate /\ ~ workDone) \/ absorbed)

JobsComplete == JobRuns /\ WaitReturns

(* So does the termination, whether or not a job has been left.            *)
FiniReturns == pc[Owner] = "finiNotify" ~> (pc[Owner] = "end" \/ absorbed)
=============================================================================
