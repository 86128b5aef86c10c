------------------------------ MODULE CommTask ------------------------------
(***************************************************************************)
(* A communication task: a node of the dataflow graph of every rank, which *)
(* sends packages to the same node of other ranks.                         *)
(*                                                                         *)
(* For each of its types the node has two inputs: one for data to send,    *)
(* for which the worker of its group calls tu_comm_send, and one for data  *)
(* received.  The inputs of data to send are left out: the worker may find *)
(* something to send at any time.  A progress thread alone uses the        *)
(* network: it sends the packages it finds in package_queue and pushes     *)
(* what it receives to an input.  The worker wakes it by a signal.         *)
(*                                                                         *)
(* The network (UCX) is external: it loses and duplicates nothing, keeps   *)
(* no order, and calls the handler of active messages only when the        *)
(* receiver makes progress.  A small package is sent eagerly: the sender   *)
(* is done at once.  A large one is a rendezvous: the receiver is told     *)
(* first, and the sender is done when the data have been fetched, which    *)
(* the receiver may learn later than the sender.                           *)
(*                                                                         *)
(* A result of a type that the node does not have fails an assertion.  It  *)
(* ends the process, and the launcher the others.                          *)
(***************************************************************************)
EXTENDS Integers, Sequences, FiniteSets, Functions

CONSTANTS
  Rank, Package, NoPackage,
  Src, Dest, TypeOf,   \* of each package
  Rendezvous,          \* the large packages
  NodeTypes            \* the types a node may be created with

ASSUME CtAssumption ==
  /\ Src \in [Package -> Rank] /\ Dest \in [Package -> Rank]
  /\ \A p \in Package : Src[p] # Dest[p]
  /\ NodeTypes \subseteq SUBSET Nat
  /\ \A types \in NodeTypes : types # {} /\ TypeOf \in [Package -> types]
  /\ Rendezvous \subseteq Package
  /\ NoPackage \notin Package

VARIABLES
  unsent,         \* the packages that tu_comm_send has not been called for
  inputs,         \* the types of the node, the same on every rank
  received,       \* received[r][t]: the input of data received of type t
  token,          \* token[r]: the semaphore of the worker's group
  wpc, hold,      \* the worker: where it is, the package it sends
  packageQueue, signalled, canTerminate,
  ppc, sending,   \* the progress thread: where it is, the package it waits for
  result,         \* result[r]: its call of comm_progress_result, if any
  rndvQueue,      \* rndvQueue[r]: the rendezvous it has been told of
  wire,           \* wire[r]: the messages on their way to r
  fetched,        \* the rendezvous whose data have been received
  executed,       \* what the workers have executed: rank, package, type
  dpc,            \* dpc[r]: the thread that calls tu_comm_task_destroy
  aborted         \* an assertion has failed

worker == <<wpc, hold>>
network == <<wire, fetched>>
progress == <<ppc, sending, result, rndvQueue>>
vars == <<unsent, inputs, received, token, worker, packageQueue, signalled,
          canTerminate, progress, network, executed, dpc, aborted>>

Idle == [at |-> "none", pkg |-> NoPackage, type |-> 0]

Init ==
  /\ unsent = Package
  /\ inputs \in NodeTypes
  /\ received = [r \in Rank |-> [t \in inputs |-> <<>>]]
  /\ token = [r \in Rank |-> 0]
  /\ wpc = [r \in Rank |-> "acquire"] /\ hold = [r \in Rank |-> NoPackage]
  /\ packageQueue = [r \in Rank |-> <<>>]
  /\ signalled = [r \in Rank |-> FALSE]
  /\ canTerminate = [r \in Rank |-> FALSE]
  /\ ppc = [r \in Rank |-> "top"] /\ sending = [r \in Rank |-> NoPackage]
  /\ result = [r \in Rank |-> Idle]
  /\ rndvQueue = [r \in Rank |-> <<>>]
  /\ wire = [r \in Rank |-> {}] /\ fetched = {}
  /\ executed = {}
  /\ dpc = [r \in Rank |-> "running"]
  /\ aborted = FALSE

Executed(p) == \E x \in executed : x.pkg = p

(* Every step but the failing assertion. *)
Running == ~ aborted /\ UNCHANGED <<inputs, aborted>>

-----------------------------------------------------------------------------
(* The worker: a token and something to send, or a token for what has been *)
(* received; then the inputs, until it has found all of them empty.        *)
(* Looking at them is one step.  They are looked at in an order, so that   *)
(* one that was empty may have a package when another is taken from: any   *)
(* of those with a package is chosen.                                      *)
WGoto(r, l) == wpc' = [wpc EXCEPT ![r] = l]

Acquire(r) ==
  /\ Running
  /\ wpc[r] = "acquire" /\ token[r] > 0 /\ dpc[r] = "running"
  /\ token' = [token EXCEPT ![r] = @ - 1]
  /\ WGoto(r, "received")
  /\ UNCHANGED <<unsent, received, hold, packageQueue, signalled, canTerminate,
                 progress, network, executed, dpc>>

(* The function given to tu_comm_recv_exec, with the type of the input.    *)
ExecReceived(r) ==
  /\ Running
  /\ wpc[r] = "received"
  /\ \E t \in inputs :
       /\ received[r][t] # <<>>
       /\ received' = [received EXCEPT ![r][t] = Tail(@)]
       /\ executed' = executed \cup
            {[rank |-> r, pkg |-> Head(received[r][t]), type |-> t]}
  /\ UNCHANGED <<unsent, token, worker, packageQueue, signalled, canTerminate,
                 progress, network, dpc>>

ReceivedEmpty(r) ==
  /\ Running
  /\ wpc[r] = "received" /\ \A t \in inputs : received[r][t] = <<>>
  /\ WGoto(r, "acquire")
  /\ UNCHANGED <<unsent, received, token, hold, packageQueue, signalled,
                 canTerminate, progress, network, executed, dpc>>

(* The function given to tu_comm_send_exec.                                *)
ExecSend(r) ==
  /\ Running
  /\ wpc[r] = "acquire"
  /\ \E p \in unsent :
       /\ Src[p] = r
       /\ hold' = [hold EXCEPT ![r] = p]
       /\ unsent' = unsent \ {p}
  /\ WGoto(r, "push")
  /\ UNCHANGED <<received, token, packageQueue, signalled, canTerminate,
                 progress, network, executed, dpc>>

(* tu_comm_send: the queue, then the signal.                               *)
CommSend(r) ==
  /\ Running
  /\ wpc[r] = "push"
  /\ packageQueue' = [packageQueue EXCEPT ![r] = Append(@, hold[r])]
  /\ hold' = [hold EXCEPT ![r] = NoPackage]
  /\ WGoto(r, "signal")
  /\ UNCHANGED <<unsent, received, token, signalled, canTerminate, progress,
                 network, executed, dpc>>

(* Mutant: no signal. *)
CommSignal_Missing(r) ==
  /\ Running
  /\ wpc[r] = "signal"
  /\ WGoto(r, "received")
  /\ UNCHANGED <<unsent, received, token, hold, packageQueue, signalled,
                 canTerminate, progress, network, executed, dpc>>

CommSignal(r) ==
  /\ Running
  /\ wpc[r] = "signal"
  /\ signalled' = [signalled EXCEPT ![r] = TRUE]
  /\ WGoto(r, "received")
  /\ UNCHANGED <<unsent, received, token, hold, packageQueue, canTerminate,
                 progress, network, executed, dpc>>

-----------------------------------------------------------------------------
(* comm_progress_result: the push to the input, then the token.  The       *)
(* progress thread does nothing else meanwhile.                            *)
ResultPush(r) ==
  LET type == result[r].type IN
  /\ Running
  /\ result[r].at = "push" /\ type \in inputs
  /\ received' = [received EXCEPT ![r][type] = Append(@, result[r].pkg)]
  /\ result' = [result EXCEPT ![r] = [Idle EXCEPT !.at = "release"]]
  /\ UNCHANGED <<unsent, token, worker, packageQueue, signalled, canTerminate,
                 ppc, sending, rndvQueue, network, executed, dpc>>

(* The assertion that the node has the input. *)
ResultAbort(r) ==
  /\ result[r].at = "push" /\ result[r].type \notin inputs
  /\ ~ aborted /\ aborted' = TRUE
  /\ UNCHANGED <<unsent, inputs, received, token, worker, packageQueue, signalled,
                 canTerminate, progress, network, executed, dpc>>

ResultRelease(r) ==
  /\ Running
  /\ result[r].at = "release"
  /\ token' = [token EXCEPT ![r] = @ + 1]
  /\ result' = [result EXCEPT ![r] = Idle]
  /\ UNCHANGED <<unsent, received, worker, packageQueue, signalled, canTerminate,
                 ppc, sending, rndvQueue, network, executed, dpc>>

(* comm_am_handler, for message p: eager data are a result, a rendezvous   *)
(* is remembered.                                                          *)
Handle(r, p) ==
  /\ p \in wire[r]
  /\ wire' = [wire EXCEPT ![r] = @ \ {p}]
  /\ IF p \in Rendezvous
       THEN /\ rndvQueue' = [rndvQueue EXCEPT ![r] = Append(@, p)]
            /\ UNCHANGED result
       ELSE /\ result' = [result EXCEPT ![r] =
                 [at |-> "push", pkg |-> p, type |-> TypeOf[p]]]
            /\ UNCHANGED rndvQueue

(* comm_progress_run.  A read of can_terminate and what follows it are one *)
(* step: nothing that follows depends on the flag.                         *)
At(r, l) == ppc[r] = l /\ result[r] = Idle
PGoto(r, l) == ppc' = [ppc EXCEPT ![r] = l]

(* The flag, then whatever messages there are.                             *)
Progress(r) ==
  /\ Running
  /\ At(r, "top") /\ ~ canTerminate[r]
  /\ \/ /\ \E p \in wire[r] : Handle(r, p)
        /\ PGoto(r, "check")
     \/ /\ wire[r] = {}
        /\ PGoto(r, "wait")
        /\ UNCHANGED <<wire, result, rndvQueue>>
  /\ UNCHANGED <<unsent, received, token, worker, packageQueue, signalled,
                 canTerminate, sending, fetched, executed, dpc>>

Leave(r) ==
  /\ Running
  /\ At(r, "top") \/ At(r, "check")
  /\ canTerminate[r]
  /\ PGoto(r, "exited")
  /\ UNCHANGED <<unsent, received, token, worker, packageQueue, signalled,
                 canTerminate, sending, result, rndvQueue, network, executed, dpc>>

(* ucp_worker_wait: until a signal, also one that came before, or traffic. *)
NetworkWait(r) ==
  /\ Running
  /\ At(r, "wait")
  /\ signalled[r] \/ wire[r] # {}
  /\ signalled' = [signalled EXCEPT ![r] = FALSE]
  /\ PGoto(r, "check")
  /\ UNCHANGED <<unsent, received, token, worker, packageQueue, canTerminate,
                 sending, result, rndvQueue, network, executed, dpc>>

(* Where process_recv_ops is, with queue q of rendezvous. *)
Receiving(q) == IF q = <<>> THEN "top" ELSE "receiveWait"

(* The flag again; process_send_ops: every package is sent and waited for. *)
SendNext(r) ==
  /\ Running
  /\ At(r, "send") \/ (At(r, "check") /\ ~ canTerminate[r])
  /\ IF packageQueue[r] = <<>>
       THEN PGoto(r, Receiving(rndvQueue[r])) /\ UNCHANGED <<packageQueue, sending, wire>>
       ELSE LET p == Head(packageQueue[r]) IN
         /\ packageQueue' = [packageQueue EXCEPT ![r] = Tail(@)]
         /\ sending' = [sending EXCEPT ![r] = p]
         /\ wire' = [wire EXCEPT ![Dest[p]] = @ \cup {p}]
         /\ PGoto(r, "sendWait")
  /\ UNCHANGED <<unsent, received, token, worker, signalled, canTerminate,
                 result, rndvQueue, fetched, executed, dpc>>

(* A rendezvous is transferred while the receiver waits for it: the sender *)
(* may learn of it first.                                                  *)
Transferred(p) ==
  \/ p \in fetched
  \/ At(Dest[p], "receiveWait") /\ Head(rndvQueue[Dest[p]]) = p

SendDone(r) ==
  /\ Running
  /\ At(r, "sendWait")
  /\ sending[r] \in Rendezvous => Transferred(sending[r])
  /\ sending' = [sending EXCEPT ![r] = NoPackage]
  /\ PGoto(r, "send")
  /\ UNCHANGED <<unsent, received, token, worker, packageQueue, signalled,
                 canTerminate, result, rndvQueue, network, executed, dpc>>

(* ucx_request_wait makes progress: messages are handled meanwhile.        *)
WaitProgress(r) ==
  /\ Running
  /\ At(r, "sendWait") \/ At(r, "receiveWait")
  /\ \E p \in wire[r] : Handle(r, p)
  /\ UNCHANGED <<unsent, received, token, worker, packageQueue, signalled,
                 canTerminate, ppc, sending, fetched, executed, dpc>>

(* process_recv_ops: the rendezvous one by one, each waited for.           *)
(* The type is read after the entry has been removed: it is that of the    *)
(* entry that follows, or what the queue's element 0 holds.                *)
NextType(q) == IF Len(q) > 1 THEN TypeOf[q[2]] ELSE 0

(* Mutant: the entries that came during the wait are removed too. *)
Receive_Cleared(r) ==
  /\ Running
  /\ At(r, "receiveWait")
  /\ LET p == Head(rndvQueue[r]) IN
       /\ fetched' = fetched \cup {p}
       /\ result' = [result EXCEPT ![r] =
            [at |-> "push", pkg |-> p, type |-> NextType(rndvQueue[r])]]
  /\ rndvQueue' = [rndvQueue EXCEPT ![r] = <<>>]
  /\ PGoto(r, "top")
  /\ UNCHANGED <<unsent, received, token, worker, packageQueue, signalled,
                 canTerminate, sending, wire, executed, dpc>>

Receive(r) ==
  /\ Running
  /\ At(r, "receiveWait")
  /\ LET p == Head(rndvQueue[r]) IN
       /\ fetched' = fetched \cup {p}
       /\ result' = [result EXCEPT ![r] =
            [at |-> "push", pkg |-> p, type |-> NextType(rndvQueue[r])]]
  /\ rndvQueue' = [rndvQueue EXCEPT ![r] = Tail(@)]
  /\ PGoto(r, Receiving(Tail(rndvQueue[r])))
  /\ UNCHANGED <<unsent, received, token, worker, packageQueue, signalled,
                 canTerminate, sending, wire, executed, dpc>>

-----------------------------------------------------------------------------
(* tu_comm_task_destroy.  The program calls it when every rank has passed  *)
(* a barrier, with everything executed, and tu_dfg_term has stopped the    *)
(* workers of its own rank, tokens left or not.                            *)
Destroy(r) ==
  /\ Running
  /\ dpc[r] = "running" /\ wpc[r] = "acquire"
  /\ \A p \in Package : Executed(p)
  /\ canTerminate' = [canTerminate EXCEPT ![r] = TRUE]
  /\ dpc' = [dpc EXCEPT ![r] = "signal"]
  /\ UNCHANGED <<unsent, received, token, worker, packageQueue, signalled,
                 progress, network, executed>>

(* Mutant: no signal. *)
DestroySignal_Missing(r) ==
  /\ Running
  /\ dpc[r] = "signal"
  /\ dpc' = [dpc EXCEPT ![r] = "join"]
  /\ UNCHANGED <<unsent, received, token, worker, packageQueue, signalled,
                 canTerminate, progress, network, executed>>

DestroySignal(r) ==
  /\ Running
  /\ dpc[r] = "signal"
  /\ signalled' = [signalled EXCEPT ![r] = TRUE]
  /\ dpc' = [dpc EXCEPT ![r] = "join"]
  /\ UNCHANGED <<unsent, received, token, worker, packageQueue, canTerminate,
                 progress, network, executed>>

Join(r) ==
  /\ Running
  /\ dpc[r] = "join" /\ ppc[r] = "exited"
  /\ dpc' = [dpc EXCEPT ![r] = "end"]
  /\ UNCHANGED <<unsent, received, token, worker, packageQueue, signalled,
                 canTerminate, progress, network, executed>>

Ended ==
  /\ aborted \/ \A r \in Rank : dpc[r] = "end"
  /\ UNCHANGED vars

-----------------------------------------------------------------------------
WorkerStep(r) ==
  \/ Acquire(r) \/ ExecReceived(r) \/ ReceivedEmpty(r)
  \/ CommSend(r) \/ CommSignal(r)

ProgressStep(r) ==
  \/ ResultPush(r) \/ ResultAbort(r) \/ ResultRelease(r)
  \/ Progress(r) \/ NetworkWait(r) \/ Leave(r)
  \/ SendNext(r) \/ SendDone(r) \/ WaitProgress(r)
  \/ Receive(r)

DestroyStep(r) == Destroy(r) \/ DestroySignal(r) \/ Join(r)

Next ==
  \/ \E r \in Rank : ExecSend(r) \/ WorkerStep(r) \/ ProgressStep(r) \/ DestroyStep(r)
  \/ Ended

Spec == Init /\ [][Next]_vars

(* Every thread that can run does; a rank that has come to the barrier     *)
(* destroys its task.                                                      *)
Fairness ==
  \A r \in Rank :
    WF_vars(WorkerStep(r)) /\ WF_vars(ProgressStep(r)) /\ WF_vars(DestroyStep(r))

FairSpec == Spec /\ Fairness

-----------------------------------------------------------------------------
(* Properties                                                              *)

Copies(p) ==
  (IF p \in unsent THEN 1 ELSE 0)
  + Cardinality({r \in Rank : hold[r] = p})
  + Cardinality({r \in Rank : p \in Range(packageQueue[r])})
  + Cardinality({r \in Rank : p \in wire[r]})
  + Cardinality({r \in Rank : p \in Range(rndvQueue[r])})
  + Cardinality({r \in Rank : result[r].pkg = p})
  + Cardinality(UNION {{<<r, t, i>> : i \in {j \in DOMAIN received[r][t] :
                                   received[r][t][j] = p}} : r \in Rank, t \in inputs})
  + Cardinality({x \in executed : x.pkg = p})

(* A package that has been given to the task is in one place, never lost   *)
(* on its way nor received twice, whether it is sent eagerly or by a       *)
(* rendezvous, also when more rendezvous come while one is waited for; it  *)
(* is executed on the rank it was sent to, and one sent eagerly with the   *)
(* type it was sent with.                                                  *)
Conserved ==
  /\ \A p \in Package : Copies(p) = 1
  /\ \A x \in executed :
       /\ x.rank = Dest[x.pkg]
       /\ x.pkg \notin Rendezvous => x.type = TypeOf[x.pkg]

(* The assertion has failed over a rendezvous that was the last of its     *)
(* queue, for a node without type 0.                                       *)
LastLostType ==
  /\ aborted /\ 0 \notin inputs
  /\ \E r \in Rank : result[r].pkg \in Rendezvous /\ rndvQueue[r] = <<>>

(* Every package given to the task is executed, whether or not others are  *)
(* given: time and again everything given so far has been.  Only the type  *)
(* of the last rendezvous may end the program before.                      *)
Delivered ==
  []<>(LastLostType \/ \A p \in Package \ unsent : Executed(p))

(* tu_comm_task_destroy returns on every rank.                             *)
DestroyReturns ==
  (\A p \in Package : Executed(p)) ~> (\A r \in Rank : dpc[r] = "end")
=============================================================================
