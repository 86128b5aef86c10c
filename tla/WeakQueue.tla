------------------------------ MODULE WeakQueue ------------------------------
(***************************************************************************)
(* What TU_FiniteOverflowQueue promises to the threads that share it.  It  *)
(* is weaker than a linearizable FIFO, in two ways that the code has:      *)
(*   - no order is promised: an element that overflowed into the linked    *)
(*     list is taken after younger elements of the ring;                   *)
(*   - a pop may return false although the queue holds elements, when at   *)
(*     some moment of the call a slot of the ring was claimed by a push    *)
(*     that had not yet published its element.                             *)
(* Otherwise a pop returns false only when every element that was          *)
(* available when the call started has been taken by somebody else.        *)
(*                                                                         *)
(* The module holds a family of queues: an element belongs to one queue    *)
(* (its home) at most once at a time.  The actions are used one by one by  *)
(* the modules that compose queues with threads; Spec is what the queue's  *)
(* implementation is compared with.                                        *)
(***************************************************************************)
EXTENDS FiniteSets

CONSTANTS Elem, Queue, Client, Home, NoQueue

VARIABLES
  status,   \* status[e]: outside the queue, in a claimed slot, or available
  on,       \* on[c]: the queue that client c is popping from, or NoQueue
  must,     \* must[c]: what a pop that fails for lack of elements did not see
  blocked   \* blocked[c]: the pop has met a claimed slot

qvars == <<status, on, must, blocked>>

popVars == <<on, must, blocked>>

Status == {"out", "claimed", "ready"}

QueueTypeOK ==
  /\ status \in [Elem -> Status]
  /\ on \in [Client -> Queue \cup {NoQueue}]
  /\ must \in [Client -> SUBSET Elem]
  /\ blocked \in [Client -> BOOLEAN]

QueueInit ==
  /\ status = [e \in Elem |-> "out"]
  /\ on = [c \in Client |-> NoQueue]
  /\ must = [c \in Client |-> {}]
  /\ blocked = [c \in Client |-> FALSE]

(* The elements of queue q that have status st. *)
Inside(q, st) == {e \in Elem : Home[e] = q /\ status[e] = st}

(* A push claims a slot of the ring ... *)
PushClaim(e) ==
  /\ status[e] = "out"
  /\ status' = [status EXCEPT ![e] = "claimed"]
  /\ UNCHANGED popVars

(* ... and publishes it, or adds the element to the overflow list at once. *)
PushPublish(e) ==
  /\ status[e] \in {"out", "claimed"}
  /\ status' = [status EXCEPT ![e] = "ready"]
  /\ UNCHANGED popVars

PopStart(c, q) ==
  /\ on[c] = NoQueue
  /\ on' = [on EXCEPT ![c] = q]
  /\ must' = [must EXCEPT ![c] = Inside(q, "ready")]
  /\ UNCHANGED <<status, blocked>>

(* The head of the ring is a slot that is claimed and not yet published. *)
PopBlocked(c) ==
  /\ on[c] # NoQueue
  /\ ~ blocked[c]
  /\ Inside(on[c], "claimed") # {}
  /\ blocked' = [blocked EXCEPT ![c] = TRUE]
  /\ UNCHANGED <<status, on, must>>

PopEnd(c) ==
  /\ on' = [on EXCEPT ![c] = NoQueue]
  /\ blocked' = [blocked EXCEPT ![c] = FALSE]

PopTake(c, e) ==
  /\ on[c] # NoQueue
  /\ Home[e] = on[c]
  /\ status[e] = "ready"
  /\ status' = [status EXCEPT ![e] = "out"]
  /\ must' = [d \in Client |-> IF d = c THEN {} ELSE must[d] \ {e}]
  /\ PopEnd(c)

PopFail(c) ==
  /\ on[c] # NoQueue
  /\ blocked[c] \/ must[c] = {}
  /\ must' = [must EXCEPT ![c] = {}]
  /\ PopEnd(c)
  /\ UNCHANGED status

QueueNext ==
  \/ \E e \in Elem : PushClaim(e) \/ PushPublish(e)
  \/ \E c \in Client :
       \/ \E q \in Queue : PopStart(c, q)
       \/ PopBlocked(c)
       \/ \E e \in Elem : PopTake(c, e)
       \/ PopFail(c)

QueueSpec == QueueInit /\ [][QueueNext]_qvars
=============================================================================
