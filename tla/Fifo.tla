-------------------------------- MODULE Fifo --------------------------------
(***************************************************************************)
(* What TU_LockFreeQueue promises: a linearizable first-in first-out       *)
(* queue.  A push takes effect at one point.  So does a pop that takes an  *)
(* element, and it takes the oldest; a pop that returns false was called   *)
(* while the queue was empty at some moment.                               *)
(***************************************************************************)
EXTENDS Sequences

CONSTANTS Elem, Client, NoElem

VARIABLES
  items,     \* the elements in the queue, the oldest first
  call,      \* call[c]: "none", "pop" before, "return" after its effect
  sawEmpty,  \* sawEmpty[c]: the queue was empty at some moment of the pop
  result     \* result[c]: what the pop returns

fifoVars == <<items, call, sawEmpty, result>>

FifoInit ==
  /\ items = <<>>
  /\ call = [c \in Client |-> "none"]
  /\ sawEmpty = [c \in Client |-> FALSE]
  /\ result = [c \in Client |-> NoElem]

Push(e) ==
  /\ items' = Append(items, e)
  /\ UNCHANGED <<call, sawEmpty, result>>

PopStart(c) ==
  /\ call[c] = "none"
  /\ call' = [call EXCEPT ![c] = "pop"]
  /\ sawEmpty' = [sawEmpty EXCEPT ![c] = items = <<>>]
  /\ UNCHANGED <<items, result>>

PopTake(c) ==
  /\ call[c] = "pop" /\ items # <<>>
  /\ items' = Tail(items)
  /\ call' = [call EXCEPT ![c] = "return"]
  /\ result' = [result EXCEPT ![c] = Head(items)]
  /\ sawEmpty' = [d \in Client |->
       d # c /\ (sawEmpty[d] \/ (call[d] = "pop" /\ Tail(items) = <<>>))]

PopReturn(c) ==
  /\ call[c] = "return"
  /\ call' = [call EXCEPT ![c] = "none"]
  /\ result' = [result EXCEPT ![c] = NoElem]
  /\ UNCHANGED <<items, sawEmpty>>

PopFail(c) ==
  /\ call[c] = "pop" /\ sawEmpty[c]
  /\ call' = [call EXCEPT ![c] = "none"]
  /\ sawEmpty' = [sawEmpty EXCEPT ![c] = FALSE]
  /\ UNCHANGED <<items, result>>

FifoNext ==
  \/ \E e \in Elem : Push(e)
  \/ \E c \in Client : PopStart(c) \/ PopTake(c) \/ PopReturn(c) \/ PopFail(c)

FifoSpec == FifoInit /\ [][FifoNext]_fifoVars
=============================================================================
