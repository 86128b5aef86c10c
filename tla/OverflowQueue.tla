---------------------------- MODULE OverflowQueue ----------------------------
(***************************************************************************)
(* TU_FiniteOverflowQueue: a ring of SIZE slots, which threads share       *)
(* without a lock (TU_FiniteLockFreeQueue, after Vyukov), and a linked     *)
(* list that takes the elements for which the ring has no room.            *)
(*                                                                         *)
(* A step is one access to memory that the threads share.  The operations  *)
(* of the linked list (TU_LockFreeQueue) take effect at one point, and are *)
(* one step each.  Positions count up; the slot of a position is its       *)
(* remainder, and sequence says which position a slot is ready for:        *)
(*   p          to be written, by the push that claims p                   *)
(*   p + 1      to be read, by the pop that claims p                       *)
(*   p + SIZE   to be written by the push of the next lap.                 *)
(***************************************************************************)
EXTENDS Integers, FiniteSets, Sequences, SequencesExt

CONSTANTS
  Elem, Client,
  SIZE,       \* the number of slots
  MaxTail,    \* bound: no push starts when so many positions are claimed
  NoElem,
  ThisQueue, NoQueue

(* The code asserts that SIZE is a power of 2, so that the slot of a       *)
(* position remains its remainder when a size_t wraps around.  With a      *)
(* single slot the sequences p + 1 and p + SIZE would be the same.         *)
ASSUME SizeAssumption == SIZE \in Nat /\ SIZE > 1

ASSUME QueueAssumption ==
  /\ NoElem \notin Elem /\ ThisQueue # NoQueue
  /\ MaxTail \in Nat

VARIABLES
  sequence, data,    \* of each slot
  head, tail,
  overflow,          \* overflow_queue
  pc, pos, val,      \* where each client is; its t or h; the element it holds
  free,              \* the elements that the program holds
  must, blocked      \* history: see WeakQueue

ring == <<sequence, data, head, tail>>
history == <<must, blocked>>
vars == <<ring, overflow, pc, pos, val, free, history>>

Slots == 0 .. SIZE - 1
Slot(p) == p % SIZE

Pushing == {"pushSeq", "pushReload", "pushCas", "pushWrite", "pushStore", "pushOver"}
Popping == {"popSeq", "popReload", "popCas", "popOver"}
PC == {"idle", "popRead", "popStore"} \cup Pushing \cup Popping

TypeOK ==
  /\ sequence \in [Slots -> Nat]
  /\ data \in [Slots -> Elem \cup {NoElem}]
  /\ head \in Nat /\ tail \in Nat
  /\ overflow \in Seq(Elem)
  /\ pc \in [Client -> PC]
  /\ pos \in [Client -> Nat]
  /\ val \in [Client -> Elem \cup {NoElem}]
  /\ free \subseteq Elem
  /\ must \in [Client -> SUBSET Elem]
  /\ blocked \in [Client -> BOOLEAN]

Init ==
  /\ sequence = [i \in Slots |-> i]
  /\ data = [i \in Slots |-> NoElem]
  /\ head = 0 /\ tail = 0
  /\ overflow = <<>>
  /\ pc = [c \in Client |-> "idle"]
  /\ pos = [c \in Client |-> 0]
  /\ val = [c \in Client |-> NoElem]
  /\ free = Elem
  /\ must = [c \in Client |-> {}]
  /\ blocked = [c \in Client |-> FALSE]

(* The positions whose element is in the ring, to be popped. *)
Published == {p \in head .. tail - 1 : sequence[Slot(p)] = p + 1}
Ready == {data[Slot(p)] : p \in Published} \cup ToSet(overflow)

Goto(c, l) == pc' = [pc EXCEPT ![c] = l]
Hold(c, e) == val' = [val EXCEPT ![c] = e]
LoadPos(c, p) == pos' = [pos EXCEPT ![c] = p]
Difference(c, p) == sequence[Slot(pos[c])] - p

-----------------------------------------------------------------------------
(* push                                                                    *)

PushStart(c, e) ==
  /\ pc[c] = "idle" /\ e \in free
  /\ tail < MaxTail
  /\ free' = free \ {e}
  /\ Hold(c, e)
  /\ LoadPos(c, tail)
  /\ Goto(c, "pushSeq")
  /\ UNCHANGED <<ring, overflow, history>>

(* Mutant: a slot of the previous lap is written again before it is read.  *)
PushSeq_NoFull(c) ==
  /\ pc[c] = "pushSeq"
  /\ Goto(c, IF Difference(c, pos[c]) <= 0 THEN "pushCas" ELSE "pushReload")
  /\ UNCHANGED <<ring, overflow, pos, val, free, history>>

PushSeq(c) ==
  /\ pc[c] = "pushSeq"
  /\ LET diff == Difference(c, pos[c]) IN
       \/ diff = 0 /\ Goto(c, "pushCas")
       \/ diff < 0 /\ Goto(c, "pushOver")
       \/ diff > 0 /\ Goto(c, "pushReload")
  /\ UNCHANGED <<ring, overflow, pos, val, free, history>>

PushReload(c) ==
  /\ pc[c] = "pushReload"
  /\ LoadPos(c, tail)
  /\ Goto(c, "pushSeq")
  /\ UNCHANGED <<ring, overflow, val, free, history>>

PushClaim(c) ==
  /\ pc[c] = "pushCas" /\ tail = pos[c]
  /\ tail' = tail + 1
  /\ Goto(c, "pushWrite")
  /\ UNCHANGED <<sequence, data, head, overflow, pos, val, free, history>>

(* compare_exchange_weak fails, spuriously or not, and has loaded the tail. *)
PushRetry(c) ==
  /\ pc[c] = "pushCas"
  /\ LoadPos(c, tail)
  /\ Goto(c, "pushSeq")
  /\ UNCHANGED <<ring, overflow, val, free, history>>

PushWrite(c) ==
  /\ pc[c] = "pushWrite"
  /\ data' = [data EXCEPT ![Slot(pos[c])] = val[c]]
  /\ Goto(c, "pushStore")
  /\ UNCHANGED <<sequence, head, tail, overflow, pos, val, free, history>>

PushStore(c) ==
  /\ pc[c] = "pushStore"
  /\ sequence' = [sequence EXCEPT ![Slot(pos[c])] = pos[c] + 1]
  /\ Hold(c, NoElem)
  /\ Goto(c, "idle")
  /\ UNCHANGED <<data, head, tail, overflow, pos, free, history>>

PushOver(c) ==
  /\ pc[c] = "pushOver"
  /\ overflow' = Append(overflow, val[c])
  /\ Hold(c, NoElem)
  /\ Goto(c, "idle")
  /\ UNCHANGED <<ring, pos, free, history>>

-----------------------------------------------------------------------------
(* pop                                                                     *)

PopStart(c) ==
  /\ pc[c] = "idle"
  /\ LoadPos(c, head)
  /\ Goto(c, "popSeq")
  /\ must' = [must EXCEPT ![c] = Ready]
  /\ UNCHANGED <<ring, overflow, val, free, blocked>>

(* The ring is empty, or the slot at its head is not published yet.        *)
PopSeq(c) ==
  /\ pc[c] = "popSeq"
  /\ LET diff == Difference(c, pos[c] + 1) IN
       /\ \/ diff = 0 /\ Goto(c, "popCas")
          \/ diff < 0 /\ Goto(c, "popOver")
          \/ diff > 0 /\ Goto(c, "popReload")
       /\ blocked' = [blocked EXCEPT ![c] = diff < 0 /\ pos[c] < tail]
  /\ UNCHANGED <<ring, overflow, pos, val, free, must>>

PopReload(c) ==
  /\ pc[c] = "popReload"
  /\ LoadPos(c, head)
  /\ Goto(c, "popSeq")
  /\ UNCHANGED <<ring, overflow, val, free, history>>

PopEnd(c, e) ==
  /\ must' = [d \in Client |-> IF d = c THEN {} ELSE must[d] \ {e}]
  /\ blocked' = [blocked EXCEPT ![c] = FALSE]

(* Mutant: the slot is given to the next lap before its element is read.   *)
PopClaim_ReleaseFirst(c) ==
  /\ pc[c] = "popCas" /\ head = pos[c]
  /\ head' = head + 1
  /\ sequence' = [sequence EXCEPT ![Slot(pos[c])] = pos[c] + SIZE]
  /\ PopEnd(c, data[Slot(head)])
  /\ Goto(c, "popRead")
  /\ UNCHANGED <<data, tail, overflow, pos, val, free>>

PopClaim(c) ==
  /\ pc[c] = "popCas" /\ head = pos[c]
  /\ head' = head + 1
  /\ PopEnd(c, data[Slot(head)])
  /\ Goto(c, "popRead")
  /\ UNCHANGED <<sequence, data, tail, overflow, pos, val, free>>

PopRetry(c) ==
  /\ pc[c] = "popCas"
  /\ LoadPos(c, head)
  /\ Goto(c, "popSeq")
  /\ UNCHANGED <<ring, overflow, val, free, history>>

PopRead(c) ==
  /\ pc[c] = "popRead"
  /\ Hold(c, data[Slot(pos[c])])
  /\ Goto(c, "popStore")
  /\ UNCHANGED <<ring, overflow, pos, free, history>>

PopStore(c) ==
  /\ pc[c] = "popStore"
  /\ sequence' = [sequence EXCEPT ![Slot(pos[c])] = pos[c] + SIZE]
  /\ free' = free \cup {val[c]}
  /\ Hold(c, NoElem)
  /\ Goto(c, "idle")
  /\ UNCHANGED <<data, head, tail, overflow, pos, history>>

PopOver(c) ==
  /\ pc[c] = "popOver" /\ overflow # <<>>
  /\ overflow' = Tail(overflow)
  /\ free' = free \cup {Head(overflow)}
  /\ PopEnd(c, Head(overflow))
  /\ Goto(c, "idle")
  /\ UNCHANGED <<ring, pos, val>>

(* Mutant: the overflow list is forgotten.                                 *)
PopFail_RingOnly(c) ==
  /\ pc[c] = "popOver"
  /\ PopEnd(c, NoElem)
  /\ Goto(c, "idle")
  /\ UNCHANGED <<ring, overflow, pos, val, free>>

PopFail(c) ==
  /\ pc[c] = "popOver" /\ overflow = <<>>
  /\ PopEnd(c, NoElem)
  /\ Goto(c, "idle")
  /\ UNCHANGED <<ring, overflow, pos, val, free>>

-----------------------------------------------------------------------------
Push(c) ==
  \/ \E e \in Elem : PushStart(c, e)
  \/ PushSeq(c) \/ PushReload(c) \/ PushClaim(c) \/ PushRetry(c)
  \/ PushWrite(c) \/ PushStore(c) \/ PushOver(c)

Pop(c) ==
  \/ PopStart(c) \/ PopSeq(c) \/ PopReload(c) \/ PopClaim(c) \/ PopRetry(c)
  \/ PopRead(c) \/ PopStore(c) \/ PopOver(c) \/ PopFail(c)

Next == \E c \in Client : Push(c) \/ Pop(c)

Spec == Init /\ [][Next]_vars

-----------------------------------------------------------------------------
(* Properties                                                              *)

Writing(c) == pc[c] \in {"pushWrite", "pushStore"}
Reading(c) == pc[c] \in {"popRead", "popStore"}

(* The element of a slot is no atomic variable: a push writes it and a pop *)
(* reads it only while no other thread does either.                        *)
NoDataRace ==
  \A c, d \in Client :
    c # d /\ pc[c] = "pushWrite" /\ pc[d] \in {"pushWrite", "popRead"} =>
      Slot(pos[c]) # Slot(pos[d])

(* The inductive invariant behind NoDataRace: what sequence says of the    *)
(* slots between head and tail, of those a pop has yet to give back, and   *)
(* of those to come; and what a compare_exchange that succeeds may assume. *)
Claims ==
  /\ head <= tail /\ tail <= head + SIZE
  /\ \A p \in head .. tail - 1 :
       \/ sequence[Slot(p)] = p + 1
       \/ sequence[Slot(p)] = p /\ \E c \in Client : Writing(c) /\ pos[c] = p
  /\ \A p \in tail .. tail + SIZE - 1 : sequence[Slot(p)] <= p

Accesses ==
  /\ \A c \in Client : Writing(c) =>
       pos[c] \in head .. tail - 1 /\ sequence[Slot(pos[c])] = pos[c]
  /\ \A c \in Client : Reading(c) =>
       /\ pos[c] < head /\ tail <= pos[c] + SIZE
       /\ sequence[Slot(pos[c])] = pos[c] + 1
  /\ \A c, d \in Client :
       c # d /\ (Writing(c) \/ Reading(c)) /\ (Writing(d) \/ Reading(d)) =>
         pos[c] # pos[d]

Compared ==
  \A c \in Client :
    /\ pc[c] = "pushCas" /\ pos[c] = tail => sequence[Slot(tail)] = tail
    /\ pc[c] = "popSeq" =>
         pos[c] <= head /\ (pos[c] < head => sequence[Slot(pos[c])] > pos[c])
    /\ pc[c] = "popCas" /\ pos[c] = head =>
         head < tail /\ sequence[Slot(head)] = head + 1
    /\ pc[c] = "popCas" => pos[c] <= head
    /\ pc[c] \in {"pushSeq", "pushCas"} => pos[c] <= tail

Contents ==
  /\ \A p \in Published : data[Slot(p)] \in Elem
  /\ \A c \in Client :
       /\ val[c] \in Elem <=> pc[c] \in Pushing \cup {"popStore"}
       /\ pc[c] = "pushStore" => data[Slot(pos[c])] = val[c]
       /\ pc[c] = "popRead" => data[Slot(pos[c])] \in Elem

RingInv == TypeOK /\ Claims /\ Accesses /\ Compared /\ Contents

(* Every element is in exactly one place: with the program, with a client  *)
(* that pushes it or has popped it, in a slot, or in the overflow list.    *)
(* None is lost, and none is popped twice.                                 *)
Occupied == Published \cup {pos[c] : c \in {d \in Client : pc[d] = "popRead"}}

ExactlyOnce ==
  /\ \A e \in Elem :
       \/ e \in free \cup ToSet(overflow)
       \/ \E c \in Client : val[c] = e
       \/ \E p \in Occupied : data[Slot(p)] = e
  /\ free \cap ToSet(overflow) = {}
  /\ \A i, j \in DOMAIN overflow : overflow[i] = overflow[j] => i = j
  /\ \A c \in Client :
       /\ val[c] \notin free \cup ToSet(overflow)
       /\ \A d \in Client : val[c] = val[d] /\ val[c] # NoElem => c = d
  /\ \A p \in Occupied :
       /\ data[Slot(p)] \notin free \cup ToSet(overflow)
       /\ \A c \in Client : data[Slot(p)] # val[c]
       /\ \A q \in Occupied : data[Slot(p)] = data[Slot(q)] => p = q

(* What a pop that is about to return false has left behind.               *)
PopInv ==
  \A c \in Client :
    /\ must[c] \subseteq Ready
    /\ blocked[c] => pc[c] = "popOver"
    /\ pc[c] = "popOver" => blocked[c] \/ must[c] \subseteq ToSet(overflow)

QueueInv == RingInv /\ ExactlyOnce /\ PopInv

(* The queue does what the task manager is modelled with: a push claims a  *)
(* slot and publishes it, a pop takes the element by its compare_exchange, *)
(* and a pop that returns false either met a slot that was claimed and not *)
(* published or left nothing that was there when it started.               *)
Claimed(e) == \E c \in Client : Writing(c) /\ val[c] = e

Status == [e \in Elem |-> IF e \in Ready THEN "ready"
                          ELSE IF Claimed(e) THEN "claimed" ELSE "out"]
On == [c \in Client |-> IF pc[c] \in Popping THEN ThisQueue ELSE NoQueue]

Abs == INSTANCE WeakQueue WITH
  Queue <- {ThisQueue}, Home <- [e \in Elem |-> ThisQueue],
  status <- Status, on <- On

ImplementsWeakQueue == Abs!QueueSpec
=============================================================================
