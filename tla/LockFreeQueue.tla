---------------------------- MODULE LockFreeQueue ----------------------------
(***************************************************************************)
(* TU_LockFreeQueue: the linked list of Michael and Scott, with counted    *)
(* pointers, whose popped nodes go to a pool and stay allocated until the  *)
(* queue is destroyed.                                                     *)
(*                                                                         *)
(* A step is one access to an atomic that the threads share; what a thread *)
(* does with its own variables afterwards is part of the step.             *)
(* compare_exchange_weak may fail whatever the value is.                   *)
(*                                                                         *)
(* push allocates a node for its element, and the pool is never drawn      *)
(* from: a node stands for the element it was allocated for.               *)
(***************************************************************************)
EXTENDS Integers, FiniteSets, Sequences

CONSTANTS Elem, Client, Dummy, Null, NoElem

ASSUME NodeAssumption ==
  /\ Dummy \notin Elem /\ Null \notin Elem \cup {Dummy}
  /\ NoElem \notin Elem \cup {Dummy, Null}

Node == Elem \cup {Dummy}

(* TU_LockFreeQueueNodePtr *)
Ptr(p, k) == [ptr |-> p, count |-> k]
Pointer == [ptr : Node \cup {Null}, count : Nat]
Nowhere == Ptr(Null, 0)

VARIABLES
  head, tail, free,  \* head_, tail_, free_
  next,              \* of each node
  pc,                \* where each client is
  h, t, n, f,        \* its variables head, tail, next and free
  node,              \* the node that it pushes or releases
  list,              \* history: the nodes that were ever linked, in order
  pool,              \* history: the nodes that were released, in order
  empty              \* history: see Fifo

shared == <<head, tail, free, next>>
locals == <<h, t, n, f, node>>
history == <<list, pool, empty>>
vars == <<shared, pc, locals, history>>

PushPC == {"pushTail", "pushNext", "pushCheck", "pushLink", "pushHelp", "pushSwing"}
PopPC == {"popHead", "popTail", "popNext", "popCheck", "popHelp", "popCas"}
ReleasePC == {"relLoad", "relStore", "relCas"}

(* The constructor has made the dummy node. *)
Init ==
  /\ head = Ptr(Dummy, 0) /\ tail = Ptr(Dummy, 0)
  /\ free = Nowhere
  /\ next = [x \in Node |-> Nowhere]
  /\ pc = [c \in Client |-> "idle"]
  /\ h = [c \in Client |-> Nowhere]
  /\ t = [c \in Client |-> Nowhere]
  /\ n = [c \in Client |-> Nowhere]
  /\ f = [c \in Client |-> Nowhere]
  /\ node = [c \in Client |-> Null]
  /\ list = <<Dummy>>
  /\ pool = <<>>
  /\ empty = [c \in Client |-> FALSE]

Goto(c, l) == pc' = [pc EXCEPT ![c] = l]

(* The call returns, and its variables are gone. *)
Return(c) ==
  /\ Goto(c, "idle")
  /\ h' = [h EXCEPT ![c] = Nowhere]
  /\ t' = [t EXCEPT ![c] = Nowhere]
  /\ n' = [n EXCEPT ![c] = Nowhere]
  /\ f' = [f EXCEPT ![c] = Nowhere]
  /\ node' = [node EXCEPT ![c] = Null]

-----------------------------------------------------------------------------
(* push                                                                    *)

Linked(e) == \E i \in DOMAIN list : list[i] = e

(* node->next.store({nullptr, 0}): no other thread knows the node yet.     *)
PushStart(c, e) ==
  /\ pc[c] = "idle"
  /\ ~ Linked(e) /\ \A d \in Client : node[d] # e
  /\ next' = [next EXCEPT ![e] = Nowhere]
  /\ node' = [node EXCEPT ![c] = e]
  /\ Goto(c, "pushTail")
  /\ UNCHANGED <<head, tail, free, h, t, n, f, history>>

PushTail(c) ==
  /\ pc[c] = "pushTail"
  /\ t' = [t EXCEPT ![c] = tail]
  /\ Goto(c, "pushNext")
  /\ UNCHANGED <<shared, h, n, f, node, history>>

PushNext(c) ==
  /\ pc[c] = "pushNext"
  /\ n' = [n EXCEPT ![c] = next[t[c].ptr]]
  /\ Goto(c, "pushCheck")
  /\ UNCHANGED <<shared, h, t, f, node, history>>

(* Mutant: the tail is not compared again.                                 *)
PushCheck_Unchecked(c) ==
  /\ pc[c] = "pushCheck"
  /\ Goto(c, IF n[c].ptr = Null THEN "pushLink" ELSE "pushHelp")
  /\ UNCHANGED <<shared, locals, history>>

PushCheck(c) ==
  /\ pc[c] = "pushCheck"
  /\ \/ tail # t[c] /\ Goto(c, "pushTail")
     \/ tail = t[c] /\ n[c].ptr = Null /\ Goto(c, "pushLink")
     \/ tail = t[c] /\ n[c].ptr # Null /\ Goto(c, "pushHelp")
  /\ UNCHANGED <<shared, locals, history>>

PushLink(c) ==
  /\ pc[c] = "pushLink" /\ next[t[c].ptr] = n[c]
  /\ next' = [next EXCEPT ![t[c].ptr] = Ptr(node[c], n[c].count + 1)]
  /\ list' = Append(list, node[c])
  /\ Goto(c, "pushSwing")
  /\ UNCHANGED <<head, tail, free, locals, pool, empty>>

PushRetry(c) ==
  /\ pc[c] \in {"pushLink", "pushHelp"}
  /\ Goto(c, "pushTail")
  /\ UNCHANGED <<shared, locals, history>>

(* The tail lags: another push has linked its node and not moved the tail. *)
PushHelp(c) ==
  /\ pc[c] = "pushHelp" /\ tail = t[c]
  /\ tail' = Ptr(n[c].ptr, t[c].count + 1)
  /\ Goto(c, "pushTail")
  /\ UNCHANGED <<head, free, next, locals, history>>

(* The push moves the tail, unless another thread has. *)
PushSwing(c) ==
  /\ pc[c] = "pushSwing"
  /\ \/ tail = t[c] /\ tail' = Ptr(node[c], t[c].count + 1)
     \/ UNCHANGED tail
  /\ Return(c)
  /\ UNCHANGED <<head, free, next, history>>

-----------------------------------------------------------------------------
(* pop                                                                     *)

Popping(c) == pc[c] \in PopPC

(* head.count and tail.count count the nodes that head_ and tail_ have     *)
(* left behind.                                                            *)
Items == SubSeq(list, head.count + 2, Len(list))

PopStart(c) ==
  /\ pc[c] = "idle"
  /\ empty' = [empty EXCEPT ![c] = Items = <<>>]
  /\ Goto(c, "popHead")
  /\ UNCHANGED <<shared, locals, list, pool>>

PopHead(c) ==
  /\ pc[c] = "popHead"
  /\ h' = [h EXCEPT ![c] = head]
  /\ Goto(c, "popTail")
  /\ UNCHANGED <<shared, t, n, f, node, history>>

PopTail(c) ==
  /\ pc[c] = "popTail"
  /\ t' = [t EXCEPT ![c] = tail]
  /\ Goto(c, "popNext")
  /\ UNCHANGED <<shared, h, n, f, node, history>>

PopNext(c) ==
  /\ pc[c] = "popNext"
  /\ n' = [n EXCEPT ![c] = next[h[c].ptr]]
  /\ Goto(c, "popCheck")
  /\ UNCHANGED <<shared, h, t, f, node, history>>

PopAgain(c) ==
  /\ pc[c] = "popCheck" /\ head # h[c]
  /\ Goto(c, "popHead")
  /\ UNCHANGED <<shared, locals, history>>

PopFail(c) ==
  /\ pc[c] = "popCheck" /\ head = h[c]
  /\ h[c] = t[c] /\ n[c].ptr = Null
  /\ empty' = [empty EXCEPT ![c] = FALSE]
  /\ Return(c)
  /\ UNCHANGED <<shared, list, pool>>

(* Mutant: the head is not compared again.                                 *)
PopCheck_Unchecked(c) ==
  /\ pc[c] = "popCheck"
  /\ \/ h[c] = t[c] /\ n[c].ptr # Null /\ Goto(c, "popHelp")
     \/ h[c] # t[c] /\ Goto(c, "popCas")
  /\ UNCHANGED <<shared, locals, history>>

(* The element of the next node is read, before the head is moved.         *)
PopCheck(c) ==
  /\ pc[c] = "popCheck" /\ head = h[c]
  /\ \/ h[c] = t[c] /\ n[c].ptr # Null /\ Goto(c, "popHelp")
     \/ h[c] # t[c] /\ Goto(c, "popCas")
  /\ UNCHANGED <<shared, locals, history>>

PopHelp(c) ==
  /\ pc[c] = "popHelp" /\ tail = t[c]
  /\ tail' = Ptr(n[c].ptr, t[c].count + 1)
  /\ Goto(c, "popHead")
  /\ UNCHANGED <<head, free, next, locals, history>>

PopRetry(c) ==
  /\ pc[c] \in {"popHelp", "popCas"}
  /\ Goto(c, "popHead")
  /\ UNCHANGED <<shared, locals, history>>

PopCas(c) ==
  /\ pc[c] = "popCas" /\ head = h[c]
  /\ head' = Ptr(n[c].ptr, h[c].count + 1)
  /\ node' = [node EXCEPT ![c] = h[c].ptr]
  /\ empty' = [d \in Client |->
       d # c /\ (empty[d] \/ (Popping(d) /\ Len(Items) <= 1))]
  /\ Goto(c, "relLoad")
  /\ UNCHANGED <<tail, free, next, h, t, n, f, list, pool>>

-----------------------------------------------------------------------------
(* release_node                                                            *)

RelLoad(c) ==
  /\ pc[c] = "relLoad"
  /\ f' = [f EXCEPT ![c] = free]
  /\ Goto(c, "relStore")
  /\ UNCHANGED <<shared, h, t, n, node, history>>

(* Mutant: the count of the pool's pointers does not advance.              *)
RelStore_SameCount(c) ==
  /\ pc[c] = "relStore"
  /\ next' = [next EXCEPT ![node[c]] = f[c]]
  /\ Goto(c, "relCas")
  /\ UNCHANGED <<head, tail, free, locals, history>>

RelStore(c) ==
  /\ pc[c] = "relStore"
  /\ next' = [next EXCEPT ![node[c]] = Ptr(f[c].ptr, f[c].count + 1)]
  /\ Goto(c, "relCas")
  /\ UNCHANGED <<head, tail, free, locals, history>>

(* Mutant: the pool's head is overwritten, whatever another thread did.    *)
RelCas_Store(c) ==
  /\ pc[c] = "relCas"
  /\ free' = Ptr(node[c], f[c].count + 1)
  /\ pool' = Append(pool, node[c])
  /\ Return(c)
  /\ UNCHANGED <<head, tail, next, list, empty>>

RelCas(c) ==
  /\ pc[c] = "relCas" /\ free = f[c]
  /\ free' = Ptr(node[c], f[c].count + 1)
  /\ pool' = Append(pool, node[c])
  /\ Return(c)
  /\ UNCHANGED <<head, tail, next, list, empty>>

RelRetry(c) ==
  /\ pc[c] = "relCas"
  /\ Goto(c, "relLoad")
  /\ UNCHANGED <<shared, locals, history>>

-----------------------------------------------------------------------------
Push(c) ==
  \/ \E e \in Elem : PushStart(c, e)
  \/ PushTail(c) \/ PushNext(c) \/ PushCheck(c) \/ PushLink(c)
  \/ PushRetry(c) \/ PushHelp(c) \/ PushSwing(c)

Pop(c) ==
  \/ PopStart(c) \/ PopHead(c) \/ PopTail(c) \/ PopNext(c)
  \/ PopAgain(c) \/ PopFail(c) \/ PopCheck(c) \/ PopHelp(c)
  \/ PopRetry(c) \/ PopCas(c)

ReleaseNode(c) == RelLoad(c) \/ RelStore(c) \/ RelCas(c) \/ RelRetry(c)

Next == \E c \in Client : Push(c) \/ Pop(c) \/ ReleaseNode(c)

Spec == Init /\ [][Next]_vars

-----------------------------------------------------------------------------
(* Properties                                                              *)

TypeOK ==
  /\ head \in Pointer /\ tail \in Pointer /\ free \in Pointer
  /\ next \in [Node -> Pointer]
  /\ pc \in [Client -> {"idle"} \cup PushPC \cup PopPC \cup ReleasePC]
  /\ h \in [Client -> Pointer] /\ t \in [Client -> Pointer]
  /\ n \in [Client -> Pointer] /\ f \in [Client -> Pointer]
  /\ node \in [Client -> Node \cup {Null}]
  /\ list \in Seq(Node) /\ pool \in Seq(Node)
  /\ empty \in [Client -> BOOLEAN]

(* A counted pointer and the pointer that follows it in the list. *)
PointsAt(p) == p.count < Len(list) /\ p.ptr = list[p.count + 1]
Follows(x, p) == p.count + 1 < Len(list) /\ x = list[p.count + 2]

(* The counts of head_ and tail_ are positions in the list: two pointers   *)
(* are equal, count and all, exactly when they point at the same node,     *)
(* which is what pop compares to tell an empty queue.  A node that has     *)
(* been left behind has a next whose count is positive, so that the        *)
(* compare_exchange of a push that is late fails on it.                    *)
ListInv ==
  /\ PointsAt(head) /\ PointsAt(tail) /\ head.count <= tail.count
  /\ \A i, j \in DOMAIN list : list[i] = list[j] => i = j
  /\ \A i \in DOMAIN list :
       /\ i <= head.count => next[list[i]].count > 0
       /\ i > head.count =>
            next[list[i]] = IF i = Len(list) THEN Nowhere ELSE Ptr(list[i + 1], 1)

(* What a push knows of the list, late or not. *)
PushKnows(c) ==
  /\ pc[c] \in PushPC => node[c] \in Elem
  /\ pc[c] \in PushPC \ {"pushSwing"} =>
       /\ ~ Linked(node[c]) /\ next[node[c]] = Nowhere
       /\ \A d \in Client : node[d] = node[c] => d = c
  /\ pc[c] \in PushPC \ {"pushTail"} => PointsAt(t[c]) /\ t[c].count <= tail.count
  /\ pc[c] = "pushCheck" /\ tail = t[c] => n[c] = Nowhere \/ Follows(n[c].ptr, t[c])
  /\ pc[c] = "pushLink" => n[c] = Nowhere
  /\ pc[c] = "pushHelp" => Follows(n[c].ptr, t[c])
  /\ pc[c] = "pushSwing" => Follows(node[c], t[c])

(* What a pop knows: the next it dereferences is that of the head, and is  *)
(* null only when the queue was empty.                                     *)
PopKnows(c) ==
  /\ pc[c] \in PopPC \ {"popHead"} => PointsAt(h[c]) /\ h[c].count <= head.count
  /\ pc[c] \in PopPC \ {"popHead", "popTail"} =>
       PointsAt(t[c]) /\ h[c].count <= t[c].count /\ t[c].count <= tail.count
  /\ pc[c] = "popCheck" /\ head = h[c] =>
       \/ Follows(n[c].ptr, h[c])
       \/ n[c] = Nowhere /\ t[c] = h[c] /\ empty[c]
  /\ pc[c] = "popHelp" => h[c] = t[c] /\ Follows(n[c].ptr, t[c])
  /\ pc[c] = "popCas" => h[c].count < t[c].count /\ Follows(n[c].ptr, h[c])
  /\ Popping(c) /\ Items = <<>> => empty[c]
  /\ empty[c] => Popping(c)

(* What a pop knows that has moved the head and releases the node.         *)
Releasing(c) == pc[c] \in ReleasePC
Pooled(x) == \E i \in DOMAIN pool : pool[i] = x
PoolPtr(k) == Ptr(IF k = 0 THEN Null ELSE pool[k], k)

ReleaseKnows(c) ==
  /\ Releasing(c) =>
       /\ h[c].count < head.count /\ PointsAt(h[c]) /\ node[c] = h[c].ptr
       /\ Follows(n[c].ptr, h[c])
       /\ ~ Pooled(node[c])
       /\ \A d \in Client : Releasing(d) /\ node[d] = node[c] => d = c
  /\ pc[c] \in {"relStore", "relCas"} =>
       f[c].count <= Len(pool) /\ f[c] = PoolPtr(f[c].count)
  /\ pc[c] = "relCas" => next[node[c]] = Ptr(f[c].ptr, f[c].count + 1)

(* The nodes left behind are in the pool, each once, or on their way.      *)
PoolInv ==
  /\ free = PoolPtr(Len(pool))
  /\ \A i \in DOMAIN pool :
       /\ next[pool[i]] = Ptr(PoolPtr(i - 1).ptr, i)
       /\ \E k \in 1 .. head.count : pool[i] = list[k]
  /\ \A i, j \in DOMAIN pool : pool[i] = pool[j] => i = j
  /\ \A k \in 1 .. head.count :
       Pooled(list[k]) \/ \E c \in Client : Releasing(c) /\ node[c] = list[k]

ClientInv == \A c \in Client : PushKnows(c) /\ PopKnows(c) /\ ReleaseKnows(c)

LfqInv == TypeOK /\ ListInv /\ ClientInv /\ PoolInv

(* A pop reads an element through the next of the head that it loaded,     *)
(* although the head may have been popped and released since: it never     *)
(* finds the null that ends the pool there.                                *)
NoNullDereference == \A c \in Client : pc[c] = "popCas" => n[c].ptr # Null

(* The destructor, which deletes what it meets on its way from head_ and   *)
(* from free_, deletes every node that was linked, and none twice: both    *)
(* ways end, and they do not meet.                                         *)
Reached(p) ==
  LET walk[k \in 0 .. Cardinality(Node)] ==
        IF k = 0 THEN {p.ptr} \ {Null}
        ELSE walk[k - 1] \cup ({next[x].ptr : x \in walk[k - 1]} \ {Null})
  IN  walk[Cardinality(Node)]

Ends(p) == p.ptr = Null \/ \E x \in Reached(p) : next[x].ptr = Null

DeletedOnce ==
  (\A c \in Client : pc[c] = "idle") =>
    /\ Ends(head) /\ Ends(free)
    /\ Reached(head) \cap Reached(free) = {}
    /\ Reached(head) \cup Reached(free) = {list[i] : i \in DOMAIN list}

(* The list is a linearizable queue: a push takes effect when it links its *)
(* node, a pop when it moves the head; the late pushes and pops, which     *)
(* hold pointers to nodes that others have popped and released, lose,      *)
(* duplicate and reorder nothing.                                          *)
AbsCall(c) ==
  IF Popping(c) THEN "pop" ELSE IF Releasing(c) THEN "return" ELSE "none"

Abs == INSTANCE Fifo WITH
  items <- Items,
  call <- [c \in Client |-> AbsCall(c)],
  sawEmpty <- empty,
  result <- [c \in Client |-> IF Releasing(c) THEN n[c].ptr ELSE NoElem]

ImplementsFifo == Abs!FifoSpec
=============================================================================
