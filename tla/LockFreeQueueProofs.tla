------------------------- MODULE LockFreeQueueProofs -------------------------
(***************************************************************************)
(* For any number of threads and of elements: TU_LockFreeQueue is a        *)
(* linearizable first-in first-out queue, its late pushes and pops never   *)
(* follow a null pointer, and its destructor deletes each node once.       *)
(***************************************************************************)
EXTENDS LockFreeQueue, FiniteSetTheorems, SequenceTheorems,
        WellFoundedInduction, TLAPS

USE DEF Goto, shared, locals, history

-----------------------------------------------------------------------------
(* Pointers and the list *)

LEMMA PtrFields ==
  ASSUME NEW x, NEW k
  PROVE  Ptr(x, k).ptr = x /\ Ptr(x, k).count = k
BY DEF Ptr

LEMMA PtrType ==
  ASSUME NEW x \in Node \cup {Null}, NEW k \in Nat
  PROVE  Ptr(x, k) \in Pointer
BY DEF Ptr, Pointer

LEMMA PtrEqual ==
  ASSUME NEW x \in Pointer, NEW y \in Pointer, x.ptr = y.ptr, x.count = y.count
  PROVE  x = y
BY DEF Pointer

LEMMA PointerParts ==
  ASSUME NEW x \in Pointer
  PROVE  x.ptr \in Node \cup {Null} /\ x.count \in Nat /\ x = Ptr(x.ptr, x.count)
BY DEF Pointer, Ptr

LEMMA NextPtrType ==
  ASSUME NEW x \in Node \cup {Null}, NEW p \in Pointer
  PROVE  Ptr(x, p.count + 1) \in Pointer
BY PtrType, PointerParts

LEMMA ClientTypes ==
  ASSUME TypeOK, NEW c \in Client
  PROVE  /\ h[c] \in Pointer /\ t[c] \in Pointer /\ n[c] \in Pointer /\ f[c] \in Pointer
         /\ h[c].ptr \in Node \cup {Null} /\ n[c].ptr \in Node \cup {Null}
         /\ f[c].ptr \in Node \cup {Null} /\ node[c] \in Node \cup {Null}
         /\ h[c].count \in Nat /\ t[c].count \in Nat /\ f[c].count \in Nat
         /\ head \in Pointer /\ tail \in Pointer /\ head.count \in Nat
         /\ tail.count \in Nat /\ list \in Seq(Node) /\ Len(list) \in Nat
<1>1. /\ h[c] \in Pointer /\ t[c] \in Pointer /\ n[c] \in Pointer /\ f[c] \in Pointer
      /\ head \in Pointer /\ tail \in Pointer /\ node[c] \in Node \cup {Null}
      /\ list \in Seq(Node)
  BY DEF TypeOK
<1> QED BY <1>1, PointerParts

LEMMA NowhereType == Nowhere \in Pointer /\ Nowhere.ptr = Null /\ Nowhere.count = 0
BY DEF Nowhere, Ptr, Pointer

(* The nodes that a pointer of the list names, and the one after. *)
LEMMA PointsNode ==
  ASSUME TypeOK, NEW p \in Pointer, PointsAt(p)
  PROVE  p.ptr \in Node /\ p.count + 1 \in DOMAIN list /\ p.ptr = list[p.count + 1]
BY PointerParts DEF TypeOK, PointsAt

LEMMA FollowsNode ==
  ASSUME TypeOK, NEW p \in Pointer, NEW x, Follows(x, p)
  PROVE  x \in Node /\ p.count + 2 \in DOMAIN list /\ x = list[p.count + 2]
BY PointerParts DEF TypeOK, Follows

(* Two pointers of the list are equal when their counts are. *)
LEMMA SameCount ==
  ASSUME NEW p \in Pointer, NEW q \in Pointer, PointsAt(p), PointsAt(q),
         p.count = q.count
  PROVE  p = q
BY PtrEqual DEF PointsAt

(* The list only grows. *)
LEMMA Growing ==
  ASSUME TypeOK, NEW e \in Node, list' = Append(list, e)
  PROVE  /\ list' \in Seq(Node) /\ Len(list') = Len(list) + 1
         /\ DOMAIN list = 1 .. Len(list) /\ DOMAIN list' = 1 .. Len(list) + 1
         /\ \A i \in DOMAIN list : list'[i] = list[i]
         /\ list'[Len(list) + 1] = e
         /\ Len(list) \in Nat
BY DEF TypeOK

LEMMA RestEmpty ==
  ASSUME NEW s \in Seq(Node), NEW k \in Nat, k < Len(s)
  PROVE  SubSeq(s, k + 2, Len(s)) = <<>> <=> Len(s) = k + 1
<1> DEFINE r == SubSeq(s, k + 2, Len(s))
<1>1. r \in Seq(Node) /\ Len(r) = Len(s) - k - 1 /\ Len(s) \in Nat
  OBVIOUS
<1> HIDE DEF r
<1>2. r = <<>> <=> Len(r) = 0
  BY <1>1
<1>3. r = <<>> <=> Len(s) = k + 1
  BY <1>1, <1>2
<1> QED BY <1>3 DEF r

LEMMA RestAppend ==
  ASSUME NEW s \in Seq(Node), NEW k \in Nat, k < Len(s), NEW e \in Node
  PROVE  SubSeq(Append(s, e), k + 2, Len(Append(s, e))) =
           Append(SubSeq(s, k + 2, Len(s)), e)
<1> DEFINE s2 == Append(s, e)
           a == SubSeq(s2, k + 2, Len(s2))
           r == SubSeq(s, k + 2, Len(s))
           b == Append(r, e)
<1>1. /\ Len(s) \in Nat /\ s2 \in Seq(Node) /\ Len(s2) = Len(s) + 1
      /\ \A i \in 1 .. Len(s) : s2[i] = s[i]
      /\ s2[Len(s) + 1] = e
  OBVIOUS
<1>2. /\ r \in Seq(Node) /\ Len(r) = Len(s) - k - 1
      /\ \A i \in 1 .. Len(s) - k - 1 : r[i] = s[k + 1 + i]
  BY <1>1
<1> HIDE DEF s2, r
<1>3. /\ a \in Seq(Node) /\ Len(a) = Len(s) - k
      /\ \A i \in 1 .. Len(s) - k : a[i] = s2[k + 1 + i]
  BY <1>1
<1>4. /\ b \in Seq(Node) /\ Len(b) = Len(s) - k
      /\ \A i \in 1 .. Len(s) - k - 1 : b[i] = r[i]
      /\ b[Len(s) - k] = e
  BY <1>1, <1>2
<1> HIDE DEF a, b
<1>5. ASSUME NEW i \in 1 .. Len(s) - k
      PROVE  a[i] = b[i]
  <2>1. CASE i = Len(s) - k
    <3>1. k + 1 + i = Len(s) + 1
      BY <1>1, <2>1
    <3> QED BY <1>1, <1>3, <1>4, <2>1, <3>1
  <2>2. CASE i \in 1 .. Len(s) - k - 1
    <3>1. k + 1 + i \in 1 .. Len(s)
      BY <1>1, <2>2
    <3> QED BY <1>1, <1>2, <1>3, <1>4, <2>2, <3>1
  <2> QED BY <1>1, <2>1, <2>2
<1>6. a = b
  BY <1>1, <1>3, <1>4, <1>5, SeqEqual
<1> QED BY <1>6 DEF a, b, s2, r

LEMMA RestTail ==
  ASSUME NEW s \in Seq(Node), NEW k \in Nat, k + 1 < Len(s)
  PROVE  LET r == SubSeq(s, k + 2, Len(s))
         IN  /\ r # <<>> /\ Head(r) = s[k + 2]
             /\ SubSeq(s, (k + 1) + 2, Len(s)) = Tail(r)
             /\ Tail(r) = <<>> <=> Len(r) <= 1
<1> DEFINE r == SubSeq(s, k + 2, Len(s))
<1>1. Len(s) \in Nat /\ k + 2 \in 1 .. Len(s) /\ Len(s) \in k + 2 .. Len(s)
  OBVIOUS
<1>2. Head(r) = s[k + 2] /\ SubSeq(s, (k + 2) + 1, Len(s)) = Tail(r)
  BY <1>1, HeadTailOfSubSeq
<1>3. (k + 1) + 2 = (k + 2) + 1
  OBVIOUS
<1>4. r \in Seq(Node) /\ Len(r) = Len(s) - k - 1
  BY <1>1
<1> HIDE DEF r
<1>5. r # <<>>
  BY <1>1, <1>4
<1>6. Tail(r) \in Seq(Node) /\ Len(Tail(r)) = Len(r) - 1 /\ Len(r) \in Nat
  BY <1>4, <1>5, HeadTailProperties
<1>7. Len(Tail(r)) = 0 <=> Len(r) <= 1
  <2> DEFINE q == Len(Tail(r))
  <2>1. Len(r) >= 1 /\ Len(r) \in Nat
    BY <1>1, <1>4
  <2>2. q = Len(r) - 1
    BY <1>6
  <2> HIDE DEF q
  <2>3. q = 0 <=> Len(r) <= 1
    BY <2>1, <2>2
  <2> QED BY <2>3 DEF q
<1>8. Tail(r) = <<>> <=> Len(r) <= 1
  <2>1. \A q \in Seq(Node) : q = <<>> <=> Len(q) = 0
    OBVIOUS
  <2> QED BY <1>6, <1>7, <2>1
<1> QED BY <1>2, <1>3, <1>5, <1>8 DEF r

LEMMA ItemsLength ==
  ASSUME TypeOK, ListInv
  PROVE  /\ Len(list) \in Nat /\ head.count \in Nat /\ head.count < Len(list)
         /\ Items \in Seq(Node)
         /\ Len(Items) = Len(list) - head.count - 1
         /\ \A i \in 1 .. Len(list) - head.count - 1 : Items[i] = list[head.count + 1 + i]
         /\ Items = <<>> <=> Len(list) = head.count + 1
<1>1. Len(list) \in Nat /\ head.count \in Nat /\ head.count < Len(list)
      /\ list \in Seq(Node)
  BY PointerParts DEF TypeOK, ListInv, PointsAt
<1>2. /\ Items \in Seq(Node) /\ Len(Items) = Len(list) - head.count - 1
      /\ \A i \in 1 .. Len(list) - head.count - 1 : Items[i] = list[head.count + 1 + i]
  BY <1>1 DEF Items
<1> QED BY <1>1, <1>2

(* The last node is the only one of the list whose next is null, and a     *)
(* node with a next of count 0 has not been left behind.                   *)
LEMMA LastNode ==
  ASSUME TypeOK, ListInv, NEW p \in Pointer, PointsAt(p), next[p.ptr] = Nowhere
  PROVE  p.count + 1 = Len(list) /\ head.count <= p.count
<1>1. p.ptr = list[p.count + 1] /\ p.count + 1 \in DOMAIN list /\ p.count \in Nat
      /\ head.count \in Nat /\ DOMAIN list = 1 .. Len(list) /\ Len(list) \in Nat
      /\ list \in Seq(Node)
  BY PointsNode, PointerParts DEF TypeOK
<1>2. ~ (p.count + 1 <= head.count)
  BY <1>1, NowhereType DEF ListInv
<1>3. p.count + 1 = Len(list)
  <2>1. SUFFICES ASSUME p.count + 1 # Len(list) PROVE FALSE
    OBVIOUS
  <2>2. Nowhere = Ptr(list[(p.count + 1) + 1], 1)
    BY <1>1, <1>2, <2>1 DEF ListInv
  <2> QED BY <2>2, NowhereType, PtrFields
<1> QED BY <1>1, <1>2, <1>3

-----------------------------------------------------------------------------
(* Types *)

LEMMA InitType == Init => TypeOK
<1> SUFFICES ASSUME Init PROVE TypeOK
  OBVIOUS
<1>1. Dummy \in Node /\ Ptr(Dummy, 0) \in Pointer /\ Nowhere \in Pointer
  BY PtrType, NowhereType DEF Node
<1> QED BY <1>1 DEF Init, TypeOK

LEMMA PushType ==
  ASSUME TypeOK, ClientInv, NEW c \in Client, Push(c)
  PROVE  TypeOK'
<1>0. PushKnows(c)
  BY DEF ClientInv
<1>1. CASE \E e \in Elem : PushStart(c, e)
  BY <1>1, NowhereType DEF PushStart, TypeOK, PushPC, Node
<1>2. CASE PushTail(c) \/ PushCheck(c) \/ PushRetry(c)
  BY <1>2 DEF PushTail, PushCheck, PushRetry, TypeOK, PushPC
<1>3. CASE PushNext(c)
  <2>1. t[c].ptr \in Node
    BY <1>0, <1>3, PointsNode DEF PushNext, TypeOK, PushKnows, PushPC
  <2> QED BY <1>3, <2>1 DEF PushNext, TypeOK, PushPC
<1>4. CASE PushLink(c)
  <2>1. node[c] \in Node /\ Ptr(node[c], n[c].count + 1) \in Pointer
    BY <1>0, <1>4, NextPtrType, ClientTypes DEF PushLink, PushKnows, PushPC, Node
  <2>2. list' \in Seq(Node)
    BY <1>4, <2>1 DEF PushLink, TypeOK
  <2>3. next' \in [Node -> Pointer]
    BY <1>4, <2>1 DEF PushLink, TypeOK
  <2> QED BY <1>4, <2>2, <2>3 DEF PushLink, TypeOK, PushPC
<1>5. CASE PushHelp(c)
  <2>1. Ptr(n[c].ptr, t[c].count + 1) \in Pointer
    BY NextPtrType, ClientTypes
  <2> QED BY <1>5, <2>1 DEF PushHelp, TypeOK, PushPC
<1>6. CASE PushSwing(c)
  <2>1. Ptr(node[c], t[c].count + 1) \in Pointer
    BY NextPtrType, ClientTypes
  <2> QED BY <1>6, <2>1, NowhereType DEF PushSwing, Return, TypeOK
<1> QED BY <1>1, <1>2, <1>3, <1>4, <1>5, <1>6 DEF Push

LEMMA PopType ==
  ASSUME TypeOK, ClientInv, NEW c \in Client, Pop(c) \/ ReleaseNode(c)
  PROVE  TypeOK'
<1>0. PopKnows(c)
  BY DEF ClientInv
<1>1. CASE PopStart(c)
  BY <1>1 DEF PopStart, TypeOK, PopPC
<1>2. CASE PopHead(c) \/ PopTail(c) \/ PopAgain(c) \/ PopCheck(c) \/ PopRetry(c)
  BY <1>2 DEF PopHead, PopTail, PopAgain, PopCheck, PopRetry, TypeOK, PopPC
<1>3. CASE PopNext(c)
  <2>1. h[c].ptr \in Node
    BY <1>0, <1>3, PointsNode DEF PopNext, TypeOK, PopKnows, PopPC
  <2> QED BY <1>3, <2>1 DEF PopNext, TypeOK, PopPC
<1>4. CASE PopFail(c)
  BY <1>4, NowhereType DEF PopFail, Return, TypeOK
<1>5. CASE PopHelp(c)
  <2>1. Ptr(n[c].ptr, t[c].count + 1) \in Pointer
    BY NextPtrType, ClientTypes
  <2> QED BY <1>5, <2>1 DEF PopHelp, TypeOK, PopPC
<1>6. CASE PopCas(c)
  <2>1. Ptr(n[c].ptr, h[c].count + 1) \in Pointer /\ h[c].ptr \in Node \cup {Null}
    BY NextPtrType, ClientTypes
  <2>2. \A d \in Client : Popping(d) \in BOOLEAN
    BY DEF Popping
  <2> QED BY <1>6, <2>1, <2>2 DEF PopCas, TypeOK, ReleasePC
<1>7. CASE RelLoad(c) \/ RelRetry(c)
  BY <1>7 DEF RelLoad, RelRetry, TypeOK, ReleasePC
<1>8. CASE RelStore(c)
  <2>1. Ptr(f[c].ptr, f[c].count + 1) \in Pointer
    BY NextPtrType, ClientTypes
  <2> QED BY <1>8, <2>1 DEF RelStore, TypeOK, ReleasePC
<1>9. CASE RelCas(c)
  <2>1. node[c] \in Node /\ Ptr(node[c], f[c].count + 1) \in Pointer
    <3>1. ReleaseKnows(c) /\ Releasing(c)
      BY <1>9 DEF ClientInv, RelCas, Releasing, ReleasePC
    <3> QED BY <3>1, PtrType, PointerParts, PointsNode DEF ReleaseKnows, TypeOK
  <2> QED BY <1>9, <2>1, NowhereType DEF RelCas, Return, TypeOK
<1> QED BY <1>1, <1>2, <1>3, <1>4, <1>5, <1>6, <1>7, <1>8, <1>9 DEF Pop, ReleaseNode

-----------------------------------------------------------------------------
(* Steps that write nothing that is shared *)

Same(d) ==
  /\ pc'[d] = pc[d] /\ h'[d] = h[d] /\ t'[d] = t[d] /\ n'[d] = n[d]
  /\ f'[d] = f[d] /\ node'[d] = node[d] /\ empty'[d] = empty[d]

(* A node that c holds is one it held before. *)
HoldsNoMore(c) ==
  /\ node'[c] \in {node[c], Null}
  /\ Releasing(c)' <=> Releasing(c)
  /\ Releasing(c) => node'[c] = node[c]

LEMMA LocalStep ==
  ASSUME LfqInv, NEW c \in Client,
         UNCHANGED <<shared, list, pool>>, HoldsNoMore(c),
         \A d \in Client \ {c} : Same(d)
  PROVE  /\ ListInv' /\ PoolInv'
         /\ \A d \in Client \ {c} : PushKnows(d)' /\ PopKnows(d)' /\ ReleaseKnows(d)'
<1>1. \A d \in Client : Releasing(d)' = Releasing(d)
  BY DEF Same, HoldsNoMore, Releasing
<1>2. ListInv'
  BY DEF LfqInv, ListInv, PointsAt
<1>3. PoolInv'
  <2>1. \A d \in Client : Releasing(d) => node'[d] = node[d]
    BY DEF Same, HoldsNoMore
  <2> QED BY <1>1, <2>1 DEF LfqInv, PoolInv, PoolPtr, Pooled
<1>4. ASSUME NEW d \in Client \ {c}
      PROVE  PushKnows(d)' /\ PopKnows(d)' /\ ReleaseKnows(d)'
  <2>0. PushKnows(d) /\ PopKnows(d) /\ ReleaseKnows(d) /\ Same(d)
    BY DEF LfqInv, ClientInv
  <2>1. PushKnows(d)'
    <3>1. pc[d] \in PushPC => node[d] # Null
      BY <2>0, NodeAssumption DEF PushKnows
    <3> QED BY <2>0, <3>1 DEF PushKnows, Same, HoldsNoMore, PointsAt, Follows, Linked
  <2>2. PopKnows(d)'
    BY <2>0 DEF PopKnows, Same, PointsAt, Follows, Popping, Items
  <2>3. ReleaseKnows(d)'
    BY <2>0, <1>1 DEF ReleaseKnows, Same, PointsAt, Follows, PoolPtr, Pooled, HoldsNoMore
  <2> QED BY <2>1, <2>2, <2>3
<1> QED BY <1>2, <1>3, <1>4

(* It remains to see what the client itself knows. *)
LEMMA PushLocalStep ==
  ASSUME LfqInv, NEW c \in Client, UNCHANGED <<shared, h, f, node, history>>,
         pc[c] \in PushPC, pc'[c] \in PushPC,
         \A d \in Client \ {c} : pc'[d] = pc[d] /\ t'[d] = t[d] /\ n'[d] = n[d],
         PushKnows(c)'
  PROVE  ListInv' /\ PoolInv' /\ ClientInv'
<1>1. ~ Releasing(c) /\ ~ Releasing(c)' /\ ~ Popping(c) /\ ~ Popping(c)'
  BY DEF Releasing, Popping, PushPC, PopPC, ReleasePC
<1>2. HoldsNoMore(c) /\ \A d \in Client \ {c} : Same(d)
  BY <1>1 DEF HoldsNoMore, Same
<1>3. PopKnows(c) /\ ReleaseKnows(c)
  BY DEF LfqInv, ClientInv
<1>4. PopKnows(c)'
  BY <1>1, <1>3 DEF PopKnows, Popping, PopPC
<1>5. ReleaseKnows(c)'
  BY <1>1, <1>3 DEF ReleaseKnows, Releasing, ReleasePC
<1> QED BY <1>2, <1>4, <1>5, LocalStep DEF ClientInv

LEMMA PushLooks ==
  ASSUME LfqInv, NEW c \in Client,
         PushTail(c) \/ PushNext(c) \/ PushCheck(c) \/ PushRetry(c)
  PROVE  ListInv' /\ PoolInv' /\ ClientInv'
<1>0. PushKnows(c) /\ TypeOK /\ ListInv
  BY DEF LfqInv, ClientInv
<1>1. /\ UNCHANGED <<shared, h, f, node, history>>
      /\ \A d \in Client \ {c} : pc'[d] = pc[d] /\ t'[d] = t[d] /\ n'[d] = n[d]
      /\ pc[c] \in PushPC \ {"pushSwing"} /\ pc'[c] \in PushPC \ {"pushSwing"}
  BY <1>0 DEF PushTail, PushNext, PushCheck, PushRetry, TypeOK, PushPC
<1>2. /\ node'[c] \in Elem /\ ~ Linked(node[c])' /\ next'[node'[c]] = Nowhere
      /\ \A d \in Client : node'[d] = node'[c] => d = c
  BY <1>0, <1>1 DEF PushKnows, Linked
<1>3. CASE PushTail(c)
  <2>1. pc'[c] = "pushNext" /\ t'[c] = tail
    BY <1>0, <1>3 DEF PushTail, TypeOK
  <2>2. PushKnows(c)'
    BY <1>0, <1>1, <1>2, <2>1, ClientTypes DEF PushKnows, ListInv, PointsAt, PushPC
  <2> QED BY <1>1, <2>2, PushLocalStep
<1>4. CASE PushNext(c)
  <2>1. /\ pc[c] = "pushNext" /\ pc'[c] = "pushCheck" /\ n'[c] = next[t[c].ptr]
        /\ t'[c] = t[c] /\ PointsAt(t[c]) /\ t[c].count <= tail.count
    BY <1>0, <1>4 DEF PushNext, TypeOK, PushKnows, PushPC
  <2>2. tail = t[c] => n'[c] = Nowhere \/ Follows(n'[c].ptr, t[c])
    <3> SUFFICES ASSUME tail = t[c] PROVE n'[c] = Nowhere \/ Follows(n'[c].ptr, t[c])
      OBVIOUS
    <3> DEFINE i == t[c].count + 1
    <3>1. i \in DOMAIN list /\ i > head.count /\ t[c].ptr = list[i]
      BY <1>0, <2>1, PointsNode, ClientTypes DEF ListInv
    <3>2. CASE i = Len(list)
      BY <1>0, <2>1, <3>1, <3>2 DEF ListInv
    <3>3. CASE i # Len(list)
      <4>1. n'[c] = Ptr(list[i + 1], 1)
        BY <1>0, <2>1, <3>1, <3>3 DEF ListInv
      <4>2. n'[c].ptr = list[t[c].count + 2]
        BY <1>0, <4>1, PtrFields, ClientTypes
      <4> QED BY <1>0, <3>1, <3>3, <4>2, ClientTypes DEF Follows
    <3> QED BY <3>2, <3>3
  <2>3. PushKnows(c)'
    BY <1>1, <1>2, <2>1, <2>2 DEF PushKnows, PointsAt, Follows, PushPC
  <2> QED BY <1>1, <2>3, PushLocalStep
<1>5. CASE PushCheck(c)
  <2>1. /\ pc[c] = "pushCheck" /\ UNCHANGED <<t, n>>
        /\ \/ pc'[c] = "pushTail"
           \/ tail = t[c] /\ n[c].ptr = Null /\ pc'[c] = "pushLink"
           \/ tail = t[c] /\ n[c].ptr # Null /\ pc'[c] = "pushHelp"
    BY <1>0, <1>5 DEF PushCheck, TypeOK
  <2>2. ASSUME Follows(n[c].ptr, t[c])
        PROVE  n[c].ptr # Null
    BY <1>0, <2>2, FollowsNode, ClientTypes, NodeAssumption DEF Node
  <2>3. PushKnows(c)'
    BY <1>0, <1>1, <1>2, <2>1, <2>2, NowhereType DEF PushKnows, PointsAt, Follows, PushPC
  <2> QED BY <1>1, <2>3, PushLocalStep
<1>6. CASE PushRetry(c)
  <2>1. pc'[c] = "pushTail"
    BY <1>0, <1>6 DEF PushRetry, TypeOK
  <2>2. PushKnows(c)'
    BY <1>1, <1>2, <2>1 DEF PushKnows
  <2> QED BY <1>1, <2>2, PushLocalStep
<1> QED BY <1>3, <1>4, <1>5, <1>6

(* The same for a pop, up to its compare_exchange. *)
LEMMA PopLocalStep ==
  ASSUME LfqInv, NEW c \in Client, UNCHANGED <<shared, list, pool>>,
         pc[c] \in PopPC \cup {"idle"}, pc'[c] \in PopPC \cup {"idle"},
         node'[c] \in {node[c], Null},
         \A d \in Client \ {c} : Same(d),
         PopKnows(c)'
  PROVE  ListInv' /\ PoolInv' /\ ClientInv'
<1>1. ~ Releasing(c) /\ ~ Releasing(c)'
  BY DEF Releasing, PopPC, ReleasePC
<1>2. HoldsNoMore(c)
  BY <1>1 DEF HoldsNoMore
<1>3. PushKnows(c)'
  BY DEF PushKnows, PushPC, PopPC
<1>4. ReleaseKnows(c)'
  BY <1>1 DEF ReleaseKnows, Releasing, ReleasePC
<1> QED BY <1>2, <1>3, <1>4, LocalStep DEF ClientInv

LEMMA PopLooks ==
  ASSUME LfqInv, NEW c \in Client,
         \/ PopStart(c) \/ PopHead(c) \/ PopTail(c) \/ PopNext(c) \/ PopAgain(c)
         \/ PopFail(c) \/ PopCheck(c) \/ PopRetry(c)
  PROVE  ListInv' /\ PoolInv' /\ ClientInv'
<1>0. PopKnows(c) /\ TypeOK /\ ListInv
  BY DEF LfqInv, ClientInv
<1>1. /\ UNCHANGED <<shared, list, pool>> /\ node'[c] \in {node[c], Null}
      /\ \A d \in Client \ {c} : Same(d)
      /\ pc[c] \in PopPC \cup {"idle"} /\ pc'[c] \in PopPC \cup {"idle"}
  BY <1>0 DEF PopStart, PopHead, PopTail, PopNext, PopAgain, PopFail, PopCheck, PopRetry,
     Return, Same, TypeOK, PopPC
<1>2. Items' = Items /\ (Popping(c)' <=> pc'[c] \in PopPC) /\ (Popping(c) <=> pc[c] \in PopPC)
  BY <1>1 DEF Items, Popping
<1>3. CASE PopStart(c)
  <2>1. pc'[c] = "popHead" /\ (empty'[c] <=> Items = <<>>)
    BY <1>0, <1>3 DEF PopStart, TypeOK
  <2>2. PopKnows(c)'
    BY <1>1, <1>2, <2>1 DEF PopKnows, PopPC
  <2> QED BY <1>1, <2>2, PopLocalStep
<1>4. CASE PopHead(c)
  <2>1. pc[c] = "popHead" /\ pc'[c] = "popTail" /\ h'[c] = head /\ empty'[c] = empty[c]
    BY <1>0, <1>4 DEF PopHead, TypeOK
  <2>2. PopKnows(c)'
    BY <1>0, <1>1, <1>2, <2>1, ClientTypes DEF PopKnows, PopPC, ListInv, PointsAt
  <2> QED BY <1>1, <2>2, PopLocalStep
<1>5. CASE PopTail(c)
  <2>1. /\ pc[c] = "popTail" /\ pc'[c] = "popNext" /\ t'[c] = tail /\ h'[c] = h[c]
        /\ empty'[c] = empty[c]
    BY <1>0, <1>5 DEF PopTail, TypeOK
  <2>2. PopKnows(c)'
    BY <1>0, <1>1, <1>2, <2>1, ClientTypes DEF PopKnows, PopPC, ListInv, PointsAt
  <2> QED BY <1>1, <2>2, PopLocalStep
<1>6. CASE PopNext(c)
  <2>1. /\ pc[c] = "popNext" /\ pc'[c] = "popCheck" /\ n'[c] = next[h[c].ptr]
        /\ UNCHANGED <<h, t, empty>> /\ PointsAt(h[c]) /\ PointsAt(t[c])
        /\ h[c].count <= t[c].count /\ t[c].count <= tail.count
    BY <1>0, <1>6 DEF PopNext, TypeOK, PopKnows, PopPC
  <2>2. head = h[c] => \/ Follows(n'[c].ptr, h[c])
                       \/ n'[c] = Nowhere /\ t[c] = h[c] /\ empty[c]
    <3> SUFFICES ASSUME head = h[c]
                 PROVE  \/ Follows(n'[c].ptr, h[c])
                        \/ n'[c] = Nowhere /\ t[c] = h[c] /\ empty[c]
      OBVIOUS
    <3> DEFINE i == h[c].count + 1
    <3>1. i \in DOMAIN list /\ i > head.count /\ h[c].ptr = list[i]
      BY <1>0, <2>1, PointsNode, ClientTypes
    <3>2. CASE i = Len(list)
      <4>1. n'[c] = Nowhere
        BY <1>0, <2>1, <3>1, <3>2 DEF ListInv
      <4>2. t[c].count = h[c].count
        BY <1>0, <2>1, <3>2, ClientTypes DEF PointsAt
      <4>3. t[c] = h[c]
        BY <1>0, <2>1, <4>2, SameCount, ClientTypes
      <4>4. empty[c]
        BY <1>0, <1>2, <2>1, <3>2, ItemsLength DEF PopKnows, PopPC
      <4> QED BY <4>1, <4>3, <4>4
    <3>3. CASE i # Len(list)
      <4>1. n'[c] = Ptr(list[i + 1], 1)
        BY <1>0, <2>1, <3>1, <3>3 DEF ListInv
      <4>2. n'[c].ptr = list[h[c].count + 2]
        BY <1>0, <4>1, PtrFields, ClientTypes
      <4> QED BY <1>0, <3>1, <3>3, <4>2, ClientTypes DEF Follows
    <3> QED BY <3>2, <3>3
  <2>3. PopKnows(c)'
    BY <1>0, <1>1, <1>2, <2>1, <2>2 DEF PopKnows, PopPC, PointsAt, Follows
  <2> QED BY <1>1, <2>3, PopLocalStep
<1>7. CASE PopFail(c)
  <2>1. pc'[c] = "idle" /\ empty'[c] = FALSE
    BY <1>0, <1>7 DEF PopFail, Return, TypeOK
  <2>2. PopKnows(c)'
    BY <1>2, <2>1 DEF PopKnows, PopPC
  <2> QED BY <1>1, <2>2, PopLocalStep
<1>8. CASE PopCheck(c)
  <2>1. /\ pc[c] = "popCheck" /\ head = h[c] /\ UNCHANGED <<h, t, n, empty>>
        /\ \/ h[c] = t[c] /\ n[c].ptr # Null /\ pc'[c] = "popHelp"
           \/ h[c] # t[c] /\ pc'[c] = "popCas"
    BY <1>0, <1>8 DEF PopCheck, TypeOK
  <2>2. /\ PointsAt(h[c]) /\ PointsAt(t[c]) /\ h[c].count <= t[c].count
        /\ t[c].count <= tail.count /\ h[c].count <= head.count
        /\ Follows(n[c].ptr, h[c])
    BY <1>0, <2>1, NowhereType DEF PopKnows, PopPC
  <2>3. h[c] # t[c] => h[c].count < t[c].count
    BY <1>0, <2>2, SameCount, ClientTypes
  <2>4. PopKnows(c)'
    BY <1>0, <1>1, <1>2, <2>1, <2>2, <2>3 DEF PopKnows, PopPC, PointsAt, Follows
  <2> QED BY <1>1, <2>4, PopLocalStep
<1>9. CASE PopAgain(c) \/ PopRetry(c)
  <2>1. pc'[c] = "popHead" /\ UNCHANGED <<h, t, n, empty>> /\ pc[c] \in PopPC
    BY <1>0, <1>9 DEF PopAgain, PopRetry, TypeOK, PopPC
  <2>2. PopKnows(c)'
    BY <1>0, <1>1, <1>2, <2>1 DEF PopKnows, PopPC
  <2> QED BY <1>1, <2>2, PopLocalStep
<1> QED BY <1>3, <1>4, <1>5, <1>6, <1>7, <1>8, <1>9

LEMMA ReleaseLooks ==
  ASSUME LfqInv, NEW c \in Client, RelLoad(c) \/ RelRetry(c)
  PROVE  ListInv' /\ PoolInv' /\ ClientInv'
<1>0. /\ PushKnows(c) /\ PopKnows(c) /\ ReleaseKnows(c)
      /\ TypeOK /\ ListInv /\ PoolInv
  BY DEF LfqInv, ClientInv
<1>1. /\ UNCHANGED <<shared, list, pool, h, t, n, node, empty>>
      /\ \A d \in Client \ {c} : Same(d)
      /\ pc[c] \in ReleasePC /\ pc'[c] \in {"relLoad", "relStore"}
      /\ pc'[c] = "relStore" => f'[c] = free
  BY <1>0 DEF RelLoad, RelRetry, Same, TypeOK, ReleasePC
<1>2. Releasing(c) /\ Releasing(c)' /\ HoldsNoMore(c)
  BY <1>1 DEF Releasing, HoldsNoMore, ReleasePC
<1>3. \A d \in Client : Releasing(d)' <=> Releasing(d)
  BY <1>1, <1>2 DEF Same, Releasing
<1>4. PushKnows(c)'
  BY <1>1 DEF PushKnows, PushPC
<1>5. PopKnows(c)'
  BY <1>0, <1>1 DEF PopKnows, Popping, PopPC, ReleasePC
<1>6. f'[c] = free => f'[c].count <= Len(pool) /\ f'[c] = PoolPtr(f'[c].count)
  <2>1. free.count = Len(pool) /\ Len(pool) \in Nat
    BY <1>0, PtrFields DEF PoolInv, PoolPtr, TypeOK
  <2> QED BY <1>0, <2>1 DEF PoolInv
<1>7. ReleaseKnows(c)'
  BY <1>0, <1>1, <1>2, <1>3, <1>6 DEF ReleaseKnows, PointsAt, Follows, Pooled, PoolPtr
<1> QED BY <1>1, <1>2, <1>4, <1>5, <1>7, LocalStep DEF ClientInv

-----------------------------------------------------------------------------
(* Steps that write *)

(* A node that has been popped is in the list, behind the head. *)
LEMMA ReleasedNode ==
  ASSUME LfqInv, NEW c \in Client, Releasing(c)
  PROVE  /\ node[c] \in Node /\ h[c].count + 1 \in DOMAIN list
         /\ node[c] = list[h[c].count + 1] /\ h[c].count + 1 <= head.count
         /\ Linked(node[c])
<1>1. ReleaseKnows(c) /\ TypeOK
  BY DEF LfqInv, ClientInv
<1>2. /\ h[c].count < head.count /\ PointsAt(h[c]) /\ node[c] = h[c].ptr
      /\ h[c] \in Pointer
  BY <1>1, ClientTypes DEF ReleaseKnows
<1>3. /\ node[c] \in Node /\ h[c].count + 1 \in DOMAIN list
      /\ node[c] = list[h[c].count + 1]
  BY <1>1, <1>2, PointsNode
<1> QED BY <1>1, <1>2, <1>3, ClientTypes DEF Linked

LEMMA PooledNode ==
  ASSUME LfqInv, NEW i \in DOMAIN pool
  PROVE  \E k \in DOMAIN list : k <= head.count /\ pool[i] = list[k]
<1>1. PICK k \in 1 .. head.count : pool[i] = list[k]
  BY DEF LfqInv, PoolInv
<1>2. head.count < Len(list) /\ DOMAIN list = 1 .. Len(list) /\ head.count \in Nat
      /\ Len(list) \in Nat
  BY ItemsLength DEF LfqInv, TypeOK
<1> QED BY <1>1, <1>2

LEMMA RelStoreStep ==
  ASSUME LfqInv, NEW c \in Client, RelStore(c)
  PROVE  ListInv' /\ PoolInv' /\ ClientInv'
<1>0. /\ PushKnows(c) /\ PopKnows(c) /\ ReleaseKnows(c)
      /\ TypeOK /\ ListInv /\ PoolInv /\ Releasing(c)
  BY DEF LfqInv, ClientInv, RelStore, Releasing, ReleasePC
<1> DEFINE p == Ptr(f[c].ptr, f[c].count + 1)
<1>1. /\ UNCHANGED <<head, tail, free, h, t, n, f, node, history>>
      /\ pc[c] = "relStore" /\ pc'[c] = "relCas"
      /\ \A d \in Client \ {c} : pc'[d] = pc[d]
      /\ next' = [next EXCEPT ![node[c]] = p]
      /\ p.count > 0
  BY <1>0, PtrFields, ClientTypes DEF RelStore, TypeOK
<1>2. /\ node[c] \in Node /\ h[c].count + 1 \in DOMAIN list
      /\ node[c] = list[h[c].count + 1] /\ h[c].count + 1 <= head.count
  BY <1>0, ReleasedNode
<1>3. /\ next'[node[c]] = p
      /\ \A x \in Node \ {node[c]} : next'[x] = next[x]
  BY <1>0, <1>1, <1>2 DEF TypeOK
<1> HIDE DEF p
<1>4. ListInv'
  <2>1. ASSUME NEW i \in DOMAIN list
        PROVE  /\ list[i] \in Node
               /\ i <= head.count => next'[list[i]].count > 0
               /\ i > head.count => next'[list[i]] = next[list[i]]
    BY <1>0, <1>1, <1>2, <1>3, ItemsLength DEF ListInv, TypeOK
  <2> QED BY <1>0, <1>1, <2>1 DEF ListInv, PointsAt
<1>5. \A d \in Client : Releasing(d)' <=> Releasing(d)
  BY <1>1 DEF Releasing, ReleasePC
<1>6. PoolInv'
  <2>1. \A i \in DOMAIN pool : pool[i] \in Node \ {node[c]}
    BY <1>0 DEF ReleaseKnows, Pooled, TypeOK
  <2> QED BY <1>0, <1>1, <1>3, <1>5, <2>1 DEF PoolInv, PoolPtr, Pooled
<1>7. ASSUME NEW d \in Client \ {c}
      PROVE  PushKnows(d)' /\ PopKnows(d)' /\ ReleaseKnows(d)'
  <2>0. PushKnows(d) /\ PopKnows(d) /\ ReleaseKnows(d)
    BY DEF LfqInv, ClientInv
  <2>1. PushKnows(d)'
    <3>1. pc[d] \in PushPC \ {"pushSwing"} => node[d] \in Node \ {node[c]}
      BY <1>0, <2>0, ReleasedNode DEF PushKnows, Node
    <3> QED BY <1>1, <1>3, <2>0, <3>1 DEF PushKnows, PointsAt, Follows, Linked
  <2>2. PopKnows(d)'
    BY <1>1, <2>0 DEF PopKnows, PointsAt, Follows, Popping, Items
  <2>3. ReleaseKnows(d)'
    <3>1. Releasing(d) => node[d] \in Node \ {node[c]}
      BY <1>0, <2>0, ReleasedNode DEF ReleaseKnows
    <3>2. pc[d] = "relCas" => next'[node[d]] = Ptr(f[d].ptr, f[d].count + 1)
      BY <1>3, <2>0, <3>1 DEF ReleaseKnows, Releasing, ReleasePC
    <3> QED BY <1>1, <1>5, <2>0, <3>2 DEF ReleaseKnows, PointsAt, Follows, Pooled, PoolPtr
  <2> QED BY <2>1, <2>2, <2>3
<1>8. PushKnows(c)' /\ PopKnows(c)'
  BY <1>0, <1>1 DEF PushKnows, PushPC, PopKnows, PopPC, Popping
<1>9. ReleaseKnows(c)'
  BY <1>0, <1>1, <1>3, <1>5 DEF ReleaseKnows, PointsAt, Follows, Pooled, PoolPtr, p
<1> QED BY <1>4, <1>6, <1>7, <1>8, <1>9 DEF ClientInv

LEMMA RelCasStep ==
  ASSUME LfqInv, NEW c \in Client, RelCas(c)
  PROVE  ListInv' /\ PoolInv' /\ ClientInv'
<1>0. /\ PushKnows(c) /\ PopKnows(c) /\ ReleaseKnows(c)
      /\ TypeOK /\ ListInv /\ PoolInv /\ Releasing(c)
  BY DEF LfqInv, ClientInv, RelCas, Releasing, ReleasePC
<1>1. /\ UNCHANGED <<head, tail, next, list, empty>>
      /\ pc[c] = "relCas" /\ pc'[c] = "idle" /\ node'[c] = Null
      /\ \A d \in Client \ {c} : Same(d)
      /\ free = f[c] /\ free' = Ptr(node[c], f[c].count + 1)
      /\ pool' = Append(pool, node[c])
  BY <1>0 DEF RelCas, Return, TypeOK, Same
<1>2. /\ node[c] \in Node /\ h[c].count + 1 \in 1 .. head.count
      /\ node[c] = list[h[c].count + 1]
  BY <1>0, ReleasedNode, ClientTypes
<1>3. /\ Len(pool) \in Nat /\ Len(pool') = Len(pool) + 1
      /\ DOMAIN pool = 1 .. Len(pool) /\ DOMAIN pool' = 1 .. Len(pool) + 1
      /\ \A i \in 1 .. Len(pool) : pool'[i] = pool[i]
      /\ pool'[Len(pool) + 1] = node[c]
  BY <1>0, <1>1, <1>2 DEF TypeOK
<1>4. /\ f[c].count = Len(pool)
      /\ next[node[c]] = Ptr(PoolPtr(Len(pool)).ptr, Len(pool) + 1)
  BY <1>0, <1>1, PtrFields DEF PoolInv, PoolPtr, ReleaseKnows
<1>5. \A k \in 0 .. Len(pool) : PoolPtr(k)' = PoolPtr(k)
  BY <1>3 DEF PoolPtr
<1>6. \A x : (\E i \in DOMAIN pool' : pool'[i] = x) <=> Pooled(x) \/ x = node[c]
  BY <1>3 DEF Pooled
<1>7. \A d \in Client : Releasing(d)' <=> Releasing(d) /\ d # c
  BY <1>1 DEF Releasing, ReleasePC, Same
<1>8. ListInv'
  BY <1>0, <1>1 DEF ListInv, PointsAt
<1>9. PoolInv'
  <2>1. free' = PoolPtr(Len(pool))'
    <3>1. PoolPtr(Len(pool))' = Ptr(node[c], Len(pool) + 1)
      BY <1>3 DEF PoolPtr
    <3> QED BY <1>1, <1>4, <3>1
  <2>2. ASSUME NEW i \in DOMAIN pool'
        PROVE  /\ next'[pool'[i]] = Ptr(PoolPtr(i - 1)'.ptr, i)
               /\ \E k \in 1 .. head'.count : pool'[i] = list'[k]
    <3>1. CASE i \in DOMAIN pool
      BY <1>0, <1>1, <1>3, <1>5, <3>1 DEF PoolInv
    <3>2. CASE i = Len(pool) + 1
      BY <1>1, <1>2, <1>3, <1>4, <1>5, <3>2
    <3> QED BY <1>3, <3>1, <3>2
  <2>3. \A i, j \in DOMAIN pool' : pool'[i] = pool'[j] => i = j
    BY <1>0, <1>3 DEF PoolInv, ReleaseKnows, Pooled
  <2>4. ASSUME NEW k \in 1 .. head.count
        PROVE  \/ Pooled(list[k])'
               \/ \E d \in Client : Releasing(d)' /\ node'[d] = list'[k]
    <3>1. CASE Pooled(list[k])
      BY <1>1, <1>6, <3>1 DEF Pooled
    <3>2. CASE \E d \in Client : Releasing(d) /\ node[d] = list[k]
      BY <1>1, <1>6, <1>7, <3>2 DEF Same, Pooled
    <3> QED BY <1>0, <3>1, <3>2 DEF PoolInv
  <2> QED BY <1>1, <2>1, <2>2, <2>3, <2>4 DEF PoolInv
<1>10. ASSUME NEW d \in Client \ {c}
      PROVE  PushKnows(d)' /\ PopKnows(d)' /\ ReleaseKnows(d)'
  <2>0. PushKnows(d) /\ PopKnows(d) /\ ReleaseKnows(d) /\ Same(d)
    BY <1>1 DEF LfqInv, ClientInv
  <2>1. PushKnows(d)'
    <3>1. pc[d] \in PushPC => node[d] # Null
      BY <2>0, NodeAssumption DEF PushKnows
    <3> QED BY <1>1, <2>0, <3>1 DEF PushKnows, PointsAt, Follows, Linked, Same
  <2>2. PopKnows(d)'
    BY <1>1, <2>0 DEF PopKnows, PointsAt, Follows, Popping, Items, Same
  <2>3. ReleaseKnows(d)'
    <3>1. Releasing(d) => ~ Pooled(node[d])'
      BY <1>0, <1>6, <1>7, <2>0 DEF ReleaseKnows, Pooled, Same
    <3>2. Releasing(d) =>
            \A e \in Client : Releasing(e)' /\ node'[e] = node[d] => e = d
      BY <1>1, <1>7, <2>0 DEF ReleaseKnows, Same
    <3>3. pc[d] \in {"relStore", "relCas"} =>
            f[d].count <= Len(pool') /\ f'[d] = PoolPtr(f[d].count)'
      <4>1. /\ f[d].count \in Nat /\ f'[d] = f[d]
        BY <1>0, <2>0, ClientTypes DEF Same
      <4>2. ASSUME pc[d] \in {"relStore", "relCas"}
            PROVE  f[d].count \in 0 .. Len(pool) /\ f[d] = PoolPtr(f[d].count)
        BY <1>3, <2>0, <4>1, <4>2 DEF ReleaseKnows
      <4> QED BY <1>3, <4>1, <4>2 DEF PoolPtr
    <3> QED BY <1>1, <1>7, <2>0, <3>1, <3>2, <3>3 DEF ReleaseKnows, PointsAt, Follows, Same
  <2> QED BY <2>1, <2>2, <2>3
<1>11. PushKnows(c)' /\ ReleaseKnows(c)'
  BY <1>1, <1>7 DEF PushKnows, PushPC, ReleaseKnows
<1>12. PopKnows(c)'
  BY <1>0, <1>1 DEF PopKnows, PopPC, Popping
<1> QED BY <1>8, <1>9, <1>10, <1>11, <1>12 DEF ClientInv

(* Two positions of the list hold different nodes. *)
LEMMA Distinct ==
  ASSUME LfqInv, NEW i \in DOMAIN list, NEW j \in DOMAIN list, i # j
  PROVE  list[i] # list[j]
BY DEF LfqInv, ListInv

LEMMA PushStartStep ==
  ASSUME LfqInv, NEW c \in Client, NEW e \in Elem, PushStart(c, e)
  PROVE  ListInv' /\ PoolInv' /\ ClientInv'
<1>0. PopKnows(c) /\ ReleaseKnows(c) /\ TypeOK /\ ListInv /\ PoolInv
  BY DEF LfqInv, ClientInv
<1>1. /\ UNCHANGED <<head, tail, free, h, t, n, f, history>>
      /\ pc[c] = "idle" /\ pc'[c] = "pushTail" /\ node'[c] = e
      /\ \A d \in Client \ {c} : pc'[d] = pc[d] /\ node'[d] = node[d]
      /\ ~ Linked(e) /\ \A d \in Client : node[d] # e
      /\ next'[e] = Nowhere /\ \A x \in Node \ {e} : next'[x] = next[x]
  BY <1>0 DEF PushStart, TypeOK, Node
<1>2. /\ \A i \in DOMAIN list : list[i] \in Node \ {e}
      /\ \A i \in DOMAIN pool : pool[i] \in Node \ {e}
  BY <1>0, <1>1, PooledNode DEF Linked, TypeOK
<1>3. \A d \in Client : Releasing(d)' <=> Releasing(d)
  BY <1>1 DEF Releasing, ReleasePC
<1>4. \A d \in Client : Releasing(d) => d # c /\ node[d] \in Node \ {e}
  BY <1>1, ReleasedNode DEF Releasing, ReleasePC
<1>5. ListInv'
  <2>1. \A i \in DOMAIN list : next'[list[i]] = next[list[i]]
    BY <1>1, <1>2
  <2> QED BY <1>0, <1>1, <2>1 DEF ListInv, PointsAt
<1>6. PoolInv'
  BY <1>0, <1>1, <1>2, <1>3, <1>4 DEF PoolInv, PoolPtr, Pooled
<1>7. ASSUME NEW d \in Client \ {c}
      PROVE  PushKnows(d)' /\ PopKnows(d)' /\ ReleaseKnows(d)'
  <2>0. PushKnows(d) /\ PopKnows(d) /\ ReleaseKnows(d)
    BY DEF LfqInv, ClientInv
  <2>1. PushKnows(d)'
    <3>1. pc[d] \in PushPC => node[d] \in Node \ {e}
      BY <1>1, <2>0 DEF PushKnows, Node
    <3> QED BY <1>1, <2>0, <3>1 DEF PushKnows, PointsAt, Follows, Linked
  <2>2. PopKnows(d)'
    BY <1>1, <2>0 DEF PopKnows, PointsAt, Follows, Popping, Items
  <2>3. ReleaseKnows(d)'
    <3>1. pc[d] = "relCas" => next'[node[d]] = Ptr(f[d].ptr, f[d].count + 1)
      BY <1>1, <1>4, <2>0 DEF ReleaseKnows, Releasing, ReleasePC
    <3> QED BY <1>1, <1>3, <1>4, <2>0, <3>1
         DEF ReleaseKnows, PointsAt, Follows, Pooled, PoolPtr
  <2> QED BY <2>1, <2>2, <2>3
<1>8. PushKnows(c)'
  BY <1>1 DEF PushKnows, Linked
<1>9. PopKnows(c)' /\ ReleaseKnows(c)'
  BY <1>0, <1>1 DEF PopKnows, PopPC, Popping, ReleaseKnows, Releasing, ReleasePC
<1> QED BY <1>5, <1>6, <1>7, <1>8, <1>9 DEF ClientInv

(* The tail moves to the node that follows, or stays. *)
LEMMA TailStep ==
  ASSUME LfqInv, TypeOK', NEW c \in Client,
         UNCHANGED <<head, free, next, list, pool>>,
         \/ tail' = tail
         \/ tail'.count = tail.count + 1 /\ Follows(tail'.ptr, tail),
         HoldsNoMore(c), \A d \in Client \ {c} : Same(d),
         PushKnows(c)', PopKnows(c)', ReleaseKnows(c)'
  PROVE  ListInv' /\ PoolInv' /\ ClientInv'
<1>0. TypeOK /\ ListInv /\ PoolInv
  BY DEF LfqInv
<1>1. /\ tail.count \in Nat /\ tail'.count \in Nat /\ head.count \in Nat
      /\ tail' = tail \/ tail'.count = tail.count + 1
  BY <1>0, PointerParts DEF TypeOK
<1>2. ListInv'
  <2>1. PointsAt(tail)'
    BY <1>0, <1>1 DEF ListInv, PointsAt, Follows
  <2> QED BY <1>0, <1>1, <2>1 DEF ListInv, PointsAt
<1>3. \A d \in Client : Releasing(d)' = Releasing(d)
  BY DEF Same, HoldsNoMore, Releasing
<1>4. PoolInv'
  <2>1. \A d \in Client : Releasing(d) => node'[d] = node[d]
    BY DEF Same, HoldsNoMore
  <2> QED BY <1>0, <1>3, <2>1 DEF PoolInv, PoolPtr, Pooled
<1>5. ASSUME NEW d \in Client \ {c}
      PROVE  PushKnows(d)' /\ PopKnows(d)' /\ ReleaseKnows(d)'
  <2>0. PushKnows(d) /\ PopKnows(d) /\ ReleaseKnows(d) /\ Same(d) /\ t[d].count \in Nat
    BY <1>0, ClientTypes DEF LfqInv, ClientInv
  <2>1. PushKnows(d)'
    <3>1. pc[d] \in PushPC => node[d] # Null
      BY <2>0, NodeAssumption DEF PushKnows
    <3>2. t[d].count <= tail.count => t[d].count <= tail'.count
      BY <1>1, <2>0
    <3>3. t[d].count <= tail.count /\ tail' = t[d] => tail = t[d]
      BY <1>1, <2>0
    <3> QED BY <2>0, <3>1, <3>2, <3>3
         DEF PushKnows, Same, HoldsNoMore, PointsAt, Follows, Linked, PushPC
  <2>2. PopKnows(d)'
    <3>1. t[d].count <= tail.count => t[d].count <= tail'.count
      BY <1>1, <2>0
    <3>2. (Popping(d)' <=> Popping(d)) /\ Items' = Items
      BY <2>0 DEF Same, Popping, Items
    <3> QED BY <2>0, <3>1, <3>2 DEF PopKnows, Same, PointsAt, Follows
  <2>3. ReleaseKnows(d)'
    BY <2>0, <1>3 DEF ReleaseKnows, Same, PointsAt, Follows, PoolPtr, Pooled, HoldsNoMore
  <2> QED BY <2>1, <2>2, <2>3
<1> QED BY <1>2, <1>4, <1>5 DEF ClientInv

LEMMA TailMoves ==
  ASSUME LfqInv, TypeOK', NEW c \in Client, PushHelp(c) \/ PushSwing(c) \/ PopHelp(c)
  PROVE  ListInv' /\ PoolInv' /\ ClientInv'
<1>0. /\ PushKnows(c) /\ PopKnows(c) /\ ReleaseKnows(c) /\ TypeOK
      /\ t[c].count \in Nat
  BY ClientTypes DEF LfqInv, ClientInv
<1>1. /\ UNCHANGED <<head, free, next, list, pool, empty>>
      /\ \A d \in Client \ {c} : Same(d)
  BY <1>0 DEF PushHelp, PushSwing, PopHelp, Return, Same, TypeOK
<1>2. CASE PushHelp(c)
  <2>1. /\ pc[c] = "pushHelp" /\ pc'[c] = "pushTail" /\ UNCHANGED <<h, t, n, f, node>>
        /\ tail = t[c] /\ tail'.ptr = n[c].ptr /\ tail'.count = t[c].count + 1
    BY <1>0, <1>2, PtrFields DEF PushHelp, TypeOK
  <2>2. Follows(n[c].ptr, t[c])
    BY <1>0, <2>1 DEF PushKnows
  <2>3. HoldsNoMore(c)
    BY <2>1 DEF HoldsNoMore, Releasing, ReleasePC
  <2>4. PushKnows(c)'
    BY <1>0, <1>1, <2>1 DEF PushKnows, PushPC, Linked
  <2>5. PopKnows(c)' /\ ReleaseKnows(c)'
    BY <1>0, <1>1, <2>1 DEF PopKnows, PopPC, Popping, ReleaseKnows, Releasing, ReleasePC
  <2> QED BY <1>1, <2>1, <2>2, <2>3, <2>4, <2>5, TailStep
<1>3. CASE PushSwing(c)
  <2>1. /\ pc[c] = "pushSwing" /\ pc'[c] = "idle" /\ node'[c] = Null
        /\ \/ tail' = tail
           \/ tail = t[c] /\ tail'.ptr = node[c] /\ tail'.count = t[c].count + 1
    BY <1>0, <1>3, PtrFields DEF PushSwing, Return, TypeOK
  <2>2. Follows(node[c], t[c])
    BY <1>0, <2>1 DEF PushKnows
  <2>3. HoldsNoMore(c)
    BY <2>1 DEF HoldsNoMore, Releasing, ReleasePC
  <2>4. PushKnows(c)' /\ PopKnows(c)' /\ ReleaseKnows(c)'
    BY <1>0, <1>1, <2>1
       DEF PushKnows, PushPC, PopKnows, PopPC, Popping, ReleaseKnows, Releasing, ReleasePC
  <2> QED BY <1>1, <2>1, <2>2, <2>3, <2>4, TailStep
<1>4. CASE PopHelp(c)
  <2>1. /\ pc[c] = "popHelp" /\ pc'[c] = "popHead" /\ UNCHANGED <<h, t, n, f, node>>
        /\ tail = t[c] /\ tail'.ptr = n[c].ptr /\ tail'.count = t[c].count + 1
    BY <1>0, <1>4, PtrFields DEF PopHelp, TypeOK
  <2>2. Follows(n[c].ptr, t[c])
    BY <1>0, <2>1 DEF PopKnows
  <2>3. HoldsNoMore(c)
    BY <2>1 DEF HoldsNoMore, Releasing, ReleasePC
  <2>4. PopKnows(c)'
    BY <1>0, <1>1, <2>1 DEF PopKnows, PopPC, Popping, Items
  <2>5. PushKnows(c)' /\ ReleaseKnows(c)'
    BY <1>0, <1>1, <2>1 DEF PushKnows, PushPC, ReleaseKnows, Releasing, ReleasePC
  <2> QED BY <1>1, <2>1, <2>2, <2>3, <2>4, <2>5, TailStep
<1> QED BY <1>2, <1>3, <1>4

(* A push that finds a null next links its node at the end of the list. *)
LEMMA PushLinkStep ==
  ASSUME LfqInv, NEW c \in Client, PushLink(c)
  PROVE  ListInv' /\ PoolInv' /\ ClientInv'
<1>0. /\ PushKnows(c) /\ PopKnows(c) /\ ReleaseKnows(c)
      /\ TypeOK /\ ListInv /\ PoolInv
  BY DEF LfqInv, ClientInv
<1> DEFINE e == node[c]
           l == Len(list)
           x == list[l]
<1>1. /\ UNCHANGED <<head, tail, free, h, t, n, f, node, pool, empty>>
      /\ pc[c] = "pushLink" /\ pc'[c] = "pushSwing" /\ n[c] = Nowhere
      /\ next[t[c].ptr] = n[c] /\ list' = Append(list, e) /\ e \in Elem
      /\ PointsAt(t[c]) /\ t[c].count <= tail.count /\ ~ Linked(e)
      /\ next[e] = Nowhere /\ \A d \in Client : node[d] = e => d = c
      /\ \A d \in Client \ {c} : pc'[d] = pc[d]
      /\ next' = [next EXCEPT ![t[c].ptr] = Ptr(e, n[c].count + 1)]
  BY <1>0 DEF PushLink, TypeOK, PushKnows, PushPC
<1>2. /\ t[c].count + 1 = l /\ t[c].ptr = x /\ x \in Node /\ l \in DOMAIN list
      /\ head.count < l /\ head.count \in Nat /\ l \in Nat /\ DOMAIN list = 1 .. l
      /\ t[c].count \in Nat
  BY <1>0, <1>1, LastNode, PointsNode, ClientTypes, ItemsLength
<1>3. /\ Len(list') = l + 1 /\ DOMAIN list' = 1 .. l + 1
      /\ \A i \in DOMAIN list : list'[i] = list[i]
      /\ list'[l + 1] = e /\ e \in Node
  BY <1>0, <1>1, Growing DEF Node
<1>4. /\ next'[x] = Ptr(e, 1) /\ \A y \in Node \ {x} : next'[y] = next[y]
  BY <1>0, <1>1, <1>2, NowhereType DEF TypeOK
<1>5. /\ \A i \in DOMAIN list : list[i] # e /\ list[i] \in Node
      /\ \A i \in DOMAIN list : i # l => list[i] # x
      /\ e # x
  <2>1. \A i \in DOMAIN list : list[i] # e /\ list[i] \in Node
    BY <1>0, <1>1 DEF Linked, TypeOK
  <2>2. \A i \in DOMAIN list : i # l => list[i] # x
    BY <1>2, Distinct
  <2> QED BY <1>2, <2>1, <2>2
<1> HIDE DEF e, x
<1>6. \A p \in Pointer : (PointsAt(p) => PointsAt(p)')
  <2> SUFFICES ASSUME NEW p \in Pointer, PointsAt(p) PROVE PointsAt(p)'
    BY DEF PointsAt
  <2>1. p.count + 1 \in DOMAIN list /\ p.count \in Nat /\ p.ptr = list[p.count + 1]
    BY <1>0, PointsNode, PointerParts
  <2>2. list'[p.count + 1] = list[p.count + 1] /\ p.count < Len(list')
    BY <1>2, <1>3, <2>1
  <2> QED BY <2>1, <2>2 DEF PointsAt
<1>7. \A y, p : p \in Pointer /\ Follows(y, p) => p.count + 1 < l + 1 /\ y = list'[p.count + 2]
  <2> SUFFICES ASSUME NEW y, NEW p \in Pointer, Follows(y, p)
               PROVE  p.count + 1 < l + 1 /\ y = list'[p.count + 2]
    OBVIOUS
  <2>1. p.count + 2 \in DOMAIN list /\ y = list[p.count + 2] /\ p.count \in Nat
    BY <1>0, FollowsNode, PointerParts
  <2> QED BY <1>2, <1>3, <2>1
<1>8. ListInv'
  <2>1. PointsAt(head)' /\ PointsAt(tail)' /\ head'.count <= tail'.count
    BY <1>0, <1>1, <1>6 DEF ListInv, TypeOK, PointsAt
  <2>2. \A i, j \in DOMAIN list' : list'[i] = list'[j] => i = j
    BY <1>0, <1>2, <1>3, <1>5 DEF ListInv
  <2>3. ASSUME NEW i \in DOMAIN list'
        PROVE  /\ i <= head.count => next'[list'[i]].count > 0
               /\ i > head.count =>
                    next'[list'[i]] =
                      IF i = Len(list') THEN Nowhere ELSE Ptr(list'[i + 1], 1)
    <3>1. CASE i < l
      <4>1. /\ i \in DOMAIN list /\ i + 1 \in DOMAIN list /\ i # Len(list')
            /\ next'[list'[i]] = next[list[i]] /\ list'[i + 1] = list[i + 1]
        BY <1>2, <1>3, <1>4, <1>5, <3>1
      <4> QED BY <1>0, <3>1, <4>1 DEF ListInv
    <3>2. CASE i = l
      <4>0. list'[l] = list[l] /\ l \in Nat /\ ~ (l <= head.count)
        BY <1>2, <1>3
      <4>1. /\ ~ (i <= head.count) /\ i # Len(list')
            /\ list'[i] = x /\ list'[i + 1] = e
        BY <1>3, <3>2, <4>0 DEF x
      <4> QED BY <1>4, <4>1
    <3>3. CASE i = l + 1
      <4>1. next'[list'[i]] = Nowhere
        BY <1>1, <1>3, <1>4, <1>5, <3>3 DEF e
      <4> QED BY <1>2, <1>3, <3>3, <4>1
    <3> QED BY <1>2, <1>3, <3>1, <3>2, <3>3
  <2> QED BY <1>1, <2>1, <2>2, <2>3 DEF ListInv
<1>9. \A d \in Client : Releasing(d)' <=> Releasing(d)
  BY <1>1 DEF Releasing, ReleasePC
<1>10. ASSUME NEW k \in DOMAIN list, k <= head.count
       PROVE  list[k] \in Node \ {x} /\ list'[k] = list[k]
  BY <1>2, <1>3, <1>5, <1>10
<1>11. PoolInv'
  <2>1. \A i \in DOMAIN pool : next'[pool[i]] = next[pool[i]]
    BY <1>4, <1>10, PooledNode
  <2>2. \A k \in 1 .. head.count : list'[k] = list[k]
    BY <1>2, <1>10
  <2>3. \A k \in Nat : PoolPtr(k)' = PoolPtr(k)
    BY <1>1 DEF PoolPtr
  <2>4. free' = PoolPtr(Len(pool))'
    BY <1>0, <1>1, <2>3 DEF PoolInv, TypeOK
  <2>5. ASSUME NEW i \in DOMAIN pool
        PROVE  /\ next'[pool[i]] = Ptr(PoolPtr(i - 1)'.ptr, i)
               /\ \E k \in 1 .. head.count : pool[i] = list'[k]
    <3>1. i - 1 \in Nat
      BY <1>0 DEF TypeOK
    <3> QED BY <1>0, <2>1, <2>2, <2>3, <3>1 DEF PoolInv
  <2>6. ASSUME NEW k \in 1 .. head.count
        PROVE  \/ \E i \in DOMAIN pool : pool[i] = list'[k]
               \/ \E d \in Client : Releasing(d)' /\ node[d] = list'[k]
    BY <1>0, <1>9, <2>2 DEF PoolInv, Pooled
  <2>7. \A i, j \in DOMAIN pool : pool[i] = pool[j] => i = j
    BY <1>0 DEF PoolInv
  <2> QED BY <1>1, <2>4, <2>5, <2>6, <2>7 DEF PoolInv, Pooled
<1>12. ASSUME NEW d \in Client \ {c}
       PROVE  PushKnows(d)' /\ PopKnows(d)' /\ ReleaseKnows(d)'
  <2>0. /\ PushKnows(d) /\ PopKnows(d) /\ ReleaseKnows(d)
        /\ t[d] \in Pointer /\ h[d] \in Pointer
    BY <1>0, ClientTypes DEF LfqInv, ClientInv
  <2>1. /\ PointsAt(t[d]) => PointsAt(t[d])'
        /\ PointsAt(h[d]) => PointsAt(h[d])'
        /\ \A y : Follows(y, t[d]) => t[d].count + 1 < Len(list') /\ y = list'[t[d].count + 2]
        /\ \A y : Follows(y, h[d]) => h[d].count + 1 < Len(list') /\ y = list'[h[d].count + 2]
    BY <1>1, <1>3, <1>6, <1>7, <2>0 DEF PointsAt
  <2>2. PushKnows(d)'
    <3>1. pc[d] \in PushPC \ {"pushSwing"} =>
            ~ (\E i \in DOMAIN list' : list'[i] = node[d]) /\ next'[node[d]] = Nowhere
      <4> SUFFICES ASSUME pc[d] \in PushPC \ {"pushSwing"}
                   PROVE  ~ (\E i \in DOMAIN list' : list'[i] = node[d])
                          /\ next'[node[d]] = Nowhere
        OBVIOUS
      <4>1. /\ ~ Linked(node[d]) /\ node[d] \in Node /\ next[node[d]] = Nowhere
            /\ node[d] # e
        BY <1>1, <2>0 DEF PushKnows, Node, e
      <4>2. node[d] # x
        BY <1>2, <4>1 DEF Linked, x
      <4> QED BY <1>2, <1>3, <1>4, <4>1, <4>2 DEF Linked
    <3> QED BY <1>1, <2>0, <2>1, <3>1 DEF PushKnows, PointsAt, Follows, Linked, PushPC
  <2>3. PopKnows(d)'
    <3>1. ~ (Items' = <<>>)
      <4>1. list' \in Seq(Node) /\ head.count \in Nat /\ head.count < Len(list')
        BY <1>0, <1>1, <1>2, <1>3, Growing
      <4>2. Items' = SubSeq(list', head.count + 2, Len(list'))
        BY <1>1 DEF Items
      <4>3. Items' = <<>> <=> Len(list') = head.count + 1
        BY <4>1, <4>2, RestEmpty
      <4>4. Len(list') # head.count + 1
        BY <1>2, <1>3
      <4> QED BY <4>3, <4>4
    <3>2. Popping(d)' <=> Popping(d)
      BY <1>1 DEF Popping
    <3> QED BY <1>1, <2>0, <2>1, <3>1, <3>2 DEF PopKnows, PointsAt, Follows, PopPC
  <2>4. ReleaseKnows(d)'
    <3>1. Releasing(d) => node[d] \in Node \ {x}
      BY <1>10, ReleasedNode
    <3>2. pc[d] = "relCas" => next'[node[d]] = Ptr(f[d].ptr, f[d].count + 1)
      BY <1>4, <2>0, <3>1 DEF ReleaseKnows, Releasing, ReleasePC
    <3> QED BY <1>1, <1>9, <2>0, <2>1, <3>2
         DEF ReleaseKnows, PointsAt, Follows, Pooled, PoolPtr
  <2> QED BY <2>2, <2>3, <2>4
<1>13. PushKnows(c)'
  <2>1. Follows(node[c], t[c])'
    BY <1>1, <1>2, <1>3 DEF Follows, e
  <2>2. PointsAt(t[c])'
    BY <1>0, <1>1, <1>6, ClientTypes DEF PointsAt
  <2> QED BY <1>1, <2>1, <2>2 DEF PushKnows, e
<1>14. PopKnows(c)' /\ ReleaseKnows(c)'
  BY <1>0, <1>1 DEF PopKnows, PopPC, Popping, ReleaseKnows, Releasing, ReleasePC
<1> QED BY <1>8, <1>11, <1>12, <1>13, <1>14 DEF ClientInv

(* A pop whose head is still the head takes the node after it. *)
LEMMA PopCasStep ==
  ASSUME LfqInv, NEW c \in Client, PopCas(c)
  PROVE  ListInv' /\ PoolInv' /\ ClientInv'
<1>0. /\ PushKnows(c) /\ PopKnows(c) /\ ReleaseKnows(c)
      /\ TypeOK /\ ListInv /\ PoolInv
  BY DEF LfqInv, ClientInv
<1> DEFINE k == head.count + 1
           x == list[k]
<1>1. /\ UNCHANGED <<tail, free, next, h, t, n, f, list, pool>>
      /\ pc[c] = "popCas" /\ pc'[c] = "relLoad" /\ head = h[c]
      /\ node'[c] = h[c].ptr
      /\ \A d \in Client \ {c} : pc'[d] = pc[d] /\ node'[d] = node[d]
      /\ \A d \in Client : empty'[d] <=> d # c /\ (empty[d] \/ (Popping(d) /\ Len(Items) <= 1))
      /\ head'.ptr = n[c].ptr /\ head'.count = k
  BY <1>0, PtrFields DEF PopCas, TypeOK
<1>2. PointsAt(h[c]) /\ h[c].count < t[c].count /\ t[c].count <= tail.count
      /\ Follows(n[c].ptr, h[c])
  BY <1>0, <1>1 DEF PopKnows, PopPC
<1>3. /\ head.count \in Nat /\ t[c].count \in Nat /\ tail.count \in Nat
      /\ DOMAIN list = 1 .. Len(list) /\ Len(list) \in Nat /\ k < Len(list)
      /\ k \in DOMAIN list /\ h[c].ptr = x /\ n[c].ptr = list[k + 1] /\ k <= tail.count
  <2>1. /\ head.count \in Nat /\ t[c].count \in Nat /\ tail.count \in Nat
        /\ list \in Seq(Node)
    BY <1>0, ClientTypes
  <2>2. /\ head.count + 1 < Len(list) /\ n[c].ptr = list[head.count + 2]
        /\ h[c].ptr = list[head.count + 1] /\ head.count < t[c].count
    BY <1>1, <1>2 DEF PointsAt, Follows
  <2>3. (head.count + 1) + 1 = head.count + 2
    BY <2>1
  <2> QED BY <1>2, <2>1, <2>2, <2>3
<1>4. ListInv'
  <2>1. PointsAt(head)' /\ head'.count <= tail'.count
    BY <1>1, <1>3 DEF PointsAt
  <2>2. next[x].count > 0
    BY <1>0, <1>3, PtrFields DEF ListInv
  <2>3. ASSUME NEW i \in DOMAIN list
        PROVE  /\ i <= head'.count => next[list[i]].count > 0
               /\ i > head'.count =>
                    next[list[i]] = IF i = Len(list) THEN Nowhere ELSE Ptr(list[i + 1], 1)
    <3>1. CASE i = k
      BY <1>1, <1>3, <2>2, <3>1
    <3>2. CASE i # k
      <4>1. (i <= head'.count => i <= head.count) /\ (i > head'.count => i > head.count)
        BY <1>1, <1>3, <3>2
      <4> QED BY <1>0, <4>1 DEF ListInv
    <3> QED BY <3>1, <3>2
  <2> QED BY <1>0, <1>1, <2>1, <2>3 DEF ListInv, PointsAt
<1> HIDE DEF x
<1>5. \A d \in Client : Releasing(d)' <=> Releasing(d) \/ d = c
  BY <1>1 DEF Releasing, ReleasePC
<1>6. ASSUME NEW d \in Client, Releasing(d)
      PROVE  node[d] # x /\ d # c
  <2>1. node[d] # x
    BY <1>3, <1>6, ReleasedNode, Distinct, ClientTypes, <1>0 DEF x
  <2> QED BY <1>1, <1>6, <2>1 DEF Releasing, ReleasePC
<1>7. \A i \in DOMAIN pool : pool[i] # x
  BY <1>3, PooledNode, Distinct DEF x
<1>8. PoolInv'
  <2>1. ASSUME NEW i \in DOMAIN pool
        PROVE  \E j \in 1 .. head'.count : pool[i] = list[j]
    BY <1>0, <1>1, <1>3 DEF PoolInv
  <2>2. ASSUME NEW j \in 1 .. head'.count
        PROVE  \/ \E i \in DOMAIN pool : pool[i] = list[j]
               \/ \E d \in Client : Releasing(d)' /\ node'[d] = list[j]
    <3>1. CASE j = k
      BY <1>1, <1>3, <1>5, <3>1 DEF x
    <3>2. CASE j \in 1 .. head.count
      <4>1. CASE Pooled(list[j])
        BY <4>1 DEF Pooled
      <4>2. CASE \E d \in Client : Releasing(d) /\ node[d] = list[j]
        BY <1>1, <1>5, <1>6, <4>2
      <4> QED BY <1>0, <3>2, <4>1, <4>2 DEF PoolInv
    <3> QED BY <1>1, <1>3, <3>1, <3>2
  <2>3. \A i : PoolPtr(i)' = PoolPtr(i)
    BY <1>1 DEF PoolPtr
  <2>4. /\ free' = PoolPtr(Len(pool))'
        /\ \A i \in DOMAIN pool : next'[pool[i]] = Ptr(PoolPtr(i - 1)'.ptr, i)
        /\ \A i, j \in DOMAIN pool : pool[i] = pool[j] => i = j
    BY <1>0, <1>1, <2>3 DEF PoolInv
  <2> QED BY <1>1, <2>1, <2>2, <2>4 DEF PoolInv, Pooled
<1>9. ASSUME NEW d \in Client \ {c}
      PROVE  PushKnows(d)' /\ PopKnows(d)' /\ ReleaseKnows(d)'
  <2>0. /\ PushKnows(d) /\ PopKnows(d) /\ ReleaseKnows(d)
        /\ h[d].count \in Nat
    BY <1>0, ClientTypes DEF LfqInv, ClientInv
  <2>1. PushKnows(d)'
    <3>1. pc[d] \in PushPC \ {"pushSwing"} => node[d] # x
      BY <1>3, <2>0 DEF PushKnows, Linked, x
    <3>2. pc[d] \in PushPC \ {"pushSwing"} =>
            \A a \in Client : node'[a] = node[d] => a = d
      BY <1>1, <1>3, <2>0, <3>1 DEF PushKnows
    <3> QED BY <1>1, <2>0, <3>2 DEF PushKnows, PointsAt, Follows, Linked
  <2>2. PopKnows(d)'
    <3>1. Popping(d)' <=> Popping(d)
      BY <1>1 DEF Popping
    <3>2. Popping(d) /\ (Items = <<>>)' => empty'[d]
      <4>1. list \in Seq(Node) /\ k \in Nat /\ k < Len(list)
        BY <1>3, ClientTypes, <1>0
      <4>2. Items' = <<>> <=> Len(list) = k + 1
        <5>1. Items' = SubSeq(list, k + 2, Len(list))
          BY <1>1 DEF Items
        <5> QED BY <4>1, <5>1, RestEmpty
      <4>3. Len(Items) = Len(list) - head.count - 1
        BY <1>0, ItemsLength
      <4>4. Items' = <<>> => Len(Items) <= 1
        BY <1>3, <4>2, <4>3
      <4> QED BY <1>1, <4>4
    <3>3. empty'[d] => Popping(d)
      BY <1>1, <2>0 DEF PopKnows
    <3>4. h[d].count <= head.count => h[d].count <= head'.count /\ head' # h[d]
      BY <1>1, <1>3, <2>0
    <3> QED BY <1>1, <2>0, <3>1, <3>2, <3>3, <3>4 DEF PopKnows, PointsAt, Follows, PopPC
  <2>3. ReleaseKnows(d)'
    <3>1. Releasing(d) => \A a \in Client : Releasing(a)' /\ node'[a] = node[d] => a = d
      BY <1>1, <1>3, <1>5, <1>6, <2>0 DEF ReleaseKnows
    <3> QED BY <1>1, <1>3, <1>5, <2>0, <3>1
         DEF ReleaseKnows, PointsAt, Follows, Pooled, PoolPtr
  <2> QED BY <2>1, <2>2, <2>3
<1>10. PushKnows(c)'
  BY <1>1 DEF PushKnows, PushPC
<1>11. PopKnows(c)'
  BY <1>1 DEF PopKnows, PopPC, Popping
<1>12. ReleaseKnows(c)'
  <2>1. \A d \in Client : Releasing(d)' /\ node'[d] = x => d = c
    BY <1>1, <1>5, <1>6
  <2> QED BY <1>1, <1>2, <1>3, <1>7, <2>1
       DEF ReleaseKnows, Releasing, PointsAt, Follows, Pooled
<1> QED BY <1>4, <1>8, <1>9, <1>10, <1>11, <1>12 DEF ClientInv

-----------------------------------------------------------------------------
(* The invariant *)

LEMMA LfqInit == Init => LfqInv
<1> SUFFICES ASSUME Init PROVE LfqInv
  OBVIOUS
<1>1. TypeOK
  BY InitType
<1>2. /\ head.ptr = Dummy /\ head.count = 0 /\ tail.ptr = Dummy /\ tail.count = 0
      /\ list = <<Dummy>> /\ Len(list) = 1 /\ list[1] = Dummy /\ DOMAIN list = {1}
      /\ next[Dummy] = Nowhere /\ pool = <<>> /\ Len(pool) = 0 /\ DOMAIN pool = {}
      /\ free = Ptr(Null, 0)
  BY PtrFields DEF Init, Node, Nowhere
<1>3. ListInv
  BY <1>2 DEF ListInv, PointsAt
<1>4. PoolInv
  BY <1>2 DEF PoolInv, PoolPtr
<1>5. ClientInv
  BY <1>2 DEF Init, ClientInv, PushKnows, PopKnows, ReleaseKnows, PushPC, PopPC, ReleasePC,
     Popping, Releasing
<1> QED BY <1>1, <1>3, <1>4, <1>5 DEF LfqInv

LEMMA LfqNext == LfqInv /\ [Next]_vars => LfqInv'
<1> SUFFICES ASSUME LfqInv, [Next]_vars PROVE LfqInv'
  OBVIOUS
<1>1. ASSUME NEW c \in Client, Push(c) \/ Pop(c) \/ ReleaseNode(c)
      PROVE  LfqInv'
  <2>1. TypeOK'
    BY <1>1, PushType, PopType DEF LfqInv
  <2>2. CASE Push(c)
    BY <2>1, <2>2, PushStartStep, PushLooks, PushLinkStep, TailMoves DEF Push, LfqInv
  <2>3. CASE Pop(c)
    BY <2>1, <2>3, PopLooks, PopCasStep, TailMoves DEF Pop, LfqInv
  <2>4. CASE ReleaseNode(c)
    BY <2>1, <2>4, ReleaseLooks, RelStoreStep, RelCasStep DEF ReleaseNode, LfqInv
  <2> QED BY <1>1, <2>2, <2>3, <2>4
<1>2. CASE UNCHANGED vars
  BY <1>2 DEF vars, LfqInv, TypeOK, ListInv, PointsAt, PoolInv, PoolPtr, Pooled, ClientInv,
     PushKnows, PopKnows, ReleaseKnows, Releasing, Popping, Follows, Linked, Items
<1> QED BY <1>1, <1>2 DEF Next

(* The list, the pool and what each thread knows of them, on every         *)
(* schedule of any number of pushes and pops.                              *)
THEOREM LfqInvariance == Spec => []LfqInv
BY LfqInit, LfqNext, PTL DEF Spec

(* No pop reads an element through a null pointer, however late it is.     *)
THEOREM NoPopFollowsNull == Spec => []NoNullDereference
<1>1. LfqInv => NoNullDereference
  <2> SUFFICES ASSUME LfqInv, NEW c \in Client, pc[c] = "popCas" PROVE n[c].ptr # Null
    BY DEF NoNullDereference
  <2>1. Follows(n[c].ptr, h[c]) /\ TypeOK
    BY DEF LfqInv, ClientInv, PopKnows
  <2>2. n[c].ptr \in Node
    BY <2>1, FollowsNode, ClientTypes
  <2> QED BY <2>2, NodeAssumption DEF Node
<1> QED BY <1>1, LfqInvariance, PTL

-----------------------------------------------------------------------------
(* The refinement *)

Call == [c \in Client |-> AbsCall(c)]
Result == [c \in Client |-> IF Releasing(c) THEN n[c].ptr ELSE NoElem]

LEMMA AbstractInit == Init => Abs!FifoInit
<1> SUFFICES ASSUME Init PROVE Abs!FifoInit
  OBVIOUS
<1>1. Items = <<>>
  <2>1. LfqInv
    BY LfqInit
  <2>2. Len(list) = 1 /\ head.count = 0
    BY PtrFields DEF Init
  <2> QED BY <2>1, <2>2, ItemsLength DEF LfqInv
<1>2. Call = [c \in Client |-> "none"] /\ Result = [c \in Client |-> NoElem]
  BY DEF Init, Call, Result, AbsCall, Popping, Releasing, PopPC, ReleasePC
<1> QED BY <1>1, <1>2 DEF Init, Abs!FifoInit, Call, Result

(* A step that leaves the list, the head and the kind of every call alone. *)
LEMMA Stutters ==
  ASSUME UNCHANGED <<list, empty>>, head'.count = head.count,
         \A d \in Client : /\ Popping(d)' <=> Popping(d)
                           /\ Releasing(d)' <=> Releasing(d)
                           /\ Releasing(d) => n'[d] = n[d]
  PROVE  UNCHANGED Abs!fifoVars
<1>1. Items' = Items
  BY DEF Items
<1>2. Call' = Call /\ Result' = Result
  BY DEF Call, Result, AbsCall
<1> QED BY <1>1, <1>2 DEF Abs!fifoVars, Call, Result

LEMMA PushStutters ==
  ASSUME TypeOK, NEW c \in Client, Push(c), ~ PushLink(c)
  PROVE  UNCHANGED Abs!fifoVars
<1>1. /\ UNCHANGED <<list, empty, head>>
      /\ pc[c] \in PushPC \cup {"idle"} /\ pc'[c] \in PushPC \cup {"idle"}
      /\ \A d \in Client \ {c} : pc'[d] = pc[d] /\ n'[d] = n[d]
  BY DEF Push, PushStart, PushTail, PushNext, PushCheck, PushRetry, PushHelp, PushSwing,
     Return, TypeOK, PushPC
<1> QED BY <1>1, Stutters DEF Popping, Releasing, PushPC, PopPC, ReleasePC

LEMMA PopStutters ==
  ASSUME TypeOK, NEW c \in Client,
         \/ PopHead(c) \/ PopTail(c) \/ PopNext(c) \/ PopAgain(c)
         \/ PopCheck(c) \/ PopHelp(c) \/ PopRetry(c)
  PROVE  UNCHANGED Abs!fifoVars
<1>1. /\ UNCHANGED <<list, empty, head>>
      /\ pc[c] \in PopPC /\ pc'[c] \in PopPC
      /\ \A d \in Client \ {c} : pc'[d] = pc[d] /\ n'[d] = n[d]
  BY DEF PopHead, PopTail, PopNext, PopAgain, PopCheck, PopHelp, PopRetry, TypeOK, PopPC
<1> QED BY <1>1, Stutters DEF Popping, Releasing, PopPC, ReleasePC

LEMMA ReleaseStutters ==
  ASSUME TypeOK, NEW c \in Client, RelLoad(c) \/ RelStore(c) \/ RelRetry(c)
  PROVE  UNCHANGED Abs!fifoVars
<1>1. /\ UNCHANGED <<list, empty, head, n>>
      /\ pc[c] \in ReleasePC /\ pc'[c] \in ReleasePC
      /\ \A d \in Client \ {c} : pc'[d] = pc[d]
  BY DEF RelLoad, RelStore, RelRetry, TypeOK, ReleasePC
<1> QED BY <1>1, Stutters DEF Popping, Releasing, PopPC, ReleasePC

(* A node that is linked adds its element at the end. *)
LEMMA LinkPushes ==
  ASSUME LfqInv, NEW c \in Client, PushLink(c)
  PROVE  node[c] \in Elem /\ Abs!Push(node[c])
<1>0. TypeOK /\ ListInv /\ PushKnows(c) /\ node[c] \in Elem /\ node[c] \in Node
  BY DEF LfqInv, ClientInv, PushKnows, PushLink, PushPC, Node
<1>1. /\ UNCHANGED <<head, empty, n>> /\ list' = Append(list, node[c])
      /\ pc[c] \in PushPC /\ pc'[c] \in PushPC
      /\ \A d \in Client \ {c} : pc'[d] = pc[d]
  BY <1>0 DEF PushLink, TypeOK, PushPC
<1>2. head.count \in Nat /\ head.count < Len(list) /\ list \in Seq(Node)
  BY <1>0, ItemsLength, ClientTypes
<1>3. Items' = Append(Items, node[c])
  BY <1>0, <1>1, <1>2, RestAppend DEF Items
<1>4. Call' = Call /\ Result' = Result
  BY <1>1 DEF Call, Result, AbsCall, Popping, Releasing, PushPC, PopPC, ReleasePC
<1> QED BY <1>0, <1>1, <1>3, <1>4 DEF Abs!Push, Call, Result

(* A head that is moved takes the oldest. *)
LEMMA HeadTakes ==
  ASSUME LfqInv, NEW c \in Client, PopCas(c)
  PROVE  Abs!PopTake(c)
<1>0. TypeOK /\ ListInv /\ PopKnows(c)
  BY DEF LfqInv, ClientInv
<1>1. /\ UNCHANGED <<n, list>> /\ pc[c] = "popCas" /\ pc' = [pc EXCEPT ![c] = "relLoad"]
      /\ pc'[c] = "relLoad"
      /\ head = h[c] /\ head'.count = head.count + 1
      /\ empty' = [d \in Client |->
           d # c /\ (empty[d] \/ (Popping(d) /\ Len(Items) <= 1))]
      /\ \A d \in Client \ {c} : pc'[d] = pc[d]
  BY <1>0, PtrFields DEF PopCas, TypeOK
<1>2. /\ head.count \in Nat /\ list \in Seq(Node) /\ Follows(n[c].ptr, head)
  BY <1>0, <1>1, ClientTypes DEF PopKnows
<1>3. head.count + 1 < Len(list) /\ n[c].ptr = list[head.count + 2]
  BY <1>2 DEF Follows
<1>4. /\ Items # <<>> /\ Items' = Tail(Items) /\ Head(Items) = n[c].ptr
      /\ Tail(Items) = <<>> <=> Len(Items) <= 1
  BY <1>1, <1>2, <1>3, RestTail DEF Items
<1>5. Call[c] = "pop" /\ Call' = [Call EXCEPT ![c] = "return"]
  <2>1. Call[c] = "pop" /\ AbsCall(c)' = "return"
    BY <1>1 DEF Call, AbsCall, Popping, Releasing, PopPC, ReleasePC
  <2>2. \A d \in Client \ {c} : AbsCall(d)' = AbsCall(d)
    BY <1>1 DEF AbsCall, Popping, Releasing
  <2> QED BY <2>1, <2>2 DEF Call
<1>6. Result' = [Result EXCEPT ![c] = Head(Items)]
  BY <1>1, <1>4 DEF Result, Releasing, ReleasePC
<1>7. empty' = [d \in Client |->
        d # c /\ (empty[d] \/ (Call[d] = "pop" /\ Tail(Items) = <<>>))]
  <2>1. \A d \in Client : Call[d] = "pop" <=> Popping(d)
    BY DEF Call, AbsCall
  <2> QED BY <1>1, <1>4, <2>1
<1> QED BY <1>4, <1>5, <1>6, <1>7 DEF Abs!PopTake, Call, Result

LEMMA PopReturns ==
  ASSUME LfqInv, NEW c \in Client, RelCas(c)
  PROVE  Abs!PopReturn(c)
<1>0. TypeOK
  BY DEF LfqInv
<1>1. /\ UNCHANGED <<head, list, empty>> /\ pc[c] = "relCas" /\ pc'[c] = "idle"
      /\ \A d \in Client \ {c} : pc'[d] = pc[d] /\ n'[d] = n[d]
  BY <1>0 DEF RelCas, Return, TypeOK
<1>2. Call[c] = "return" /\ Call' = [Call EXCEPT ![c] = "none"]
  BY <1>1 DEF Call, AbsCall, Popping, Releasing, PopPC, ReleasePC
<1>3. Result' = [Result EXCEPT ![c] = NoElem]
  BY <1>1 DEF Result, Releasing, ReleasePC
<1>4. Items' = Items
  BY <1>1 DEF Items
<1> QED BY <1>1, <1>2, <1>3, <1>4 DEF Abs!PopReturn, Call, Result

LEMMA PopFinds ==
  ASSUME LfqInv, NEW c \in Client, PopStart(c)
  PROVE  Abs!PopStart(c)
<1>0. TypeOK
  BY DEF LfqInv
<1>1. /\ UNCHANGED <<head, list, n>> /\ pc[c] = "idle" /\ pc'[c] = "popHead"
      /\ \A d \in Client \ {c} : pc'[d] = pc[d]
      /\ empty' = [empty EXCEPT ![c] = Items = <<>>]
  BY <1>0 DEF PopStart, TypeOK
<1>2. Call[c] = "none" /\ Call' = [Call EXCEPT ![c] = "pop"]
  BY <1>1 DEF Call, AbsCall, Popping, Releasing, PopPC, ReleasePC
<1>3. Result' = Result
  BY <1>1 DEF Result, Releasing, ReleasePC
<1>4. Items' = Items
  BY <1>1 DEF Items
<1> QED BY <1>1, <1>2, <1>3, <1>4 DEF Abs!PopStart, Call, Result

LEMMA PopFails ==
  ASSUME LfqInv, NEW c \in Client, PopFail(c)
  PROVE  Abs!PopFail(c)
<1>0. TypeOK /\ PopKnows(c)
  BY DEF LfqInv, ClientInv
<1>1. /\ UNCHANGED <<head, list>> /\ pc[c] = "popCheck" /\ pc'[c] = "idle"
      /\ head = h[c] /\ n[c].ptr = Null
      /\ \A d \in Client \ {c} : pc'[d] = pc[d] /\ n'[d] = n[d]
      /\ empty' = [empty EXCEPT ![c] = FALSE]
  BY <1>0 DEF PopFail, Return, TypeOK
<1>2. empty[c]
  <2>1. ~ Follows(n[c].ptr, h[c])
    BY <1>0, <1>1, FollowsNode, ClientTypes, NodeAssumption DEF Node
  <2> QED BY <1>0, <1>1, <2>1 DEF PopKnows
<1>3. Call[c] = "pop" /\ Call' = [Call EXCEPT ![c] = "none"]
  BY <1>1 DEF Call, AbsCall, Popping, Releasing, PopPC, ReleasePC
<1>4. Result' = Result
  BY <1>1 DEF Result, Releasing, ReleasePC
<1>5. Items' = Items
  BY <1>1 DEF Items
<1> QED BY <1>1, <1>2, <1>3, <1>4, <1>5 DEF Abs!PopFail, Call, Result

LEMMA AbstractNext == LfqInv /\ [Next]_vars => [Abs!FifoNext]_(Abs!fifoVars)
<1> SUFFICES ASSUME LfqInv, [Next]_vars PROVE Abs!FifoNext \/ UNCHANGED Abs!fifoVars
  OBVIOUS
<1>0. TypeOK
  BY DEF LfqInv
<1>1. ASSUME NEW c \in Client, Push(c)
      PROVE  Abs!FifoNext \/ UNCHANGED Abs!fifoVars
  BY <1>0, <1>1, PushStutters, LinkPushes DEF Abs!FifoNext
<1>2. ASSUME NEW c \in Client, Pop(c)
      PROVE  Abs!FifoNext \/ UNCHANGED Abs!fifoVars
  BY <1>0, <1>2, PopStutters, HeadTakes, PopFinds, PopFails DEF Pop, Abs!FifoNext
<1>3. ASSUME NEW c \in Client, ReleaseNode(c)
      PROVE  Abs!FifoNext \/ UNCHANGED Abs!fifoVars
  BY <1>0, <1>3, ReleaseStutters, PopReturns DEF ReleaseNode, Abs!FifoNext
<1>4. CASE UNCHANGED vars
  BY <1>4, Stutters DEF vars, Popping, Releasing
<1> QED BY <1>1, <1>2, <1>3, <1>4 DEF Next

(* TU_LockFreeQueue is a linearizable first-in first-out queue: its pushes *)
(* and pops, with the nodes they have late pointers to, do what those of   *)
(* Fifo do, each at one point.                                             *)
THEOREM FifoRefinement == Spec => ImplementsFifo
BY LfqInvariance, AbstractInit, AbstractNext, PTL DEF Spec, ImplementsFifo, Abs!FifoSpec

-----------------------------------------------------------------------------
(* The destructor *)

(* A set of numbers has a least one, and one that holds the predecessor of *)
(* each of its numbers is empty.                                           *)
LEMMA LeastNumber ==
  ASSUME NEW T, T \subseteq Nat, T # {}
  PROVE  \E x \in T : \A y \in T : x <= y
<1> DEFINE R == StrictSubsetOrdering(Nat)
           Lower == {1 .. z : z \in T}
<1>1. IsWellFoundedOn(R, FiniteSubsetsOf(Nat))
  BY FS_StrictSubsetOrderingWellFounded
<1>2. Lower \subseteq FiniteSubsetsOf(Nat) /\ Lower # {}
  <2>1. ASSUME NEW z \in T
        PROVE  1 .. z \in FiniteSubsetsOf(Nat)
    <3>1. IsFiniteSet(1 .. z)
      <4>1. z \in Int
        OBVIOUS
      <4> QED BY <4>1, FS_Interval
    <3>2. 1 .. z \in SUBSET Nat
      OBVIOUS
    <3> QED BY <3>1, <3>2 DEF FiniteSubsetsOf
  <2> QED BY <2>1
<1>3. PICK L \in Lower : \A M \in Lower : ~ (<<M, L>> \in R)
  <2> HIDE DEF R, Lower
  <2> QED BY <1>1, <1>2, WFMin
<1>4. PICK x \in T : L = 1 .. x
  OBVIOUS
<1>5. ASSUME NEW y \in T, y < x
      PROVE FALSE
  <2>1. 1 .. y \in Lower /\ 1 .. y \subseteq Nat /\ 1 .. x \subseteq Nat
    OBVIOUS
  <2>2. x \in 1 .. x /\ x \notin 1 .. y /\ 1 .. y \subseteq 1 .. x
    BY <1>5
  <2>3. <<1 .. y, L>> \in R
    BY <1>4, <2>1, <2>2 DEF StrictSubsetOrdering
  <2> QED BY <1>3, <2>1, <2>3
<1> QED BY <1>5

LEMMA Descent ==
  ASSUME NEW T, T \subseteq Nat, \A m \in T : m # 0 /\ m - 1 \in T
  PROVE  T = {}
<1> SUFFICES ASSUME T # {} PROVE FALSE
  OBVIOUS
<1>1. PICK m \in T : \A y \in T : m <= y
  BY LeastNumber
<1>2. m - 1 \in T /\ m \in Nat
  OBVIOUS
<1> QED BY <1>1, <1>2

(* What the walk from p has met after k steps, of the first m. *)
IsWalk(g, p, m) ==
  g = [k \in 0 .. m |->
         IF k = 0 THEN {p.ptr} \ {Null}
         ELSE g[k - 1] \cup ({next[x].ptr : x \in g[k - 1]} \ {Null})]

(* There is one walk: two would differ at a first step. *)
LEMMA OneWalk ==
  ASSUME NEW p, NEW m \in Nat, NEW g, NEW w, IsWalk(g, p, m), IsWalk(w, p, m)
  PROVE  g[m] = w[m]
<1> DEFINE T == {k \in 0 .. m : g[k] # w[k]}
<1>1. ASSUME NEW k \in T
      PROVE  k # 0 /\ k - 1 \in T
  <2>1. g[k] = IF k = 0 THEN {p.ptr} \ {Null}
               ELSE g[k - 1] \cup ({next[x].ptr : x \in g[k - 1]} \ {Null})
    BY DEF IsWalk
  <2>2. w[k] = IF k = 0 THEN {p.ptr} \ {Null}
               ELSE w[k - 1] \cup ({next[x].ptr : x \in w[k - 1]} \ {Null})
    BY DEF IsWalk
  <2>3. k # 0 /\ g[k - 1] # w[k - 1]
    BY <2>1, <2>2
  <2> QED BY <2>3
<1>2. T = {}
  <2>1. T \subseteq Nat
    OBVIOUS
  <2> QED BY <1>1, <2>1, Descent
<1> QED BY <1>2

LEMMA ReachedIsWalk ==
  ASSUME IsFiniteSet(Node), NEW p, NEW g, IsWalk(g, p, Cardinality(Node))
  PROVE  Reached(p) = g[Cardinality(Node)]
<1> DEFINE m == Cardinality(Node)
           w == CHOOSE v : IsWalk(v, p, m)
<1>1. Reached(p) = w[m]
  BY DEF Reached, IsWalk
<1>2. IsWalk(w, p, m)
  OBVIOUS
<1>3. m \in Nat
  BY FS_CardinalityType
<1> HIDE DEF w, m
<1> QED BY <1>1, <1>2, <1>3, OneWalk DEF m

(* A sequence without repetitions is no longer than the set it is taken from. *)
LEMMA NoLonger ==
  ASSUME NEW S, IsFiniteSet(S), NEW s \in Seq(S),
         \A i, j \in DOMAIN s : s[i] = s[j] => i = j
  PROVE  Len(s) <= Cardinality(S)
<1>1. s \in Injection(1 .. Len(s), S)
  BY DEF Injection, IsInjective
<1>2. Cardinality(1 .. Len(s)) = Len(s)
  <2>1. Len(s) \in Nat
    OBVIOUS
  <2> QED BY <2>1, FS_Interval
<1> QED BY <1>1, <1>2, FS_Injection

(* From head_ the destructor meets the nodes that follow it in the list. *)
LEMMA HeadWalk ==
  ASSUME LfqInv, NEW m \in Nat
  PROVE  IsWalk([k \in 0 .. m |->
                   {list[i] : i \in {j \in DOMAIN list :
                                       head.count < j /\ j <= head.count + 1 + k}}],
                head, m)
<1> DEFINE L(k) == {j \in DOMAIN list : head.count < j /\ j <= head.count + 1 + k}
           G(k) == {list[i] : i \in L(k)}
<1>0. /\ TypeOK /\ PointsAt(head) /\ head \in Pointer /\ head.count \in Nat
      /\ list \in Seq(Node) /\ Len(list) \in Nat /\ DOMAIN list = 1 .. Len(list)
  BY PointerParts DEF LfqInv, ListInv, TypeOK
<1>1. \A i \in DOMAIN list : i > head.count =>
        next[list[i]] = IF i = Len(list) THEN Nowhere ELSE Ptr(list[i + 1], 1)
  BY DEF LfqInv, ListInv
<1>2. G(0) = {head.ptr} \ {Null}
  <2>1. head.ptr \in Node /\ head.count + 1 \in DOMAIN list
        /\ head.ptr = list[head.count + 1] /\ head.ptr # Null
    BY <1>0, PointsNode, NodeAssumption DEF Node
  <2>2. L(0) = {head.count + 1}
    BY <1>0, <2>1
  <2> QED BY <2>1, <2>2
<1>3. ASSUME NEW k \in 1 .. m
      PROVE  G(k) = G(k - 1) \cup ({next[x].ptr : x \in G(k - 1)} \ {Null})
  <2>1. ASSUME NEW i \in L(k), i \notin L(k - 1)
        PROVE  list[i] \in {next[x].ptr : x \in G(k - 1)} \ {Null}
    <3>1. i = head.count + 1 + k /\ i - 1 \in L(k - 1) /\ i - 1 \in DOMAIN list
          /\ i - 1 > head.count /\ i - 1 # Len(list) /\ (i - 1) + 1 = i
      BY <1>0, <2>1
    <3>2. next[list[i - 1]].ptr = list[i]
      BY <1>1, <3>1, PtrFields
    <3>3. list[i] # Null
      BY <1>0, NodeAssumption DEF Node
    <3> QED BY <3>1, <3>2, <3>3
  <2>2. ASSUME NEW i \in L(k - 1), next[list[i]].ptr # Null
        PROVE  next[list[i]].ptr \in G(k)
    <3>1. i \in DOMAIN list /\ i > head.count
      BY <1>0
    <3>2. i # Len(list)
      BY <1>1, <2>2, <3>1, NowhereType
    <3>3. next[list[i]].ptr = list[i + 1]
      BY <1>1, <3>1, <3>2, PtrFields
    <3>4. i + 1 \in L(k)
      BY <1>0, <3>1, <3>2
    <3> QED BY <3>3, <3>4
  <2>3. L(k - 1) \subseteq L(k)
    BY <1>0
  <2> HIDE DEF L
  <2> QED BY <2>1, <2>2, <2>3
<1> DEFINE g == [k \in 0 .. m |-> G(k)]
<1>4. ASSUME NEW k \in 0 .. m
      PROVE  G(k) = IF k = 0 THEN {head.ptr} \ {Null}
                    ELSE g[k - 1] \cup ({next[x].ptr : x \in g[k - 1]} \ {Null})
  <2>1. CASE k = 0
    BY <1>2, <2>1
  <2>2. CASE k # 0
    <3>1. k \in 1 .. m /\ k - 1 \in 0 .. m
      BY <2>2
    <3>2. g[k - 1] = G(k - 1)
      BY <3>1
    <3> HIDE DEF g, G
    <3> QED BY <1>3, <2>2, <3>1, <3>2
  <2> QED BY <2>1, <2>2
<1>5. IsWalk(g, head, m)
  <2> HIDE DEF G
  <2> QED BY <1>4 DEF IsWalk
<1> QED BY <1>5

(* From free_ it meets the released nodes, from the last to the first. *)
LEMMA FreeWalk ==
  ASSUME LfqInv, NEW m \in Nat
  PROVE  IsWalk([k \in 0 .. m |->
                   {pool[i] : i \in {j \in DOMAIN pool : Len(pool) <= j + k}}],
                free, m)
<1> DEFINE L(k) == {j \in DOMAIN pool : Len(pool) <= j + k}
           G(k) == {pool[i] : i \in L(k)}
<1>0. /\ TypeOK /\ pool \in Seq(Node) /\ Len(pool) \in Nat
      /\ DOMAIN pool = 1 .. Len(pool)
  BY DEF LfqInv, TypeOK
<1>1. /\ free = PoolPtr(Len(pool))
      /\ \A i \in DOMAIN pool : next[pool[i]] = Ptr(PoolPtr(i - 1).ptr, i)
  BY DEF LfqInv, PoolInv
<1>2. G(0) = {free.ptr} \ {Null}
  <2>1. CASE Len(pool) = 0
    BY <1>0, <1>1, <2>1, PtrFields DEF PoolPtr
  <2>2. CASE Len(pool) # 0
    <3>1. free.ptr = pool[Len(pool)]
      BY <1>1, <2>2, PtrFields DEF PoolPtr
    <3>2. L(0) = {Len(pool)} /\ Len(pool) \in DOMAIN pool
      BY <1>0, <2>2
    <3>3. pool[Len(pool)] # Null
      BY <1>0, <3>2, NodeAssumption DEF Node
    <3> QED BY <3>1, <3>2, <3>3
  <2> QED BY <2>1, <2>2
<1>3. ASSUME NEW k \in 1 .. m
      PROVE  G(k) = G(k - 1) \cup ({next[x].ptr : x \in G(k - 1)} \ {Null})
  <2>0. ASSUME NEW i \in DOMAIN pool
        PROVE  next[pool[i]].ptr = IF i = 1 THEN Null ELSE pool[i - 1]
    BY <1>0, <1>1, PtrFields DEF PoolPtr
  <2>1. ASSUME NEW i \in L(k), i \notin L(k - 1)
        PROVE  pool[i] \in {next[x].ptr : x \in G(k - 1)} \ {Null}
    <3>1. i + 1 \in L(k - 1) /\ i + 1 \in DOMAIN pool /\ i + 1 # 1 /\ (i + 1) - 1 = i
      BY <1>0, <2>1
    <3>2. next[pool[i + 1]].ptr = pool[i]
      BY <2>0, <3>1
    <3>3. pool[i] # Null
      BY <1>0, NodeAssumption DEF Node
    <3> QED BY <3>1, <3>2, <3>3
  <2>2. ASSUME NEW i \in L(k - 1), next[pool[i]].ptr # Null
        PROVE  next[pool[i]].ptr \in G(k)
    <3>1. i # 1 /\ next[pool[i]].ptr = pool[i - 1]
      BY <2>0, <2>2
    <3>2. i - 1 \in L(k)
      BY <1>0, <3>1
    <3> QED BY <3>1, <3>2
  <2>3. L(k - 1) \subseteq L(k)
    BY <1>0
  <2> HIDE DEF L
  <2> QED BY <2>1, <2>2, <2>3
<1> DEFINE g == [k \in 0 .. m |-> G(k)]
<1>4. ASSUME NEW k \in 0 .. m
      PROVE  G(k) = IF k = 0 THEN {free.ptr} \ {Null}
                    ELSE g[k - 1] \cup ({next[x].ptr : x \in g[k - 1]} \ {Null})
  <2>1. CASE k = 0
    BY <1>2, <2>1
  <2>2. CASE k # 0
    <3>1. k \in 1 .. m /\ k - 1 \in 0 .. m
      BY <2>2
    <3>2. g[k - 1] = G(k - 1)
      BY <3>1
    <3> HIDE DEF g, G
    <3> QED BY <1>3, <2>2, <3>1, <3>2
  <2> QED BY <2>1, <2>2
<1>5. IsWalk(g, free, m)
  <2> HIDE DEF G
  <2> QED BY <1>4 DEF IsWalk
<1> QED BY <1>5

LEMMA HeadReaches ==
  ASSUME LfqInv, IsFiniteSet(Node)
  PROVE  Reached(head) = {list[i] : i \in {j \in DOMAIN list : head.count < j}}
<1> DEFINE m == Cardinality(Node)
<1>0. /\ head.count \in Nat /\ list \in Seq(Node)
      /\ Len(list) \in Nat /\ DOMAIN list = 1 .. Len(list)
      /\ \A i, j \in DOMAIN list : list[i] = list[j] => i = j
  BY PointerParts DEF LfqInv, ListInv, TypeOK
<1>1. m \in Nat /\ Len(list) <= m
  BY <1>0, FS_CardinalityType, NoLonger
<1> HIDE DEF m
<1> DEFINE g == [k \in 0 .. m |->
                   {list[i] : i \in {j \in DOMAIN list :
                                       head.count < j /\ j <= head.count + 1 + k}}]
<1>2. Reached(head) = g[m]
  BY <1>1, HeadWalk, ReachedIsWalk DEF m
<1>3. {j \in DOMAIN list : head.count < j /\ j <= head.count + 1 + m}
      = {j \in DOMAIN list : head.count < j}
  BY <1>0, <1>1
<1> QED BY <1>1, <1>2, <1>3

LEMMA FreeReaches ==
  ASSUME LfqInv, IsFiniteSet(Node)
  PROVE  Reached(free) = {pool[i] : i \in DOMAIN pool}
<1> DEFINE m == Cardinality(Node)
<1>0. /\ pool \in Seq(Node) /\ Len(pool) \in Nat /\ DOMAIN pool = 1 .. Len(pool)
      /\ \A i, j \in DOMAIN pool : pool[i] = pool[j] => i = j
  BY DEF LfqInv, PoolInv, TypeOK
<1>1. m \in Nat /\ Len(pool) <= m
  BY <1>0, FS_CardinalityType, NoLonger
<1> HIDE DEF m
<1> DEFINE g == [k \in 0 .. m |->
                   {pool[i] : i \in {j \in DOMAIN pool : Len(pool) <= j + k}}]
<1>2. Reached(free) = g[m]
  BY <1>1, FreeWalk, ReachedIsWalk DEF m
<1>3. {j \in DOMAIN pool : Len(pool) <= j + m} = DOMAIN pool
  BY <1>0, <1>1
<1> QED BY <1>1, <1>2, <1>3

LEMMA IdleDeletes ==
  ASSUME LfqInv, IsFiniteSet(Node)
  PROVE  DeletedOnce
<1> SUFFICES ASSUME \A c \in Client : pc[c] = "idle"
             PROVE  /\ Ends(head) /\ Ends(free)
                    /\ Reached(head) \cap Reached(free) = {}
                    /\ Reached(head) \cup Reached(free) = {list[i] : i \in DOMAIN list}
  BY DEF DeletedOnce
<1>0. /\ head.count \in Nat /\ list \in Seq(Node) /\ PointsAt(head)
      /\ Len(list) \in Nat /\ DOMAIN list = 1 .. Len(list)
      /\ pool \in Seq(Node) /\ Len(pool) \in Nat /\ DOMAIN pool = 1 .. Len(pool)
  BY PointerParts DEF LfqInv, ListInv, TypeOK
<1>1. head.count < Len(list)
  BY <1>0 DEF PointsAt
<1>2. Reached(head) = {list[i] : i \in {j \in DOMAIN list : head.count < j}}
  BY HeadReaches
<1>3. Reached(free) = {pool[i] : i \in DOMAIN pool}
  BY FreeReaches
<1>4. Ends(head)
  <2>1. Len(list) \in DOMAIN list /\ Len(list) > head.count
    BY <1>0, <1>1
  <2>2. next[list[Len(list)]].ptr = Null
    BY <2>1, NowhereType DEF LfqInv, ListInv
  <2> QED BY <1>2, <2>1, <2>2 DEF Ends
<1>5. Ends(free)
  <2>1. CASE Len(pool) = 0
    BY <2>1, PtrFields DEF Ends, LfqInv, PoolInv, PoolPtr
  <2>2. CASE Len(pool) # 0
    <3>1. 1 \in DOMAIN pool
      BY <1>0, <2>2
    <3>2. next[pool[1]].ptr = PoolPtr(0).ptr
      BY <3>1, PtrFields DEF LfqInv, PoolInv
    <3>3. PoolPtr(0).ptr = Null
      BY PtrFields DEF PoolPtr
    <3> QED BY <1>3, <3>1, <3>2, <3>3 DEF Ends
  <2> QED BY <2>1, <2>2
<1>6. \A i \in DOMAIN pool : \E k \in DOMAIN list : k <= head.count /\ pool[i] = list[k]
  <2>1. \A i \in DOMAIN pool : \E k \in 1 .. head.count : pool[i] = list[k]
    BY DEF LfqInv, PoolInv
  <2>2. \A k \in 1 .. head.count : k \in DOMAIN list /\ k <= head.count
    BY <1>0, <1>1
  <2> QED BY <2>1, <2>2
<1>7. \A k \in DOMAIN list : k <= head.count => \E i \in DOMAIN pool : pool[i] = list[k]
  <2>1. \A k \in DOMAIN list : k <= head.count => k \in 1 .. head.count
    BY <1>0
  <2>2. \A c \in Client : ~ Releasing(c)
    BY DEF Releasing, ReleasePC
  <2> QED BY <2>1, <2>2 DEF LfqInv, PoolInv, Pooled
<1>8. \A i, j \in DOMAIN list : list[i] = list[j] => i = j
  BY DEF LfqInv, ListInv
<1>9. \A i \in DOMAIN list : head.count < i <=> ~ (i <= head.count)
  BY <1>0
<1>10. Reached(head) \cap Reached(free) = {}
  BY <1>2, <1>3, <1>6, <1>8, <1>9
<1>11. Reached(head) \cup Reached(free) = {list[i] : i \in DOMAIN list}
  BY <1>2, <1>3, <1>6, <1>7, <1>9
<1> QED BY <1>4, <1>5, <1>10, <1>11

(* However the pushes and pops of any number of threads have interleaved,  *)
(* the destructor deletes every node that was linked, and none twice, when *)
(* the program has pushed finitely many elements.                          *)
THEOREM DestructorDeletesOnce ==
  ASSUME IsFiniteSet(Elem)
  PROVE  Spec => []DeletedOnce
<1>1. IsFiniteSet(Node)
  BY FS_AddElement DEF Node
<1>2. LfqInv => DeletedOnce
  BY <1>1, IdleDeletes
<1> QED BY <1>2, LfqInvariance, PTL
=============================================================================
