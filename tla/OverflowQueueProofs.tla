------------------------- MODULE OverflowQueueProofs -------------------------
(***************************************************************************)
(* For any number of threads, any elements and a ring of any size above 1: *)
(* the threads that share the ring never access the same slot at a time;   *)
(* no element is lost or popped twice; and TU_FiniteOverflowQueue is the   *)
(* queue that the task manager is modelled with.                           *)
(***************************************************************************)
EXTENDS OverflowQueue, TLAPS

USE DEF Goto, Hold, LoadPos, ring, history

-----------------------------------------------------------------------------
(* Positions and slots *)

LEMMA Remainder ==
  ASSUME NEW p \in Nat
  PROVE  /\ p = SIZE * (p \div SIZE) + Slot(p)
         /\ p \div SIZE \in Nat
         /\ Slot(p) \in Slots
BY SizeAssumption DEF Slot, Slots

(* A multiple of n that is between - n and n is 0. *)
LEMMA SmallMultiple ==
  ASSUME NEW n \in Nat, n > 1, NEW k \in Int, n * k < n, n * k > - n
  PROVE  k = 0
<1>1. CASE k >= 1
  <2>1. n * k >= n
    BY <1>1
  <2> QED BY <2>1
<1>2. CASE k <= -1
  <2>1. n * k <= - n
    BY <1>2
  <2> QED BY <2>1
<1> QED BY <1>1, <1>2

(* Two positions of the same slot are equal or at least one lap apart. *)
LEMMA SlotDistinct ==
  ASSUME NEW p \in Nat, NEW q \in Nat, p < q, q < p + SIZE
  PROVE  Slot(p) # Slot(q)
<1> SUFFICES ASSUME Slot(p) = Slot(q) PROVE FALSE
  OBVIOUS
<1> DEFINE a == p \div SIZE
           b == q \div SIZE
<1>1. /\ p = SIZE * a + Slot(p) /\ a \in Nat
      /\ q = SIZE * b + Slot(q) /\ b \in Nat
      /\ Slot(p) \in Int
  BY Remainder DEF Slots
<1> HIDE DEF a, b
<1>2. q - p = SIZE * b - SIZE * a
  BY <1>1, SizeAssumption
<1>3. SIZE * b - SIZE * a = SIZE * (b - a)
  BY <1>1, SizeAssumption
<1>4. b - a = 0
  BY <1>1, <1>2, <1>3, SmallMultiple, SizeAssumption
<1> QED BY <1>1, <1>2, <1>3, <1>4, SizeAssumption

(* One lap later, a position has the same slot. *)
LEMMA SlotLap ==
  ASSUME NEW p \in Nat
  PROVE  Slot(p + SIZE) = Slot(p)
<1> DEFINE a == p \div SIZE
           b == (p + SIZE) \div SIZE
<1>0. p + SIZE \in Nat
  BY SizeAssumption
<1>1. /\ p = SIZE * a + Slot(p) /\ a \in Nat
      /\ p + SIZE = SIZE * b + Slot(p + SIZE) /\ b \in Nat
      /\ Slot(p) \in 0 .. SIZE - 1 /\ Slot(p + SIZE) \in 0 .. SIZE - 1
  BY <1>0, Remainder DEF Slots
<1> HIDE DEF a, b
<1>2. Slot(p + SIZE) - Slot(p) = SIZE + SIZE * a - SIZE * b
  BY <1>1, SizeAssumption
<1>3. SIZE + SIZE * a - SIZE * b = SIZE * (1 + a - b)
  BY <1>1, SizeAssumption
<1>4. 1 + a - b = 0
  BY <1>1, <1>2, <1>3, SmallMultiple, SizeAssumption
<1>5. SIZE * (1 + a - b) = 0
  BY <1>4, SizeAssumption
<1> QED BY <1>1, <1>2, <1>3, <1>5

-----------------------------------------------------------------------------
Accessing(c) == Writing(c) \/ Reading(c)

(* Whoever accesses a slot does so at one of the last SIZE positions that  *)
(* were claimed, and so at a slot of its own.                              *)
LEMMA OwnSlot ==
  ASSUME RingInv, NEW c \in Client, NEW d \in Client, c # d,
         Accessing(c), Accessing(d)
  PROVE  Slot(pos[c]) # Slot(pos[d])
<1>1. /\ pos[c] \in Nat /\ pos[d] \in Nat /\ tail \in Nat /\ head \in Nat
      /\ SIZE \in Nat
  BY SizeAssumption DEF RingInv, TypeOK
<1>2. \A e \in {c, d} : pos[e] < tail /\ tail <= pos[e] + SIZE
  <2> SUFFICES ASSUME NEW e \in {c, d} PROVE pos[e] < tail /\ tail <= pos[e] + SIZE
    OBVIOUS
  <2>1. CASE Writing(e)
    BY <1>1, <2>1 DEF RingInv, Claims, Accesses
  <2>2. CASE Reading(e)
    BY <1>1, <2>2 DEF RingInv, Claims, Accesses
  <2> QED BY <2>1, <2>2 DEF Accessing
<1>3. pos[c] # pos[d]
  BY DEF RingInv, Accesses, Accessing
<1>4. CASE pos[c] < pos[d]
  BY <1>1, <1>2, <1>4, SlotDistinct
<1>5. CASE pos[d] < pos[c]
  BY <1>1, <1>2, <1>5, SlotDistinct
<1> QED BY <1>1, <1>3, <1>4, <1>5

(* Nor is it the slot of another position between head and tail. *)
LEMMA OtherSlot ==
  ASSUME RingInv, NEW c \in Client, Accessing(c),
         NEW p \in head .. tail - 1, p # pos[c]
  PROVE  Slot(p) # Slot(pos[c])
<1>1. /\ pos[c] \in Nat /\ p \in Nat /\ tail \in Nat /\ head \in Nat
      /\ SIZE \in Nat
  BY SizeAssumption DEF RingInv, TypeOK
<1>2. /\ tail <= p + SIZE
      /\ pos[c] < tail /\ tail <= pos[c] + SIZE
  BY <1>1 DEF RingInv, Claims, Accesses, Accessing
<1>3. CASE pos[c] < p
  BY <1>1, <1>2, <1>3, SlotDistinct
<1>4. CASE p < pos[c]
  BY <1>1, <1>2, <1>4, SlotDistinct
<1> QED BY <1>1, <1>3, <1>4

(* The steps that only look at the ring, or use the overflow list. *)
Looking(c) ==
  \/ \E e \in Elem : PushStart(c, e)
  \/ PushSeq(c) \/ PushReload(c) \/ PushRetry(c) \/ PushOver(c)
  \/ PopStart(c) \/ PopSeq(c) \/ PopReload(c) \/ PopRetry(c)
  \/ PopOver(c) \/ PopFail(c)

LEMMA SequenceNat ==
  ASSUME TypeOK, NEW p \in Nat
  PROVE  sequence[Slot(p)] \in Nat
BY Remainder DEF TypeOK

LEMMA LookingSteps ==
  ASSUME RingInv, NEW c \in Client, Looking(c)
  PROVE  /\ UNCHANGED <<sequence, data, head, tail>>
         /\ pc[c] \notin {"pushWrite", "pushStore", "popRead", "popStore"}
         /\ \E l \in PC \ {"pushWrite", "pushStore", "popRead", "popStore"} :
              pc' = [pc EXCEPT ![c] = l]
         /\ \A d \in Client \ {c} : pos'[d] = pos[d] /\ val'[d] = val[d]
<1> USE DEF RingInv, TypeOK, PC, Pushing, Popping
<1>1. CASE \E e \in Elem : PushStart(c, e)
  BY <1>1 DEF PushStart
<1>2. CASE PushSeq(c)
  BY <1>2 DEF PushSeq
<1>3. CASE PushReload(c) \/ PushRetry(c) \/ PushOver(c)
  BY <1>3 DEF PushReload, PushRetry, PushOver
<1>4. CASE PopStart(c)
  BY <1>4 DEF PopStart
<1>5. CASE PopSeq(c)
  BY <1>5 DEF PopSeq
<1>6. CASE PopReload(c) \/ PopRetry(c)
  BY <1>6 DEF PopReload, PopRetry
<1>7. CASE PopOver(c) \/ PopFail(c)
  BY <1>7 DEF PopOver, PopFail
<1> QED BY <1>1, <1>2, <1>3, <1>4, <1>5, <1>6, <1>7 DEF Looking

LEMMA LookingInv ==
  ASSUME RingInv, NEW c \in Client, Looking(c)
  PROVE  RingInv'
<1>1. /\ UNCHANGED <<sequence, data, head, tail>>
      /\ \A d \in Client : /\ Writing(d)' <=> Writing(d)
                           /\ Reading(d)' <=> Reading(d)
                           /\ Accessing(d) => pos'[d] = pos[d]
  BY LookingSteps DEF RingInv, TypeOK, Accessing, Writing, Reading
<1>2. Claims' /\ Accesses'
  BY <1>1 DEF RingInv, Claims, Accesses, Accessing
<1>3. TypeOK'
  <2>1. pc' \in [Client -> PC]
    BY LookingSteps DEF RingInv, TypeOK
  <2>2. pos' \in [Client -> Nat] /\ val' \in [Client -> Elem \cup {NoElem}]
    <3> USE DEF RingInv, TypeOK
    <3>1. CASE \E e \in Elem : PushStart(c, e)
      BY <3>1 DEF PushStart
    <3>2. CASE PushReload(c) \/ PushRetry(c)
      BY <3>2 DEF PushReload, PushRetry
    <3>3. CASE PopStart(c) \/ PopReload(c) \/ PopRetry(c)
      BY <3>3 DEF PopStart, PopReload, PopRetry
    <3>4. CASE PushOver(c)
      BY <3>4 DEF PushOver
    <3>5. CASE PushSeq(c) \/ PopSeq(c) \/ PopOver(c) \/ PopFail(c)
      BY <3>5 DEF PushSeq, PopSeq, PopOver, PopFail
    <3> QED BY <3>1, <3>2, <3>3, <3>4, <3>5 DEF Looking
  <2>3. Ready \subseteq Elem
    BY DEF Ready, ToSet, RingInv, TypeOK, Contents
  <2>4. must' \in [Client -> SUBSET Elem] /\ blocked' \in [Client -> BOOLEAN]
    <3> USE <2>3 DEF RingInv, TypeOK
    <3>1. CASE PopStart(c)
      BY <3>1 DEF PopStart
    <3>2. CASE PopSeq(c)
      BY <3>2 DEF PopSeq
    <3>3. CASE PopOver(c) \/ PopFail(c)
      BY <3>3 DEF PopOver, PopFail, PopEnd
    <3>4. CASE UNCHANGED history
      BY <3>4
    <3> QED BY <3>1, <3>2, <3>3, <3>4 DEF Looking, PushStart, PushSeq, PushReload,
            PushRetry, PushOver, PopReload, PopRetry
  <2>5. overflow' \in Seq(Elem) /\ free' \subseteq Elem
    <3> USE DEF RingInv, TypeOK
    <3>1. CASE PushOver(c)
      <4>1. val[c] \in Elem
        BY <3>1 DEF PushOver, Contents, Pushing
      <4> QED BY <3>1, <4>1 DEF PushOver
    <3>2. CASE PopOver(c)
      BY <3>2 DEF PopOver
    <3>3. CASE \E e \in Elem : PushStart(c, e)
      BY <3>3 DEF PushStart
    <3>4. CASE UNCHANGED <<overflow, free>>
      BY <3>4
    <3> QED BY <3>1, <3>2, <3>3, <3>4 DEF Looking, PushSeq, PushReload, PushRetry,
            PopStart, PopSeq, PopReload, PopRetry, PopFail
  <2> QED BY <1>1, <2>1, <2>2, <2>4, <2>5 DEF RingInv, TypeOK
<1>4. Compared'
  <2>1. ASSUME NEW d \in Client, d # c
        PROVE  pc'[d] = pc[d] /\ pos'[d] = pos[d]
    BY <2>1, LookingSteps DEF RingInv, TypeOK
  <2>2. CASE PushSeq(c)
    <3>1. sequence[Slot(pos[c])] \in Nat /\ pos[c] \in Nat
      BY SequenceNat DEF RingInv, TypeOK
    <3>2. pos'[c] = pos[c] /\ pc[c] = "pushSeq"
      BY <2>2 DEF PushSeq
    <3>3. /\ pc'[c] \in {"pushCas", "pushOver", "pushReload"}
          /\ pc'[c] = "pushCas" => sequence[Slot(pos[c])] - (pos[c]) = 0
      BY <2>2 DEF PushSeq, Difference, RingInv, TypeOK
    <3>4. pc'[c] = "pushCas" => sequence[Slot(pos[c])] = pos[c]
      BY <3>1, <3>3
    <3> QED BY <1>1, <2>1, <3>2, <3>3, <3>4 DEF RingInv, Compared
  <2>3. CASE PopSeq(c)
    <3>1. sequence[Slot(pos[c])] \in Nat /\ pos[c] \in Nat
      BY SequenceNat DEF RingInv, TypeOK
    <3>2. pos'[c] = pos[c] /\ pc[c] = "popSeq"
      BY <2>3 DEF PopSeq
    <3>3. /\ pc'[c] \in {"popCas", "popOver", "popReload"}
          /\ pc'[c] = "popCas" => sequence[Slot(pos[c])] - (pos[c] + 1) = 0
      BY <2>3 DEF PopSeq, Difference, RingInv, TypeOK
    <3>4. pc'[c] = "popCas" => sequence[Slot(pos[c])] = pos[c] + 1
      BY <3>1, <3>3
    <3>5. pc'[c] = "popCas" /\ pos[c] = head => head < tail
      <4>1. head = tail => sequence[Slot(head)] <= head
        BY SizeAssumption DEF RingInv, TypeOK, Claims
      <4> QED BY <3>4, <4>1, SizeAssumption DEF RingInv, TypeOK, Claims
    <3> QED BY <1>1, <2>1, <3>2, <3>3, <3>4, <3>5 DEF RingInv, Compared
  <2>4. CASE ~ PushSeq(c) /\ ~ PopSeq(c)
    <3>1. /\ pc'[c] \in {"pushSeq", "idle", "popSeq"}
          /\ pc'[c] = "pushSeq" => pos'[c] = tail
          /\ pc'[c] = "popSeq" => pos'[c] = head
      BY <2>4 DEF Looking, PushStart, PushReload, PushRetry, PushOver, PopStart,
         PopReload, PopRetry, PopOver, PopFail, RingInv, TypeOK
    <3> QED BY <1>1, <2>1, <3>1 DEF RingInv, TypeOK, Compared
  <2> QED BY <2>2, <2>3, <2>4
<1>5. Contents'
  <2>1. Published' = Published
    BY <1>1 DEF Published
  <2>2. val'[c] \in Elem <=> pc'[c] \in Pushing \cup {"popStore"}
    <3> USE QueueAssumption DEF RingInv, TypeOK, Pushing
    <3>1. CASE \E e \in Elem : PushStart(c, e)
      BY <3>1 DEF PushStart
    <3>2. CASE PushSeq(c) \/ PushReload(c) \/ PushRetry(c)
      BY <3>2 DEF PushSeq, PushReload, PushRetry, Contents
    <3>3. CASE PushOver(c)
      BY <3>3 DEF PushOver
    <3>4. CASE PopOver(c) \/ PopFail(c)
      BY <3>4 DEF PopOver, PopFail, Contents
    <3>5. CASE PopStart(c) \/ PopSeq(c) \/ PopReload(c) \/ PopRetry(c)
      BY <3>5 DEF PopStart, PopSeq, PopReload, PopRetry, Contents
    <3> QED BY <3>1, <3>2, <3>3, <3>4, <3>5 DEF Looking
  <2>3. /\ pc'[c] \notin {"pushStore", "popRead"}
        /\ \A d \in Client \ {c} :
             pc'[d] = pc[d] /\ pos'[d] = pos[d] /\ val'[d] = val[d]
    BY LookingSteps DEF RingInv, TypeOK
  <2> QED BY <1>1, <2>1, <2>2, <2>3 DEF RingInv, Contents
<1> QED BY <1>2, <1>3, <1>4, <1>5 DEF RingInv

(* A push claims the position of the tail.  The slot is free, for its last *)
(* reader has given it to this lap.                                        *)
LEMMA PushClaimInv ==
  ASSUME RingInv, NEW c \in Client, PushClaim(c)
  PROVE  RingInv'
<1>1. /\ pc[c] = "pushCas" /\ pos[c] = tail
      /\ tail' = tail + 1
      /\ pc' = [pc EXCEPT ![c] = "pushWrite"]
      /\ UNCHANGED <<sequence, data, head, overflow, pos, val, free, history>>
  BY DEF PushClaim
<1>2. /\ head \in Nat /\ tail \in Nat /\ SIZE \in Nat /\ SIZE > 1
      /\ head <= tail /\ tail <= head + SIZE
      /\ \A d \in Client : pos[d] \in Nat
  BY SizeAssumption DEF RingInv, TypeOK, Claims
<1>3. sequence[Slot(tail)] = tail
  BY <1>1 DEF RingInv, Compared
<1>4. tail + 1 <= head + SIZE
  <2> SUFFICES ASSUME tail = head + SIZE PROVE FALSE
    BY <1>2
  <2>1. head \in head .. tail - 1
    BY <1>2
  <2>2. sequence[Slot(head)] \in {head, head + 1}
    BY <2>1 DEF RingInv, Claims
  <2> QED BY <1>2, <1>3, <2>2, SlotLap
<1>5. /\ \A d \in Client : Reading(d)' <=> Reading(d)
      /\ \A d \in Client : Writing(d)' <=> (Writing(d) \/ d = c)
      /\ ~ Accessing(c)
  BY <1>1 DEF Reading, Writing, Accessing, RingInv, TypeOK
<1>6. Claims'
  <2>1. \A p \in head .. tail :
          \/ sequence[Slot(p)] = p + 1
          \/ sequence[Slot(p)] = p /\ \E d \in Client : Writing(d)' /\ pos[d] = p
    <3> SUFFICES ASSUME NEW p \in head .. tail
                 PROVE  \/ sequence[Slot(p)] = p + 1
                        \/ sequence[Slot(p)] = p
                             /\ \E d \in Client : Writing(d)' /\ pos[d] = p
      OBVIOUS
    <3>1. CASE p = tail
      BY <1>1, <1>3, <1>5, <3>1
    <3>2. CASE p \in head .. tail - 1
      BY <1>5, <3>2 DEF RingInv, Claims
    <3> QED BY <1>2, <3>1, <3>2
  <2>2. \A p \in tail + 1 .. tail + SIZE : sequence[Slot(p)] <= p
    <3>1. sequence[Slot(tail + SIZE)] <= tail + SIZE
      BY <1>2, <1>3, SlotLap
    <3> QED BY <1>2, <3>1 DEF RingInv, Claims
  <2> QED BY <1>1, <1>2, <1>4, <2>1, <2>2 DEF Claims
<1>7. Accesses'
  <2>1. ASSUME NEW d \in Client, Reading(d)
        PROVE  tail + 1 <= pos[d] + SIZE
    <3>1. tail <= pos[d] + SIZE /\ sequence[Slot(pos[d])] = pos[d] + 1
      BY <2>1 DEF RingInv, Accesses
    <3>2. tail # pos[d] + SIZE
      BY <1>2, <1>3, <3>1, SlotLap
    <3> QED BY <1>2, <3>1, <3>2
  <2>2. \A d \in Client : Accessing(d) => pos[d] < tail
    BY <1>2 DEF RingInv, Accesses, Accessing
  <2>3. /\ \A d \in Client : Writing(d)' =>
             pos[d] \in head .. tail /\ sequence[Slot(pos[d])] = pos[d]
        /\ \A d \in Client : Reading(d)' =>
             /\ pos[d] < head /\ tail + 1 <= pos[d] + SIZE
             /\ sequence[Slot(pos[d])] = pos[d] + 1
    BY <1>1, <1>2, <1>3, <1>5, <2>1 DEF RingInv, Accesses
  <2>4. \A d, e \in Client :
          d # e /\ (Writing(d) \/ Reading(d))' /\ (Writing(e) \/ Reading(e))' =>
            pos[d] # pos[e]
    BY <1>1, <1>2, <1>5, <2>2 DEF RingInv, Accesses, Accessing
  <2> QED BY <1>1, <1>2, <2>3, <2>4 DEF Accesses
<1>8. Compared'
  BY <1>1, <1>2 DEF RingInv, TypeOK, Compared
<1>9. Contents'
  <2>1. Published' = Published
    <3>1. tail \notin Published'
      BY <1>1, <1>2, <1>3 DEF Published
    <3> QED BY <1>1, <1>2, <3>1 DEF Published
  <2> QED BY <1>1, <2>1, QueueAssumption DEF RingInv, TypeOK, Contents, Pushing
<1>10. TypeOK'
  BY <1>1, <1>2 DEF RingInv, TypeOK, PC, Pushing
<1> QED BY <1>6, <1>7, <1>8, <1>9, <1>10 DEF RingInv

LEMMA PushWriteInv ==
  ASSUME RingInv, NEW c \in Client, PushWrite(c)
  PROVE  RingInv'
<1>1. /\ pc[c] = "pushWrite"
      /\ pc' = [pc EXCEPT ![c] = "pushStore"]
      /\ data' = [data EXCEPT ![Slot(pos[c])] = val[c]]
      /\ UNCHANGED <<sequence, head, tail, overflow, pos, val, free, history>>
  BY DEF PushWrite
<1>2. /\ Slot(pos[c]) \in Slots /\ val[c] \in Elem
      /\ Writing(c) /\ Accessing(c)
  BY <1>1, Remainder DEF RingInv, TypeOK, Contents, Pushing, Writing, Accessing
<1>3. \A d \in Client : /\ Writing(d)' <=> Writing(d)
                        /\ Reading(d)' <=> Reading(d)
  BY <1>1 DEF Reading, Writing, RingInv, TypeOK
<1>4. Claims' /\ Accesses'
  BY <1>1, <1>3 DEF RingInv, Claims, Accesses
<1>5. Compared'
  BY <1>1 DEF RingInv, TypeOK, Compared
<1>6. TypeOK'
  BY <1>1, <1>2 DEF RingInv, TypeOK, PC, Pushing
<1>7. Contents'
  <2>1. Published' = Published
    BY <1>1 DEF Published
  <2>2. ASSUME NEW p \in Published PROVE data'[Slot(p)] \in Elem
    <3>1. p \in head .. tail - 1 /\ p # pos[c]
      BY <1>2 DEF Published, RingInv, TypeOK, Accesses
    <3>2. Slot(p) # Slot(pos[c])
      BY <1>2, <3>1, OtherSlot
    <3>3. data'[Slot(p)] = data[Slot(p)]
      BY <1>1, <3>1, <3>2, Remainder DEF RingInv, TypeOK
    <3> QED BY <3>3 DEF RingInv, Contents
  <2>3. ASSUME NEW d \in Client, d # c, pc[d] \in {"pushStore", "popRead"}
        PROVE  data'[Slot(pos[d])] = data[Slot(pos[d])]
    <3>1. Accessing(d)
      BY <2>3 DEF Accessing, Writing, Reading
    <3>2. Slot(pos[d]) # Slot(pos[c])
      BY <1>2, <2>3, <3>1, OwnSlot
    <3> QED BY <1>1, <3>2, Remainder DEF RingInv, TypeOK
  <2>4. data'[Slot(pos[c])] = val[c]
    BY <1>1, <1>2 DEF RingInv, TypeOK
  <2> QED BY <1>1, <1>2, <2>1, <2>2, <2>3, <2>4 DEF RingInv, TypeOK, Contents, Pushing
<1> QED BY <1>4, <1>5, <1>6, <1>7 DEF RingInv

(* A push publishes its element. *)
LEMMA PushStoreInv ==
  ASSUME RingInv, NEW c \in Client, PushStore(c)
  PROVE  RingInv'
<1>1. /\ pc[c] = "pushStore"
      /\ pc' = [pc EXCEPT ![c] = "idle"]
      /\ sequence' = [sequence EXCEPT ![Slot(pos[c])] = pos[c] + 1]
      /\ val' = [val EXCEPT ![c] = NoElem]
      /\ UNCHANGED <<data, head, tail, overflow, pos, free, history>>
  BY DEF PushStore
<1>2. /\ pos[c] \in head .. tail - 1 /\ sequence[Slot(pos[c])] = pos[c]
      /\ Slot(pos[c]) \in Slots /\ val[c] \in Elem /\ data[Slot(pos[c])] = val[c]
      /\ Writing(c) /\ Accessing(c) /\ ~ Reading(c)
  BY <1>1, Remainder
     DEF RingInv, TypeOK, Accesses, Contents, Pushing, Writing, Reading, Accessing
<1>3. /\ head \in Nat /\ tail \in Nat /\ SIZE \in Nat /\ SIZE > 1
      /\ head <= tail /\ tail <= head + SIZE
      /\ \A d \in Client : pos[d] \in Nat
  BY SizeAssumption DEF RingInv, TypeOK, Claims
<1>4. /\ sequence'[Slot(pos[c])] = pos[c] + 1
      /\ \A p \in Nat : Slot(p) # Slot(pos[c]) => sequence'[Slot(p)] = sequence[Slot(p)]
  BY <1>1, <1>2, Remainder DEF RingInv, TypeOK
<1>5. \A d \in Client : /\ Writing(d)' <=> Writing(d) /\ d # c
                        /\ Reading(d)' <=> Reading(d)
  BY <1>1, <1>2 DEF Reading, Writing, RingInv, TypeOK
<1>6. Claims'
  <2>1. ASSUME NEW p \in head .. tail - 1
        PROVE  \/ sequence'[Slot(p)] = p + 1
               \/ /\ sequence'[Slot(p)] = p
                  /\ \E d \in Client : Writing(d)' /\ pos[d] = p
    <3>1. CASE p = pos[c]
      BY <1>4, <3>1
    <3>2. CASE p # pos[c]
      <4>1. sequence'[Slot(p)] = sequence[Slot(p)]
        BY <1>2, <1>3, <1>4, <3>2, OtherSlot
      <4> QED BY <1>5, <3>2, <4>1 DEF RingInv, Claims
    <3> QED BY <3>1, <3>2
  <2>2. ASSUME NEW p \in tail .. tail + SIZE - 1
        PROVE  sequence'[Slot(p)] <= p
    <3>1. CASE Slot(p) = Slot(pos[c])
      BY <1>2, <1>3, <1>4, <3>1
    <3>2. CASE Slot(p) # Slot(pos[c])
      BY <1>3, <1>4, <3>2 DEF RingInv, Claims
    <3> QED BY <3>1, <3>2
  <2> QED BY <1>1, <1>3, <2>1, <2>2 DEF Claims
<1>7. Accesses'
  <2>1. ASSUME NEW d \in Client, d # c, Accessing(d)
        PROVE  sequence'[Slot(pos[d])] = sequence[Slot(pos[d])]
    BY <1>2, <1>3, <1>4, <2>1, OwnSlot
  <2>2. \A d \in Client : (Writing(d) \/ Reading(d))' => d # c /\ Accessing(d)
    BY <1>2, <1>5 DEF Accessing
  <2> QED BY <1>1, <1>5, <2>1, <2>2 DEF RingInv, Accesses, Accessing
<1>8. Compared'
  <2>1. ASSUME NEW p \in {head, tail}, sequence[Slot(p)] \in {p, p + 1},
               p = tail => sequence[Slot(p)] = p,
               p = head /\ p # tail => sequence[Slot(p)] = p + 1
        PROVE  sequence'[Slot(p)] = sequence[Slot(p)]
    <3>1. CASE p = tail
      BY <1>2, <1>3, <1>4, <2>1, <3>1
    <3>2. CASE p = head /\ p # tail
      <4>1. p # pos[c]
        BY <1>2, <1>3, <2>1, <3>2
      <4>2. p \in head .. tail - 1
        BY <1>3, <3>2
      <4> QED BY <1>2, <1>3, <1>4, <4>1, <4>2, OtherSlot
    <3> QED BY <3>1, <3>2
  <2>2. \A p \in Nat : /\ sequence'[Slot(p)] >= sequence[Slot(p)]
                       /\ sequence[Slot(p)] \in Nat /\ sequence'[Slot(p)] \in Nat
    BY <1>2, <1>3, <1>4, SequenceNat DEF RingInv
  <2>3. \A d \in Client : pc'[d] # pc[d] => d = c /\ pc'[d] = "idle"
    BY <1>1 DEF RingInv, TypeOK
  <2>4. \A d \in Client : pc'[d] = "popSeq" /\ pos[d] < head =>
          sequence'[Slot(pos[d])] > pos[d]
    BY <1>3, <2>2, <2>3, SequenceNat DEF RingInv, Compared
  <2> QED BY <1>1, <1>3, <2>1, <2>3, <2>4 DEF RingInv, TypeOK, Compared
<1>9. Contents'
  <2>1. ASSUME NEW p \in Published' PROVE data'[Slot(p)] \in Elem
    <3>1. CASE p = pos[c]
      BY <1>1, <1>2, <3>1
    <3>2. CASE p # pos[c]
      <4>1. p \in head .. tail - 1 /\ sequence'[Slot(p)] = p + 1
        BY <1>1 DEF Published
      <4>2. p \in Published
        BY <1>2, <1>3, <1>4, <3>2, <4>1, OtherSlot DEF Published
      <4> QED BY <1>1, <4>2 DEF RingInv, Contents
    <3> QED BY <3>1, <3>2
  <2> QED BY <1>1, <2>1, QueueAssumption DEF RingInv, TypeOK, Contents, Pushing
<1>10. TypeOK'
  BY <1>1, <1>2, <1>3 DEF RingInv, TypeOK, PC
<1> QED BY <1>6, <1>7, <1>8, <1>9, <1>10 DEF RingInv

(* A pop takes the element at the head, which is published. *)
LEMMA PopClaimInv ==
  ASSUME RingInv, NEW c \in Client, PopClaim(c)
  PROVE  RingInv'
<1>1. /\ pc[c] = "popCas" /\ pos[c] = head
      /\ head' = head + 1
      /\ pc' = [pc EXCEPT ![c] = "popRead"]
      /\ UNCHANGED <<sequence, data, tail, overflow, pos, val, free>>
  BY DEF PopClaim
<1>2. /\ head < tail /\ sequence[Slot(head)] = head + 1
      /\ head \in Nat /\ tail \in Nat /\ SIZE \in Nat /\ SIZE > 1
      /\ tail <= head + SIZE
      /\ \A d \in Client : pos[d] \in Nat
  BY <1>1, SizeAssumption DEF RingInv, TypeOK, Claims, Compared
<1>3. head \in Published /\ Published' = Published \ {head}
  BY <1>1, <1>2 DEF Published
<1>4. /\ \A d \in Client : Writing(d)' <=> Writing(d)
      /\ \A d \in Client : Reading(d)' <=> (Reading(d) \/ d = c)
      /\ ~ Accessing(c)
  BY <1>1 DEF Reading, Writing, Accessing, RingInv, TypeOK
<1>5. Claims'
  BY <1>1, <1>2, <1>4 DEF RingInv, Claims
<1>6. Accesses'
  <2>1. ASSUME NEW d \in Client, Writing(d)
        PROVE  pos[d] \in head + 1 .. tail - 1
    <3>1. pos[d] \in head .. tail - 1 /\ sequence[Slot(pos[d])] = pos[d]
      BY <2>1 DEF RingInv, Accesses
    <3>2. pos[d] # head
      BY <1>2, <3>1
    <3> QED BY <1>2, <3>1, <3>2
  <2>2. \A d \in Client : Accessing(d) => pos[d] # head
    BY <1>2, <2>1 DEF RingInv, Accesses, Accessing
  <2>3. /\ \A d \in Client : Writing(d)' =>
             pos[d] \in head + 1 .. tail - 1 /\ sequence[Slot(pos[d])] = pos[d]
        /\ \A d \in Client : Reading(d)' =>
             /\ pos[d] < head + 1 /\ tail <= pos[d] + SIZE
             /\ sequence[Slot(pos[d])] = pos[d] + 1
    BY <1>1, <1>2, <1>4, <2>1 DEF RingInv, Accesses
  <2>4. \A d, e \in Client :
          d # e /\ (Writing(d) \/ Reading(d))' /\ (Writing(e) \/ Reading(e))' =>
            pos[d] # pos[e]
    BY <1>1, <1>4, <2>2 DEF RingInv, Accesses, Accessing
  <2> QED BY <1>1, <2>3, <2>4 DEF Accesses
<1>7. Compared'
  BY <1>1, <1>2 DEF RingInv, TypeOK, Compared
<1>8. Contents'
  BY <1>1, <1>3 DEF RingInv, TypeOK, Contents, Pushing
<1>9. TypeOK'
  <2>1. must' \in [Client -> SUBSET Elem] /\ blocked' \in [Client -> BOOLEAN]
    BY DEF PopClaim, PopEnd, RingInv, TypeOK
  <2>2. pc' \in [Client -> PC] /\ head' \in Nat
    BY <1>1, <1>2 DEF RingInv, TypeOK, PC
  <2> QED BY <1>1, <2>1, <2>2 DEF RingInv, TypeOK
<1> QED BY <1>5, <1>6, <1>7, <1>8, <1>9 DEF RingInv

LEMMA PopReadInv ==
  ASSUME RingInv, NEW c \in Client, PopRead(c)
  PROVE  RingInv'
<1>1. /\ pc[c] = "popRead"
      /\ pc' = [pc EXCEPT ![c] = "popStore"]
      /\ val' = [val EXCEPT ![c] = data[Slot(pos[c])]]
      /\ UNCHANGED <<sequence, data, head, tail, overflow, pos, free, history>>
  BY DEF PopRead
<1>2. data[Slot(pos[c])] \in Elem
  BY <1>1 DEF RingInv, Contents
<1>3. \A d \in Client : /\ Writing(d)' <=> Writing(d)
                        /\ Reading(d)' <=> Reading(d)
  BY <1>1 DEF Reading, Writing, RingInv, TypeOK
<1>4. Claims' /\ Accesses'
  BY <1>1, <1>3 DEF RingInv, Claims, Accesses
<1>5. Compared'
  BY <1>1 DEF RingInv, TypeOK, Compared
<1>6. Contents'
  <2>1. Published' = Published
    BY <1>1 DEF Published
  <2> QED BY <1>1, <1>2, <2>1 DEF RingInv, TypeOK, Contents, Pushing
<1>7. TypeOK'
  BY <1>1, <1>2 DEF RingInv, TypeOK, PC
<1> QED BY <1>4, <1>5, <1>6, <1>7 DEF RingInv

(* A pop gives its slot to the next lap. *)
LEMMA PopStoreInv ==
  ASSUME RingInv, NEW c \in Client, PopStore(c)
  PROVE  RingInv'
<1>1. /\ pc[c] = "popStore"
      /\ pc' = [pc EXCEPT ![c] = "idle"]
      /\ sequence' = [sequence EXCEPT ![Slot(pos[c])] = pos[c] + SIZE]
      /\ free' = free \cup {val[c]}
      /\ val' = [val EXCEPT ![c] = NoElem]
      /\ UNCHANGED <<data, head, tail, overflow, pos, history>>
  BY DEF PopStore
<1>2. /\ pos[c] < head /\ tail <= pos[c] + SIZE
      /\ sequence[Slot(pos[c])] = pos[c] + 1
      /\ Slot(pos[c]) \in Slots /\ val[c] \in Elem
      /\ Reading(c) /\ Accessing(c) /\ ~ Writing(c)
  BY <1>1, Remainder
     DEF RingInv, TypeOK, Accesses, Contents, Writing, Reading, Accessing
<1>3. /\ head \in Nat /\ tail \in Nat /\ SIZE \in Nat /\ SIZE > 1
      /\ head <= tail
      /\ \A d \in Client : pos[d] \in Nat
  BY SizeAssumption DEF RingInv, TypeOK, Claims
<1>4. /\ sequence'[Slot(pos[c])] = pos[c] + SIZE
      /\ \A p \in Nat : Slot(p) # Slot(pos[c]) => sequence'[Slot(p)] = sequence[Slot(p)]
  BY <1>1, <1>2, Remainder DEF RingInv, TypeOK
<1>5. \A d \in Client : /\ Writing(d)' <=> Writing(d)
                        /\ Reading(d)' <=> Reading(d) /\ d # c
  BY <1>1, <1>2 DEF Reading, Writing, RingInv, TypeOK
<1>6. \A p \in head .. tail - 1 : sequence'[Slot(p)] = sequence[Slot(p)]
  BY <1>2, <1>3, <1>4, OtherSlot
<1>7. Claims'
  <2>1. ASSUME NEW p \in tail .. tail + SIZE - 1
        PROVE  sequence'[Slot(p)] <= p
    <3>1. CASE Slot(p) = Slot(pos[c])
      <4>1. p >= pos[c] + SIZE
        BY <1>2, <1>3, <3>1, SlotDistinct
      <4> QED BY <1>4, <3>1, <4>1
    <3>2. CASE Slot(p) # Slot(pos[c])
      BY <1>3, <1>4, <3>2 DEF RingInv, Claims
    <3> QED BY <3>1, <3>2
  <2> QED BY <1>1, <1>3, <1>5, <1>6, <2>1 DEF RingInv, Claims
<1>8. Accesses'
  <2>1. ASSUME NEW d \in Client, d # c, Accessing(d)
        PROVE  sequence'[Slot(pos[d])] = sequence[Slot(pos[d])]
    BY <1>2, <1>3, <1>4, <2>1, OwnSlot
  <2>2. \A d \in Client : (Writing(d) \/ Reading(d))' => d # c /\ Accessing(d)
    BY <1>2, <1>5 DEF Accessing
  <2> QED BY <1>1, <1>5, <2>1, <2>2 DEF RingInv, Accesses, Accessing
<1>9. Compared'
  <2>1. ASSUME sequence[Slot(tail)] = tail
        PROVE  sequence'[Slot(tail)] = tail
    <3>1. CASE Slot(tail) = Slot(pos[c])
      <4>1. tail = pos[c] + 1
        BY <1>2, <2>1, <3>1
      <4> QED BY <1>3, <3>1, <4>1, SlotDistinct
    <3> QED BY <1>3, <1>4, <2>1, <3>1
  <2>2. \A p \in Nat : /\ sequence'[Slot(p)] >= sequence[Slot(p)]
                       /\ sequence[Slot(p)] \in Nat /\ sequence'[Slot(p)] \in Nat
    BY <1>2, <1>3, <1>4, SequenceNat DEF RingInv
  <2>3. \A d \in Client : pc'[d] # pc[d] => d = c /\ pc'[d] = "idle"
    BY <1>1 DEF RingInv, TypeOK
  <2>4. \A d \in Client : pc'[d] = "popSeq" /\ pos[d] < head =>
          sequence'[Slot(pos[d])] > pos[d]
    BY <1>3, <2>2, <2>3, SequenceNat DEF RingInv, Compared
  <2> QED BY <1>1, <1>3, <1>6, <2>1, <2>3, <2>4 DEF RingInv, TypeOK, Compared
<1>10. Contents'
  <2>1. Published' = Published
    BY <1>1, <1>6 DEF Published
  <2> QED BY <1>1, <2>1, QueueAssumption DEF RingInv, TypeOK, Contents, Pushing
<1>11. TypeOK'
  BY <1>1, <1>2, <1>3 DEF RingInv, TypeOK, PC
<1> QED BY <1>7, <1>8, <1>9, <1>10, <1>11 DEF RingInv

-----------------------------------------------------------------------------
LEMMA RingInit ==
  ASSUME Init
  PROVE  RingInv
<1>1. TypeOK
  BY SizeAssumption DEF Init, TypeOK, PC, Slots
<1>2. Claims
  <2>1. ASSUME NEW p \in 0 .. SIZE - 1 PROVE sequence[Slot(p)] <= p
    <3>1. sequence[Slot(p)] = Slot(p)
      BY SizeAssumption, Remainder DEF Init
    <3>2. Slot(p) = p
      BY SizeAssumption DEF Slot
    <3> QED BY <3>1, <3>2, SizeAssumption
  <2> QED BY <2>1, SizeAssumption DEF Init, Claims
<1>3. Accesses /\ Compared /\ Contents
  BY QueueAssumption
     DEF Init, Accesses, Compared, Contents, Published, Writing, Reading, Pushing
<1> QED BY <1>1, <1>2, <1>3 DEF RingInv

LEMMA RingStep ==
  ASSUME RingInv, [Next]_vars
  PROVE  RingInv'
<1>1. ASSUME NEW c \in Client, Push(c) \/ Pop(c)
      PROVE  RingInv'
  <2>1. CASE Looking(c)
    BY <2>1, LookingInv
  <2>2. CASE ~ Looking(c)
    BY <1>1, <2>2, PushClaimInv, PushWriteInv, PushStoreInv, PopClaimInv,
       PopReadInv, PopStoreInv DEF Push, Pop, Looking
  <2> QED BY <2>1, <2>2
<1>2. CASE UNCHANGED vars
  BY <1>2 DEF vars, RingInv, TypeOK, Claims, Accesses, Compared, Contents,
     Published, Writing, Reading
<1> QED BY <1>1, <1>2 DEF Next

(* The invariant holds in every reachable state. *)
THEOREM RingInvariance == Spec => []RingInv
BY RingInit, RingStep, PTL DEF Spec

(* No thread writes the element of a slot while another one writes or      *)
(* reads it.                                                               *)
THEOREM RaceFreedom == Spec => []NoDataRace
<1>1. RingInv => NoDataRace
  BY OwnSlot DEF NoDataRace, Accessing, Writing, Reading
<1> QED BY <1>1, RingInvariance, PTL

-----------------------------------------------------------------------------
(* The overflow list as a set *)

Injective(s) == \A i, j \in DOMAIN s : s[i] = s[j] => i = j

LEMMA OverflowAppend ==
  ASSUME NEW s \in Seq(Elem), NEW e \in Elem
  PROVE  /\ ToSet(Append(s, e)) = ToSet(s) \cup {e}
         /\ Injective(s) /\ e \notin ToSet(s) => Injective(Append(s, e))
<1>1. /\ DOMAIN Append(s, e) = 1 .. Len(s) + 1 /\ DOMAIN s = 1 .. Len(s)
      /\ \A i \in 1 .. Len(s) : Append(s, e)[i] = s[i]
      /\ Append(s, e)[Len(s) + 1] = e
      /\ Len(s) \in Nat
  OBVIOUS
<1> QED BY <1>1 DEF ToSet, Injective

LEMMA OverflowTail ==
  ASSUME NEW s \in Seq(Elem), s # <<>>, Injective(s)
  PROVE  /\ Head(s) \in ToSet(s)
         /\ ToSet(Tail(s)) = ToSet(s) \ {Head(s)}
         /\ Injective(Tail(s))
<1>1. /\ DOMAIN s = 1 .. Len(s) /\ Len(s) \in Nat /\ Len(s) >= 1
      /\ DOMAIN Tail(s) = 1 .. Len(s) - 1
      /\ \A i \in 1 .. Len(s) - 1 : Tail(s)[i] = s[i + 1]
      /\ Head(s) = s[1]
  OBVIOUS
<1>2. Head(s) \in ToSet(s)
  BY <1>1 DEF ToSet
<1>3. ASSUME NEW x \in ToSet(s), x # Head(s)
      PROVE  x \in ToSet(Tail(s))
  <2>1. PICK i \in 1 .. Len(s) : s[i] = x
    BY <1>1 DEF ToSet
  <2>2. i - 1 \in 1 .. Len(s) - 1 /\ Tail(s)[i - 1] = x
    BY <1>1, <1>3, <2>1
  <2> QED BY <1>1, <2>2 DEF ToSet
<1>4. ASSUME NEW x \in ToSet(Tail(s))
      PROVE  x \in ToSet(s) /\ x # Head(s)
  <2>1. PICK i \in 1 .. Len(s) - 1 : Tail(s)[i] = x
    BY <1>1 DEF ToSet
  <2>2. i + 1 \in 1 .. Len(s) /\ s[i + 1] = x
    BY <1>1, <2>1
  <2> QED BY <1>1, <2>2 DEF ToSet, Injective
<1>5. Injective(Tail(s))
  <2> SUFFICES ASSUME NEW i \in 1 .. Len(s) - 1, NEW j \in 1 .. Len(s) - 1,
                      Tail(s)[i] = Tail(s)[j]
               PROVE  i = j
    BY <1>1 DEF Injective
  <2>1. s[i + 1] = s[j + 1] /\ i + 1 \in DOMAIN s /\ j + 1 \in DOMAIN s
    BY <1>1
  <2> QED BY <2>1 DEF Injective
<1> QED BY <1>2, <1>3, <1>4, <1>5

-----------------------------------------------------------------------------
(* Every element stays in one place, or moves to another one *)

LEMMA OccupiedSlot ==
  ASSUME RingInv, NEW c \in Client, Accessing(c), NEW p \in Occupied, p # pos[c]
  PROVE  Slot(p) # Slot(pos[c])
<1>1. CASE p \in Published
  BY <1>1, OtherSlot DEF Published
<1>2. CASE \E d \in Client : pc[d] = "popRead" /\ p = pos[d]
  <2>1. PICK d \in Client : pc[d] = "popRead" /\ p = pos[d]
    BY <1>2
  <2> QED BY <2>1, OwnSlot DEF Accessing, Reading
<1> QED BY <1>1, <1>2 DEF Occupied

LEMMA OccupiedNat ==
  ASSUME RingInv, NEW p \in Occupied
  PROVE  p \in Nat /\ Slot(p) \in Slots /\ data[Slot(p)] \in Elem
<1>1. p \in Nat
  BY DEF RingInv, TypeOK, Occupied, Published
<1> QED BY <1>1, Remainder DEF RingInv, Contents, Occupied

(* The steps that move no element. *)
LEMMA StayingOnce ==
  ASSUME RingInv, ExactlyOnce, UNCHANGED <<free, overflow, val>>,
         Occupied' = Occupied,
         \A p \in Occupied : data'[Slot(p)] = data[Slot(p)]
  PROVE  ExactlyOnce'
BY DEF ExactlyOnce

LEMMA PushStartOnce ==
  ASSUME RingInv, ExactlyOnce, NEW c \in Client, NEW e \in Elem, PushStart(c, e)
  PROVE  ExactlyOnce'
<1>1. /\ pc[c] = "idle" /\ e \in free /\ free' = free \ {e}
      /\ val' = [val EXCEPT ![c] = e]
      /\ pc' = [pc EXCEPT ![c] = "pushSeq"]
      /\ \A d \in Client \ {c} : pos'[d] = pos[d]
      /\ UNCHANGED <<sequence, data, head, tail, overflow>>
  BY DEF PushStart, RingInv, TypeOK
<1>2. val[c] = NoElem /\ NoElem \notin Elem
  BY <1>1, QueueAssumption DEF RingInv, TypeOK, Contents, Pushing
<1>3. Occupied' = Occupied
  BY <1>1 DEF Occupied, Published, RingInv, TypeOK
<1>4. /\ val'[c] = e /\ \A d \in Client \ {c} : val'[d] = val[d]
  BY <1>1 DEF RingInv, TypeOK
<1>5. \A p \in Occupied : data[Slot(p)] # NoElem
  BY <1>2, OccupiedNat
<1> QED BY <1>1, <1>2, <1>3, <1>4, <1>5 DEF ExactlyOnce

LEMMA PushOverOnce ==
  ASSUME RingInv, ExactlyOnce, NEW c \in Client, PushOver(c)
  PROVE  ExactlyOnce'
<1>1. /\ pc[c] = "pushOver"
      /\ overflow' = Append(overflow, val[c])
      /\ val' = [val EXCEPT ![c] = NoElem]
      /\ pc' = [pc EXCEPT ![c] = "idle"]
      /\ UNCHANGED <<sequence, data, head, tail, pos, free>>
  BY DEF PushOver
<1>2. val[c] \in Elem /\ NoElem \notin Elem
  BY <1>1, QueueAssumption DEF RingInv, TypeOK, Contents, Pushing
<1>3. Occupied' = Occupied
  BY <1>1 DEF Occupied, Published, RingInv, TypeOK
<1>4. /\ val'[c] = NoElem /\ \A d \in Client \ {c} : val'[d] = val[d]
  BY <1>1 DEF RingInv, TypeOK
<1>5. \A p \in Occupied : data[Slot(p)] # NoElem
  BY <1>2, OccupiedNat
<1>6. /\ ToSet(overflow') = ToSet(overflow) \cup {val[c]}
      /\ Injective(overflow')
      /\ ToSet(overflow') \subseteq Elem
  <2>1. val[c] \notin ToSet(overflow) /\ Injective(overflow) /\ overflow \in Seq(Elem)
    BY DEF ExactlyOnce, Injective, RingInv, TypeOK
  <2>2. ToSet(overflow) \subseteq Elem
    BY <2>1 DEF ToSet
  <2> QED BY <1>1, <1>2, <2>1, <2>2, OverflowAppend
<1>7. free \subseteq Elem
  BY DEF RingInv, TypeOK
<1> QED BY <1>1, <1>2, <1>3, <1>4, <1>5, <1>6, <1>7 DEF ExactlyOnce, Injective

LEMMA PopOverOnce ==
  ASSUME RingInv, ExactlyOnce, NEW c \in Client, PopOver(c)
  PROVE  ExactlyOnce'
<1>1. /\ pc[c] = "popOver" /\ overflow # <<>>
      /\ overflow' = Tail(overflow)
      /\ free' = free \cup {Head(overflow)}
      /\ pc' = [pc EXCEPT ![c] = "idle"]
      /\ UNCHANGED <<sequence, data, head, tail, pos, val>>
  BY DEF PopOver
<1>2. Occupied' = Occupied
  BY <1>1 DEF Occupied, Published, RingInv, TypeOK
<1>3. /\ Head(overflow) \in ToSet(overflow)
      /\ ToSet(overflow') = ToSet(overflow) \ {Head(overflow)}
      /\ Injective(overflow')
  BY <1>1, OverflowTail DEF ExactlyOnce, Injective, RingInv, TypeOK
<1> QED BY <1>1, <1>2, <1>3 DEF ExactlyOnce, Injective

LEMMA PushWriteOnce ==
  ASSUME RingInv, ExactlyOnce, NEW c \in Client, PushWrite(c)
  PROVE  ExactlyOnce'
<1>1. /\ pc[c] = "pushWrite"
      /\ data' = [data EXCEPT ![Slot(pos[c])] = val[c]]
      /\ pc' = [pc EXCEPT ![c] = "pushStore"]
      /\ UNCHANGED <<sequence, head, tail, overflow, pos, val, free>>
  BY DEF PushWrite
<1>2. Occupied' = Occupied
  BY <1>1 DEF Occupied, Published, RingInv, TypeOK
<1>3. Accessing(c) /\ pos[c] \notin Occupied
  BY <1>1 DEF Occupied, Published, Accessing, Writing, Reading, RingInv, TypeOK,
     Accesses
<1>4. \A p \in Occupied : data'[Slot(p)] = data[Slot(p)]
  BY <1>1, <1>3, OccupiedSlot, OccupiedNat DEF RingInv, TypeOK
<1> QED BY <1>1, <1>2, <1>4, StayingOnce

LEMMA PushStorePublished ==
  ASSUME RingInv, NEW c \in Client, PushStore(c)
  PROVE  Published' = Published \cup {pos[c]}
<1>1. /\ pc[c] = "pushStore"
      /\ sequence' = [sequence EXCEPT ![Slot(pos[c])] = pos[c] + 1]
      /\ UNCHANGED <<head, tail>>
  BY DEF PushStore
<1>2. /\ Accessing(c) /\ pos[c] \in head .. tail - 1
      /\ pos[c] \in Nat /\ head \in Nat /\ tail \in Nat
      /\ Slot(pos[c]) \in Slots
  BY <1>1, Remainder DEF RingInv, TypeOK, Accesses, Accessing, Writing
<1>3. sequence'[Slot(pos[c])] = pos[c] + 1
  BY <1>1, <1>2 DEF RingInv, TypeOK
<1>4. ASSUME NEW p \in head .. tail - 1, p # pos[c]
      PROVE  sequence'[Slot(p)] = sequence[Slot(p)]
  <2>1. Slot(p) # Slot(pos[c])
    BY <1>2, <1>4, OtherSlot
  <2> QED BY <1>1, <2>1 DEF RingInv, TypeOK
<1> QED BY <1>1, <1>2, <1>3, <1>4 DEF Published

LEMMA PushStoreOnce ==
  ASSUME RingInv, ExactlyOnce, NEW c \in Client, PushStore(c)
  PROVE  ExactlyOnce'
<1>1. /\ pc[c] = "pushStore"
      /\ sequence' = [sequence EXCEPT ![Slot(pos[c])] = pos[c] + 1]
      /\ val' = [val EXCEPT ![c] = NoElem]
      /\ pc' = [pc EXCEPT ![c] = "idle"]
      /\ UNCHANGED <<data, head, tail, overflow, pos, free>>
  BY DEF PushStore
<1>2. val[c] \in Elem /\ NoElem \notin Elem /\ data[Slot(pos[c])] = val[c]
  BY <1>1, QueueAssumption DEF RingInv, TypeOK, Contents, Pushing
<1>3. Published' = Published \cup {pos[c]}
  BY PushStorePublished
<1>4. Occupied' = Occupied \cup {pos[c]}
  BY <1>1, <1>3 DEF Occupied, RingInv, TypeOK
<1>5. /\ val'[c] = NoElem /\ \A d \in Client \ {c} : val'[d] = val[d]
  BY <1>1 DEF RingInv, TypeOK
<1>6. \A p \in Occupied : data[Slot(p)] # NoElem
  BY <1>2, OccupiedNat
<1>7. free \subseteq Elem /\ ToSet(overflow) \subseteq Elem
  BY DEF RingInv, TypeOK, ToSet
<1> QED BY <1>1, <1>2, <1>4, <1>5, <1>6, <1>7 DEF ExactlyOnce

LEMMA PopClaimOccupied ==
  ASSUME RingInv, NEW c \in Client, PopClaim(c)
  PROVE  /\ Occupied' = Occupied
         /\ head \in Published /\ Published' = Published \ {head}
<1>1. /\ pc[c] = "popCas" /\ pos[c] = head /\ head' = head + 1
      /\ pc' = [pc EXCEPT ![c] = "popRead"]
      /\ UNCHANGED <<sequence, tail, pos>>
  BY DEF PopClaim
<1>2. head \in Published /\ Published' = Published \ {head}
  BY <1>1 DEF Published, RingInv, TypeOK, Compared
<1> QED BY <1>1, <1>2 DEF Occupied, RingInv, TypeOK

LEMMA PopReadOnce ==
  ASSUME RingInv, ExactlyOnce, NEW c \in Client, PopRead(c)
  PROVE  ExactlyOnce'
<1>1. /\ pc[c] = "popRead"
      /\ val' = [val EXCEPT ![c] = data[Slot(pos[c])]]
      /\ pc' = [pc EXCEPT ![c] = "popStore"]
      /\ UNCHANGED <<sequence, data, head, tail, overflow, pos, free>>
  BY DEF PopRead
<1>2. val[c] = NoElem /\ NoElem \notin Elem
  BY <1>1, QueueAssumption DEF RingInv, TypeOK, Contents, Pushing
<1>3. pos[c] \in Occupied /\ Occupied' = Occupied \ {pos[c]}
  <2>1. pos[c] \notin Published
    BY <1>1 DEF Published, RingInv, TypeOK, Accesses, Reading
  <2>2. \A d \in Client \ {c} : pc[d] = "popRead" => pos[d] # pos[c]
    BY <1>1 DEF RingInv, Accesses, Reading
  <2>3. Published' = Published
    BY <1>1 DEF Published
  <2> QED BY <1>1, <2>1, <2>2, <2>3 DEF Occupied, RingInv, TypeOK
<1>4. /\ val'[c] = data[Slot(pos[c])] /\ \A d \in Client \ {c} : val'[d] = val[d]
  BY <1>1 DEF RingInv, TypeOK
<1> QED BY <1>1, <1>2, <1>3, <1>4 DEF ExactlyOnce

LEMMA PopStorePublished ==
  ASSUME RingInv, NEW c \in Client, PopStore(c)
  PROVE  Published' = Published
<1>1. /\ pc[c] = "popStore"
      /\ sequence' = [sequence EXCEPT ![Slot(pos[c])] = pos[c] + SIZE]
      /\ UNCHANGED <<head, tail>>
  BY DEF PopStore
<1>2. Accessing(c) /\ pos[c] < head /\ pos[c] \in Nat /\ head \in Nat /\ tail \in Nat
  BY <1>1 DEF RingInv, TypeOK, Accesses, Accessing, Reading
<1>3. ASSUME NEW p \in head .. tail - 1
      PROVE  sequence'[Slot(p)] = sequence[Slot(p)]
  <2>1. Slot(p) # Slot(pos[c])
    BY <1>2, <1>3, OtherSlot
  <2> QED BY <1>1, <2>1 DEF RingInv, TypeOK
<1> QED BY <1>1, <1>3 DEF Published

LEMMA PopStoreOnce ==
  ASSUME RingInv, ExactlyOnce, NEW c \in Client, PopStore(c)
  PROVE  ExactlyOnce'
<1>1. /\ pc[c] = "popStore"
      /\ free' = free \cup {val[c]}
      /\ val' = [val EXCEPT ![c] = NoElem]
      /\ pc' = [pc EXCEPT ![c] = "idle"]
      /\ UNCHANGED <<data, overflow, pos>>
  BY DEF PopStore
<1>2. val[c] \in Elem /\ NoElem \notin Elem
  BY <1>1, QueueAssumption DEF RingInv, TypeOK, Contents
<1>3. Occupied' = Occupied
  BY <1>1, PopStorePublished DEF Occupied, RingInv, TypeOK
<1>4. /\ val'[c] = NoElem /\ \A d \in Client \ {c} : val'[d] = val[d]
  BY <1>1 DEF RingInv, TypeOK
<1>5. \A p \in Occupied : data[Slot(p)] # NoElem
  BY <1>2, OccupiedNat
<1>6. free \subseteq Elem /\ ToSet(overflow) \subseteq Elem
  BY DEF RingInv, TypeOK, ToSet
<1> QED BY <1>1, <1>2, <1>3, <1>4, <1>5, <1>6 DEF ExactlyOnce

-----------------------------------------------------------------------------
(* What each step does to the queue of WeakQueue *)

(* An element that is being pushed has not been published. *)
LEMMA PushedNotReady ==
  ASSUME RingInv, ExactlyOnce, NEW c \in Client, val[c] \in Elem
  PROVE  val[c] \notin Ready
BY DEF Ready, ExactlyOnce, Occupied

(* The steps that the queue of WeakQueue does not see. *)
LEMMA HiddenStep ==
  ASSUME PopInv, TypeOK, TypeOK',
         Published' = Published, overflow' = overflow,
         \A p \in Published : data'[Slot(p)] = data[Slot(p)],
         \A d \in Client : /\ Writing(d)' <=> Writing(d)
                           /\ Writing(d) => val'[d] = val[d]
                           /\ pc'[d] \in Popping <=> pc[d] \in Popping
                           /\ pc'[d] = "popOver" <=> pc[d] = "popOver",
         UNCHANGED history
  PROVE  PopInv' /\ UNCHANGED Abs!qvars
<1>1. Ready' = Ready
  BY DEF Ready
<1>2. Status' = Status
  <2>1. \A e \in Elem : Claimed(e)' <=> Claimed(e)
    BY DEF Claimed
  <2> QED BY <1>1, <2>1 DEF Status
<1>3. On' = On
  BY DEF On
<1>4. PopInv'
  BY <1>1 DEF PopInv
<1> QED BY <1>2, <1>3, <1>4 DEF Abs!qvars

LEMMA PushClaimStep ==
  ASSUME QueueInv, RingInv', NEW c \in Client, PushClaim(c)
  PROVE  PopInv' /\ Abs!PushClaim(val[c])
<1>1. /\ pc[c] = "pushCas" /\ pos[c] = tail /\ tail' = tail + 1
      /\ pc' = [pc EXCEPT ![c] = "pushWrite"]
      /\ UNCHANGED <<sequence, data, head, overflow, pos, val, free, history>>
  BY DEF PushClaim
<1>2. val[c] \in Elem
  BY <1>1 DEF QueueInv, RingInv, Contents, Pushing
<1>3. Published' = Published
  <2>1. tail \notin Published'
    BY <1>1 DEF Published, QueueInv, RingInv, TypeOK, Compared
  <2> QED BY <1>1, <2>1 DEF Published, QueueInv, RingInv, TypeOK, Claims
<1>4. Ready' = Ready
  BY <1>1, <1>3 DEF Ready
<1>5. \A e \in Elem : Claimed(e)' <=> (Claimed(e) \/ e = val[c])
  BY <1>1 DEF Claimed, Writing, QueueInv, RingInv, TypeOK
<1>6. val[c] \notin Ready /\ ~ Claimed(val[c])
  <2>1. ~ Claimed(val[c])
    BY <1>1, <1>2, QueueAssumption DEF Claimed, Writing, QueueInv, ExactlyOnce
  <2> QED BY <1>2, <2>1, PushedNotReady DEF QueueInv
<1>7. Status[val[c]] = "out" /\ Status' = [Status EXCEPT ![val[c]] = "claimed"]
  BY <1>2, <1>4, <1>5, <1>6 DEF Status
<1>8. On' = On
  BY <1>1 DEF On, Popping, QueueInv, RingInv, TypeOK
<1>9. PopInv'
  BY <1>1, <1>4 DEF PopInv, QueueInv, RingInv, TypeOK
<1> QED BY <1>1, <1>7, <1>8, <1>9 DEF Abs!PushClaim, Abs!popVars

LEMMA PushStoreStep ==
  ASSUME QueueInv, RingInv', NEW c \in Client, PushStore(c)
  PROVE  PopInv' /\ Abs!PushPublish(val[c])
<1>1. /\ pc[c] = "pushStore" /\ Writing(c)
      /\ val' = [val EXCEPT ![c] = NoElem]
      /\ pc' = [pc EXCEPT ![c] = "idle"]
      /\ UNCHANGED <<data, head, tail, overflow, pos, free, history>>
  BY DEF PushStore, Writing
<1>2. val[c] \in Elem /\ NoElem \notin Elem /\ data[Slot(pos[c])] = val[c]
  BY <1>1, QueueAssumption DEF QueueInv, RingInv, TypeOK, Contents, Pushing
<1>3. Published' = Published \cup {pos[c]}
  BY PushStorePublished DEF QueueInv
<1>4. Ready' = Ready \cup {val[c]}
  BY <1>1, <1>2, <1>3 DEF Ready
<1>5. \A e \in Elem : Claimed(e)' <=> (Claimed(e) /\ e # val[c])
  BY <1>1, <1>2 DEF Claimed, Writing, QueueInv, RingInv, TypeOK, ExactlyOnce
<1>6. Claimed(val[c]) /\ val[c] \notin Ready
  BY <1>1, <1>2, PushedNotReady DEF Claimed, QueueInv
<1>7. Status[val[c]] = "claimed" /\ Status' = [Status EXCEPT ![val[c]] = "ready"]
  BY <1>2, <1>4, <1>5, <1>6 DEF Status
<1>8. On' = On
  BY <1>1 DEF On, Popping, QueueInv, RingInv, TypeOK
<1>9. PopInv'
  BY <1>1, <1>4 DEF PopInv, QueueInv, RingInv, TypeOK
<1> QED BY <1>1, <1>7, <1>8, <1>9 DEF Abs!PushPublish, Abs!popVars

LEMMA PushOverStep ==
  ASSUME QueueInv, RingInv', NEW c \in Client, PushOver(c)
  PROVE  PopInv' /\ Abs!PushPublish(val[c])
<1>1. /\ pc[c] = "pushOver"
      /\ overflow' = Append(overflow, val[c])
      /\ val' = [val EXCEPT ![c] = NoElem]
      /\ pc' = [pc EXCEPT ![c] = "idle"]
      /\ UNCHANGED <<sequence, data, head, tail, pos, free, history>>
  BY DEF PushOver
<1>2. val[c] \in Elem /\ NoElem \notin Elem
  BY <1>1, QueueAssumption DEF QueueInv, RingInv, TypeOK, Contents, Pushing
<1>3. ToSet(overflow') = ToSet(overflow) \cup {val[c]}
  BY <1>1, <1>2, OverflowAppend DEF QueueInv, RingInv, TypeOK
<1>4. Ready' = Ready \cup {val[c]}
  BY <1>1, <1>3 DEF Ready, Published
<1>5. \A e \in Elem : Claimed(e)' <=> Claimed(e)
  BY <1>1 DEF Claimed, Writing, QueueInv, RingInv, TypeOK
<1>6. ~ Claimed(val[c]) /\ val[c] \notin Ready
  <2>1. ~ Claimed(val[c])
    BY <1>1, <1>2 DEF Claimed, Writing, QueueInv, ExactlyOnce
  <2> QED BY <1>2, <2>1, PushedNotReady DEF QueueInv
<1>7. Status[val[c]] = "out" /\ Status' = [Status EXCEPT ![val[c]] = "ready"]
  BY <1>2, <1>4, <1>5, <1>6 DEF Status
<1>8. On' = On
  BY <1>1 DEF On, Popping, Pushing, QueueInv, RingInv, TypeOK
<1>9. PopInv'
  BY <1>1, <1>3, <1>4 DEF PopInv, QueueInv, RingInv, TypeOK
<1> QED BY <1>1, <1>7, <1>8, <1>9 DEF Abs!PushPublish, Abs!popVars

LEMMA ReadyElem ==
  ASSUME RingInv
  PROVE  Ready \subseteq Elem
BY DEF Ready, ToSet, RingInv, TypeOK, Contents

LEMMA PopStartStep ==
  ASSUME QueueInv, NEW c \in Client, PopStart(c)
  PROVE  PopInv' /\ Abs!PopStart(c, ThisQueue)
<1>1. /\ pc[c] = "idle"
      /\ pc' = [pc EXCEPT ![c] = "popSeq"]
      /\ must' = [must EXCEPT ![c] = Ready]
      /\ UNCHANGED <<sequence, data, head, tail, overflow, val, free, blocked>>
  BY DEF PopStart
<1>2. Ready' = Ready
  BY <1>1 DEF Ready, Published
<1>3. Status' = Status
  <2>1. \A e \in Elem : Claimed(e)' <=> Claimed(e)
    BY <1>1 DEF Claimed, Writing, QueueInv, RingInv, TypeOK
  <2> QED BY <1>2, <2>1 DEF Status
<1>4. On[c] = NoQueue /\ On' = [On EXCEPT ![c] = ThisQueue]
  BY <1>1 DEF On, Popping, QueueInv, RingInv, TypeOK
<1>5. {e \in Elem : /\ [d \in Elem |-> ThisQueue][e] = ThisQueue
                    /\ Status[e] = "ready"} = Ready
  BY ReadyElem DEF Status, QueueInv
<1>6. PopInv'
  BY <1>1, <1>2 DEF PopInv, QueueInv, RingInv, TypeOK
<1> QED BY <1>1, <1>3, <1>4, <1>5, <1>6 DEF Abs!PopStart, Abs!Inside

(* A pop that finds the slot of its position not published: it is at the   *)
(* head; either all positions have been taken, or a push has claimed this  *)
(* one.                                                                    *)
LEMMA PopSeqStep ==
  ASSUME QueueInv, NEW c \in Client, PopSeq(c)
  PROVE  PopInv' /\ (Abs!PopBlocked(c) \/ UNCHANGED Abs!qvars)
<1>1. /\ pc[c] = "popSeq"
      /\ UNCHANGED <<sequence, data, head, tail, overflow, pos, val, free, must>>
  BY DEF PopSeq
<1>2. Ready' = Ready
  BY <1>1 DEF Ready, Published
<1>3. \E l \in {"popCas", "popOver", "popReload"} : pc' = [pc EXCEPT ![c] = l]
  BY DEF PopSeq
<1>4. Status' = Status
  <2>1. \A e \in Elem : Claimed(e)' <=> Claimed(e)
    BY <1>1, <1>3 DEF Claimed, Writing, QueueInv, RingInv, TypeOK
  <2> QED BY <1>2, <2>1 DEF Status
<1>5. On' = On /\ On[c] = ThisQueue
  BY <1>1, <1>3 DEF On, Popping, QueueInv, RingInv, TypeOK
<1>6. ~ blocked[c]
  BY <1>1 DEF QueueInv, PopInv
<1>7. /\ pos[c] \in Nat /\ head \in Nat /\ tail \in Nat /\ head <= tail
      /\ sequence[Slot(pos[c])] \in Nat
      /\ pos[c] <= head
  BY <1>1, SequenceNat DEF QueueInv, RingInv, TypeOK, Claims, Compared
<1>8. CASE pc'[c] # "popOver"
  <2>1. ~ Difference(c, pos[c] + 1) < 0
    BY <1>7, <1>8 DEF PopSeq, Difference, QueueInv, RingInv, TypeOK
  <2>2. blocked' = [blocked EXCEPT ![c] = FALSE]
    BY <2>1 DEF PopSeq
  <2>3. blocked' = blocked
    BY <1>6, <2>2 DEF QueueInv, RingInv, TypeOK
  <2>4. PopInv'
    BY <1>1, <1>2, <1>3, <1>8, <2>3 DEF PopInv, QueueInv, RingInv, TypeOK
  <2> QED BY <1>1, <1>4, <1>5, <2>3, <2>4 DEF Abs!qvars
<1>9. CASE pc'[c] = "popOver"
  <2>1. sequence[Slot(pos[c])] - (pos[c] + 1) < 0
    BY <1>9 DEF PopSeq, Difference, QueueInv, RingInv, TypeOK
  <2>2. sequence[Slot(pos[c])] < pos[c] + 1 /\ pos[c] = head
    BY <1>1, <1>7, <2>1 DEF QueueInv, RingInv, Compared
  <2>3. Difference(c, pos[c] + 1) < 0
    BY <2>1 DEF Difference
  <2>4. CASE head < tail
    <3>1. PICK d \in Client : Writing(d) /\ pos[d] = head
      BY <1>7, <2>2, <2>4 DEF QueueInv, RingInv, Claims
    <3>2. val[d] \in Elem /\ val[d] \notin Ready /\ Claimed(val[d])
      BY <3>1, PushedNotReady DEF QueueInv, RingInv, Contents, Writing, Pushing, Claimed
    <3>3. Status[val[d]] = "claimed"
      BY <3>2 DEF Status
    <3>4. blocked' = [blocked EXCEPT ![c] = TRUE]
      <4>1. (Difference(c, pos[c] + 1) < 0 /\ pos[c] < tail) = TRUE
        BY <2>2, <2>3, <2>4
      <4> QED BY <4>1 DEF PopSeq
    <3>5. PopInv'
      BY <1>1, <1>2, <1>3, <1>9, <3>4 DEF PopInv, QueueInv, RingInv, TypeOK
    <3>6. val[d] \in {e \in Elem : /\ [f \in Elem |-> ThisQueue][e] = On[c]
                                   /\ Status[e] = "claimed"}
      BY <1>5, <3>2, <3>3
    <3>7. On[c] # NoQueue
      BY <1>5, QueueAssumption
    <3> QED BY <1>1, <1>4, <1>5, <1>6, <3>4, <3>5, <3>6, <3>7
            DEF Abs!PopBlocked, Abs!Inside
  <2>5. CASE ~ head < tail
    <3>1. Ready = ToSet(overflow)
      BY <1>7, <2>5 DEF Ready, Published
    <3>2. blocked' = blocked
      <4>1. (Difference(c, pos[c] + 1) < 0 /\ pos[c] < tail) = FALSE
        BY <2>2, <2>3, <2>5
      <4>2. blocked' = [blocked EXCEPT ![c] = FALSE]
        BY <4>1 DEF PopSeq
      <4> QED BY <1>6, <4>2 DEF QueueInv, RingInv, TypeOK
    <3>3. PopInv'
      BY <1>1, <1>2, <1>3, <1>9, <3>1, <3>2 DEF PopInv, QueueInv, RingInv, TypeOK
    <3> QED BY <1>1, <1>4, <1>5, <3>2, <3>3 DEF Abs!qvars
  <2> QED BY <2>4, <2>5
<1> QED BY <1>8, <1>9

LEMMA PopClaimStep ==
  ASSUME QueueInv, RingInv', NEW c \in Client, PopClaim(c)
  PROVE  PopInv' /\ Abs!PopTake(c, data[Slot(head)])
<1> DEFINE e == data[Slot(head)]
<1>1. /\ pc[c] = "popCas"
      /\ pc' = [pc EXCEPT ![c] = "popRead"]
      /\ must' = [d \in Client |-> IF d = c THEN {} ELSE must[d] \ {e}]
      /\ blocked' = [blocked EXCEPT ![c] = FALSE]
      /\ UNCHANGED <<sequence, data, tail, overflow, pos, val, free>>
  BY DEF PopClaim, PopEnd
<1>2. head \in Published /\ Published' = Published \ {head}
  BY PopClaimOccupied DEF QueueInv
<1>3. e \in Ready /\ e \in Elem
  BY <1>2, ReadyElem DEF Ready, QueueInv
<1>4. Ready' = Ready \ {e}
  BY <1>1, <1>2 DEF Ready, QueueInv, ExactlyOnce, Occupied
<1>5. \A x \in Elem : Claimed(x)' <=> Claimed(x)
  BY <1>1 DEF Claimed, Writing, QueueInv, RingInv, TypeOK
<1>6. ~ Claimed(e)
  BY <1>2 DEF Claimed, QueueInv, ExactlyOnce, Occupied
<1>7. Status[e] = "ready" /\ Status' = [Status EXCEPT ![e] = "out"]
  BY <1>3, <1>4, <1>5, <1>6 DEF Status
<1>8. On[c] = ThisQueue /\ On' = [On EXCEPT ![c] = NoQueue]
  BY <1>1 DEF On, Popping, Pushing, QueueInv, RingInv, TypeOK
<1>9. PopInv'
  BY <1>1, <1>4 DEF PopInv, QueueInv, RingInv, TypeOK
<1>10. [x \in Elem |-> ThisQueue][e] = On[c] /\ On[c] # NoQueue
  BY <1>3, <1>8, QueueAssumption
<1> QED BY <1>1, <1>7, <1>8, <1>9, <1>10 DEF Abs!PopTake, Abs!PopEnd

LEMMA PopOverStep ==
  ASSUME QueueInv, RingInv', NEW c \in Client, PopOver(c)
  PROVE  PopInv' /\ Abs!PopTake(c, Head(overflow))
<1> DEFINE e == Head(overflow)
<1>1. /\ pc[c] = "popOver" /\ overflow # <<>>
      /\ overflow' = Tail(overflow)
      /\ pc' = [pc EXCEPT ![c] = "idle"]
      /\ must' = [d \in Client |-> IF d = c THEN {} ELSE must[d] \ {e}]
      /\ blocked' = [blocked EXCEPT ![c] = FALSE]
      /\ UNCHANGED <<sequence, data, head, tail, pos, val>>
  BY DEF PopOver, PopEnd
<1>2. e \in ToSet(overflow) /\ ToSet(overflow') = ToSet(overflow) \ {e}
  BY <1>1, OverflowTail DEF QueueInv, ExactlyOnce, Injective, RingInv, TypeOK
<1>3. e \in Ready /\ e \in Elem
  BY <1>2, ReadyElem DEF Ready, QueueInv
<1>4. Ready' = Ready \ {e}
  BY <1>1, <1>2 DEF Ready, Published, QueueInv, ExactlyOnce, Occupied
<1>5. \A x \in Elem : Claimed(x)' <=> Claimed(x)
  BY <1>1 DEF Claimed, Writing, QueueInv, RingInv, TypeOK
<1>6. ~ Claimed(e)
  BY <1>2 DEF Claimed, QueueInv, ExactlyOnce
<1>7. Status[e] = "ready" /\ Status' = [Status EXCEPT ![e] = "out"]
  BY <1>3, <1>4, <1>5, <1>6 DEF Status
<1>8. On[c] = ThisQueue /\ On' = [On EXCEPT ![c] = NoQueue]
  BY <1>1 DEF On, Popping, Pushing, QueueInv, RingInv, TypeOK
<1>9. PopInv'
  BY <1>1, <1>2, <1>4 DEF PopInv, QueueInv, RingInv, TypeOK
<1>10. [x \in Elem |-> ThisQueue][e] = On[c] /\ On[c] # NoQueue
  BY <1>3, <1>8, QueueAssumption
<1> QED BY <1>1, <1>7, <1>8, <1>9, <1>10 DEF Abs!PopTake, Abs!PopEnd

LEMMA PopFailStep ==
  ASSUME QueueInv, RingInv', NEW c \in Client, PopFail(c)
  PROVE  PopInv' /\ Abs!PopFail(c)
<1>1. /\ pc[c] = "popOver" /\ overflow = <<>>
      /\ pc' = [pc EXCEPT ![c] = "idle"]
      /\ must' = [d \in Client |-> IF d = c THEN {} ELSE must[d] \ {NoElem}]
      /\ blocked' = [blocked EXCEPT ![c] = FALSE]
      /\ UNCHANGED <<sequence, data, head, tail, overflow, pos, val>>
  BY DEF PopFail, PopEnd
<1>2. ToSet(overflow) = {} /\ Ready' = Ready
  BY <1>1 DEF ToSet, Ready, Published
<1>3. blocked[c] \/ must[c] = {}
  BY <1>1, <1>2 DEF QueueInv, PopInv
<1>4. must' = [must EXCEPT ![c] = {}]
  <2>1. \A d \in Client : must[d] \ {NoElem} = must[d]
    BY QueueAssumption DEF QueueInv, RingInv, TypeOK
  <2> QED BY <1>1, <2>1 DEF QueueInv, RingInv, TypeOK
<1>5. Status' = Status
  <2>1. \A x \in Elem : Claimed(x)' <=> Claimed(x)
    BY <1>1 DEF Claimed, Writing, QueueInv, RingInv, TypeOK
  <2> QED BY <1>2, <2>1 DEF Status
<1>6. /\ On[c] = ThisQueue /\ On[c] # NoQueue
      /\ On' = [On EXCEPT ![c] = NoQueue]
  BY <1>1, QueueAssumption DEF On, Popping, Pushing, QueueInv, RingInv, TypeOK
<1>7. PopInv'
  BY <1>1, <1>2, <1>4 DEF PopInv, QueueInv, RingInv, TypeOK
<1> QED BY <1>1, <1>3, <1>4, <1>5, <1>6, <1>7 DEF Abs!PopFail, Abs!PopEnd

-----------------------------------------------------------------------------
(* The remaining steps of a pop and of a push: WeakQueue does not see them. *)
Hidden(c) ==
  \/ \E e \in Elem : PushStart(c, e)
  \/ PushSeq(c) \/ PushReload(c) \/ PushRetry(c) \/ PushWrite(c)
  \/ PopReload(c) \/ PopRetry(c) \/ PopRead(c) \/ PopStore(c)

LEMMA HiddenSteps ==
  ASSUME QueueInv, RingInv', NEW c \in Client, Hidden(c)
  PROVE  PopInv' /\ UNCHANGED Abs!qvars
<1>1. TypeOK /\ TypeOK' /\ PopInv
  BY DEF QueueInv, RingInv
<1>2. /\ overflow' = overflow /\ UNCHANGED history
      /\ pc[c] # "popOver" /\ (Writing(c) => val'[c] = val[c])
      /\ \E l \in PC \ {"popOver"} :
           /\ pc' = [pc EXCEPT ![c] = l]
           /\ pc[c] \in Popping <=> l \in Popping
           /\ Writing(c) <=> l \in {"pushWrite", "pushStore"}
      /\ \A d \in Client \ {c} : val'[d] = val[d]
  <2> USE <1>1 DEF TypeOK, PC, Pushing, Popping, Writing
  <2>1. CASE \E e \in Elem : PushStart(c, e)
    BY <2>1 DEF PushStart
  <2>2. CASE PushSeq(c)
    BY <2>2 DEF PushSeq
  <2>3. CASE PushReload(c) \/ PushRetry(c)
    BY <2>3 DEF PushReload, PushRetry
  <2>4. CASE PushWrite(c)
    BY <2>4 DEF PushWrite
  <2>5. CASE PopReload(c) \/ PopRetry(c)
    BY <2>5 DEF PopReload, PopRetry
  <2>6. CASE PopRead(c)
    BY <2>6 DEF PopRead
  <2>7. CASE PopStore(c)
    BY <2>7 DEF PopStore
  <2> QED BY <2>1, <2>2, <2>3, <2>4, <2>5, <2>6, <2>7 DEF Hidden
<1>3. Published' = Published /\ \A p \in Published : data'[Slot(p)] = data[Slot(p)]
  <2>1. CASE PushWrite(c)
    <3>1. Accessing(c) /\ pos[c] \notin Occupied
      BY <2>1 DEF PushWrite, Occupied, Published, Accessing, Writing, Reading,
         QueueInv, RingInv, TypeOK, Accesses
    <3>2. \A p \in Published : Slot(p) # Slot(pos[c])
      BY <3>1, OccupiedSlot DEF QueueInv, Occupied
    <3>3. \A p \in Published : data'[Slot(p)] = data[Slot(p)]
      BY <1>1, <2>1, <3>2, OccupiedNat DEF PushWrite, TypeOK, QueueInv, Occupied
    <3>4. Published' = Published
      BY <2>1 DEF PushWrite, Published
    <3> QED BY <3>3, <3>4
  <2>2. CASE PopStore(c)
    BY <2>2, PopStorePublished DEF PopStore, QueueInv
  <2>3. CASE ~ PushWrite(c) /\ ~ PopStore(c)
    <3>1. UNCHANGED ring
      BY <2>3 DEF Hidden, PushStart, PushSeq, PushReload, PushRetry, PopReload,
         PopRetry, PopRead
    <3> QED BY <3>1 DEF Published
  <2> QED BY <2>1, <2>2, <2>3
<1>4. \A d \in Client : /\ Writing(d)' <=> Writing(d)
                        /\ Writing(d) => val'[d] = val[d]
                        /\ pc'[d] \in Popping <=> pc[d] \in Popping
                        /\ pc'[d] = "popOver" <=> pc[d] = "popOver"
  BY <1>1, <1>2 DEF Writing, TypeOK
<1> QED BY <1>1, <1>2, <1>3, <1>4, HiddenStep

LEMMA OnceStep ==
  ASSUME RingInv, ExactlyOnce, NEW c \in Client, Push(c) \/ Pop(c)
  PROVE  ExactlyOnce'
<1>1. CASE \/ \E e \in Elem : PushStart(c, e)
           \/ PushOver(c) \/ PopOver(c) \/ PushWrite(c) \/ PushStore(c)
           \/ PopRead(c) \/ PopStore(c)
  BY <1>1, PushStartOnce, PushOverOnce, PopOverOnce, PushWriteOnce, PushStoreOnce,
     PopReadOnce, PopStoreOnce
<1>2. CASE PopClaim(c)
  BY <1>2, PopClaimOccupied, StayingOnce DEF PopClaim
<1>3. CASE PushClaim(c)
  <2>1. /\ pc[c] = "pushCas" /\ pos[c] = tail /\ tail' = tail + 1
        /\ pc' = [pc EXCEPT ![c] = "pushWrite"]
        /\ UNCHANGED <<sequence, data, head, overflow, pos, val, free>>
    BY <1>3 DEF PushClaim
  <2>2. Published' = Published
    <3>1. tail \notin Published'
      BY <2>1 DEF Published, RingInv, TypeOK, Compared
    <3> QED BY <2>1, <3>1 DEF Published, RingInv, TypeOK, Claims
  <2>3. Occupied' = Occupied
    BY <2>1, <2>2 DEF Occupied, RingInv, TypeOK
  <2> QED BY <2>1, <2>3, StayingOnce
<1>4. CASE \/ PushSeq(c) \/ PushReload(c) \/ PushRetry(c) \/ PopStart(c)
           \/ PopSeq(c) \/ PopReload(c) \/ PopRetry(c) \/ PopFail(c)
  <2>1. /\ UNCHANGED <<sequence, data, head, tail, overflow, val, free>>
        /\ Looking(c)
    BY <1>4 DEF PushSeq, PushReload, PushRetry, PopStart, PopSeq, PopReload,
       PopRetry, PopFail, Looking
  <2>2. Published' = Published
    BY <2>1 DEF Published
  <2>3. \A d \in Client : /\ pc'[d] = "popRead" <=> pc[d] = "popRead"
                          /\ pc[d] = "popRead" => pos'[d] = pos[d]
    BY <2>1, LookingSteps DEF RingInv, TypeOK
  <2>4. Occupied' = Occupied
    BY <2>2, <2>3 DEF Occupied
  <2> QED BY <2>1, <2>4, StayingOnce
<1> QED BY <1>1, <1>2, <1>3, <1>4 DEF Push, Pop

(* The invariant: it holds in every reachable state, and a step from a     *)
(* state where it holds is a step of WeakQueue, or none.                   *)
LEMMA QueueInit ==
  ASSUME Init
  PROVE  ExactlyOnce /\ PopInv /\ Abs!QueueInit
<1>1. Published = {} /\ Occupied = {} /\ ToSet(overflow) = {} /\ Ready = {}
  BY DEF Init, Published, Occupied, ToSet, Ready
<1>2. ExactlyOnce
  BY <1>1, QueueAssumption DEF Init, ExactlyOnce
<1>3. PopInv
  BY DEF Init, PopInv
<1>4. Status = [e \in Elem |-> "out"] /\ On = [c \in Client |-> NoQueue]
  BY <1>1 DEF Init, Status, Claimed, Writing, On, Popping
<1> QED BY <1>2, <1>3, <1>4 DEF Init, Abs!QueueInit

LEMMA QueueStep ==
  ASSUME QueueInv, RingInv', [Next]_vars
  PROVE  ExactlyOnce' /\ PopInv' /\ [Abs!QueueNext]_(Abs!qvars)
<1>1. ASSUME NEW c \in Client, Push(c) \/ Pop(c)
      PROVE  ExactlyOnce' /\ PopInv' /\ [Abs!QueueNext]_(Abs!qvars)
  <2>1. ExactlyOnce'
    BY <1>1, OnceStep DEF QueueInv
  <2>2. CASE Hidden(c)
    BY <2>1, <2>2, HiddenSteps
  <2>3. CASE PushClaim(c)
    <3>1. val[c] \in Elem
      BY <2>3 DEF PushClaim, QueueInv, RingInv, Contents, Pushing
    <3> QED BY <2>1, <2>3, <3>1, PushClaimStep DEF Abs!QueueNext
  <2>4. CASE PushStore(c) \/ PushOver(c)
    <3>1. val[c] \in Elem
      BY <2>4 DEF PushStore, PushOver, QueueInv, RingInv, Contents, Pushing
    <3> QED BY <2>1, <2>4, <3>1, PushStoreStep, PushOverStep DEF Abs!QueueNext
  <2>5. CASE PopStart(c)
    BY <2>1, <2>5, PopStartStep DEF Abs!QueueNext
  <2>6. CASE PopSeq(c)
    BY <2>1, <2>6, PopSeqStep DEF Abs!QueueNext
  <2>7. CASE PopClaim(c)
    <3>1. data[Slot(head)] \in Elem
      BY <2>7, PopClaimOccupied DEF QueueInv, RingInv, Contents
    <3> QED BY <2>1, <2>7, <3>1, PopClaimStep DEF Abs!QueueNext
  <2>8. CASE PopOver(c)
    <3>1. Head(overflow) \in Elem
      BY <2>8 DEF PopOver, QueueInv, RingInv, TypeOK
    <3> QED BY <2>1, <2>8, <3>1, PopOverStep DEF Abs!QueueNext
  <2>9. CASE PopFail(c)
    BY <2>1, <2>9, PopFailStep DEF Abs!QueueNext
  <2> QED BY <1>1, <2>2, <2>3, <2>4, <2>5, <2>6, <2>7, <2>8, <2>9
          DEF Push, Pop, Hidden
<1>2. CASE UNCHANGED vars
  <2>1. ExactlyOnce' /\ PopInv'
    BY <1>2 DEF vars, ExactlyOnce, PopInv, Ready, Occupied, Published, QueueInv
  <2>2. UNCHANGED Abs!qvars
    BY <1>2 DEF vars, Abs!qvars, Status, Claimed, Writing, On, Ready, Published
  <2> QED BY <2>1, <2>2
<1> QED BY <1>1, <1>2 DEF Next

(* No element is lost, and none is popped twice, whatever the number of    *)
(* threads, the size of the ring and the number of elements that overflow. *)
THEOREM QueueInvariance == Spec => []QueueInv
<1>1. Init => QueueInv
  <2>1. Init => RingInv
    BY RingInit
  <2> QED BY <2>1, QueueInit DEF QueueInv
<1>2. QueueInv /\ [Next]_vars => QueueInv'
  BY RingStep, QueueStep DEF QueueInv
<1> QED BY <1>1, <1>2, PTL DEF Spec

THEOREM ElementsExactlyOnce == Spec => []ExactlyOnce
<1>1. QueueInv => ExactlyOnce
  BY DEF QueueInv
<1> QED BY <1>1, QueueInvariance, PTL

(* TU_FiniteOverflowQueue is the queue of the module WeakQueue, of which   *)
(* the task manager uses one for each group and one for each state.        *)
THEOREM Refinement == Spec => ImplementsWeakQueue
<1>1. Init => Abs!QueueInit
  BY QueueInit
<1>2. QueueInv /\ QueueInv' /\ [Next]_vars => [Abs!QueueNext]_(Abs!qvars)
  BY QueueStep DEF QueueInv
<1> QED BY <1>1, <1>2, QueueInvariance, PTL
        DEF Spec, ImplementsWeakQueue, Abs!QueueSpec
=============================================================================
