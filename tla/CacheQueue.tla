----------------------------- MODULE CacheQueue -----------------------------
(***************************************************************************)
(* TU_CacheQueue: a ring of one thread, of a size that is a power of 2.    *)
(* The head only grows; the tail goes back when an element is popped.      *)
(*                                                                         *)
(* TaskManager has a sequence in its place.  Conforms compares the two for *)
(* a sequence of calls.                                                    *)
(***************************************************************************)
EXTENDS Integers, Sequences

CONSTANT Nothing

New(size) ==
  [size |-> size, head |-> 0, tail |-> 0, data |-> [i \in 0 .. size - 1 |-> Nothing]]

Slot(q, i) == q.data[i % q.size]
IsFull(q) == q.tail - q.head >= q.size

(* cache: the oldest element is returned when there is no room.            *)
Cache(q, v) ==
  [q EXCEPT !.head = IF IsFull(q) THEN @ + 1 ELSE @,
            !.tail = @ + 1,
            !.data[q.tail % q.size] = v]
Evicted(q) == IF IsFull(q) THEN Slot(q, q.head) ELSE Nothing

(* pop: the newest element.                                                *)
Pop(q) == IF q.tail <= q.head THEN q ELSE [q EXCEPT !.tail = @ - 1]
Popped(q) == IF q.tail <= q.head THEN Nothing ELSE Slot(q, q.tail - 1)

Contents(q) == [i \in 1 .. q.tail - q.head |-> Slot(q, q.head + i - 1)]

-----------------------------------------------------------------------------
(* The same on a sequence.                                                 *)
Kept(s, size) == IF Len(s) < size THEN s ELSE Tail(s)
Oldest(s, size) == IF Len(s) < size THEN Nothing ELSE Head(s)
Newest(s) == IF s = <<>> THEN Nothing ELSE s[Len(s)]
Older(s) == IF s = <<>> THEN s ELSE SubSeq(s, 1, Len(s) - 1)

(* One call on both, q and s; v is a value not cached before.              *)
Call(x, op) ==
  IF op = "cache"
    THEN [q |-> Cache(x.q, x.v), s |-> Append(Kept(x.s, x.q.size), x.v), v |-> x.v + 1,
          same |-> x.same /\ Evicted(x.q) = Oldest(x.s, x.q.size)]
    ELSE [q |-> Pop(x.q), s |-> Older(x.s), v |-> x.v,
          same |-> x.same /\ Popped(x.q) = Newest(x.s)]

Start(size) == [q |-> New(size), s |-> <<>>, v |-> 1, same |-> TRUE]

(* The two return the same from each of the calls, and hold the same in    *)
(* the end.                                                                *)
Conforms(size, ops) ==
  LET after[k \in 0 .. Len(ops)] ==
        IF k = 0 THEN Start(size) ELSE Call(after[k - 1], ops[k])
      end == after[Len(ops)]
  IN  end.same /\ Contents(end.q) = end.s
=============================================================================
