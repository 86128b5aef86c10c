---------------------------- MODULE MCTaskManager ----------------------------
(* Small task managers for TLC.                                            *)
EXTENDS TaskManagerInd, TLC

CONSTANTS a, b, c, d, s

(* The workers and their groups *)
OneOne == <<1, 2>>
OneGroup == <<1, 1>>
OneWorker == <<1>>

(* One task in one group. *)
Ops1 == {a}
Groups0 == [o \in Ops1 |-> 1]
States1 == [o \in Ops1 |-> NoState]

(* A task and two operations of a state, in one group. *)
Ops3 == {a, b, c}
Groups1 == [o \in Ops3 |-> 1]
States3 == (a :> NoState) @@ (b :> s) @@ (c :> s)

(* Two tasks and an operation of a state in one group, and an operation of *)
(* the same state in another. *)
Ops4 == {a, b, c, d}
Groups4 == (a :> 1) @@ (b :> 1) @@ (c :> 1) @@ (d :> 2)
MixedStates == (a :> NoState) @@ (b :> NoState) @@ (c :> s) @@ (d :> s)

(* The ring of the workers' caches behaves as the sequences of TaskManager, *)
(* for every sequence of up to ten calls.                                  *)
Ring == INSTANCE CacheQueue WITH Nothing <- 0

ASSUME CacheConforms ==
  \A size \in {1, 2, 4} : \A n \in 0 .. 10 :
    \A ops \in [1 .. n -> {"cache", "pop"}] : Ring!Conforms(size, ops)
=============================================================================
