-------------------------------- MODULE MCDfg --------------------------------
(* Small graphs for TLC: a task, a state, or a task that feeds a state.    *)
EXTENDS DfgInd, TLC

CONSTANTS a, b, task, state, x, y

(* The workers and their groups *)
OneGroup == <<1, 1>>
TwoGroups == <<1, 2>>

(* The task takes x and adds y; the state takes y, or x and y, and adds y  *)
(* to the result queue.                                                    *)
Together == <<<<task, state>>>>
Apart == <<<<task>>, <<state>>>>
Kinds == (task :> FALSE) @@ (state :> TRUE)
Limits == (task :> 2) @@ (state :> 1)
Chain == (task :> <<x>>) @@ (state :> <<y>>)
Fork == (task :> <<x>>) @@ (state :> <<x, y>>)
ChainEmits == (task :> (x :> <<y>>)) @@ (state :> (y :> <<y>>))
ForkEmits == (task :> (x :> <<y>>)) @@ (state :> ((x :> <<>>) @@ (y :> <<y>>)))
ToState == (task :> (y :> <<state>>)) @@ (state :> (y :> <<>>))
StateSinks == (task :> {}) @@ (state :> {y})
ChainInputs == x :> <<task>>
(* max_dequeue_count of the groups *)
OneDatum == [g \in Group |-> 1]
TwoData == [g \in Group |-> 2]

(* One datum goes to the task and to the state, the other to the state.    *)
MixedInputs == (x :> <<task, state>>) @@ (y :> <<state>>)
Mixed == (a :> x) @@ (b :> y)
AllX == [d \in Datum |-> x]

(* The state alone. *)
Alone == <<<<state>>>>
StateKind == state :> TRUE
StateLimit == state :> 1
StateTakes == state :> <<x>>
StateEmits == state :> (x :> <<y>>)
StateSucc == state :> (y :> <<>>)
StateSink == state :> {y}
StateInputs == x :> <<state>>
=============================================================================
