----------------------------- MODULE GraphBuild -----------------------------
(***************************************************************************)
(* The construction of data flow graphs and their registration with a      *)
(* runner, by one thread.                                                  *)
(*                                                                         *)
(* A graph has members, tasks and states (ExecNode) or other graphs, and   *)
(* declares types of data it takes and outputs.  For each of them it lists *)
(* the tasks and states that take the data or output it; a graph added as  *)
(* an input or output of another stands for those it lists, so that there  *)
(* are only tasks and states in the lists, which is why the recursion of   *)
(* the functions here is at most one call deep.                            *)
(*                                                                         *)
(* A call that fails stops at the first node it cannot connect.  Since the *)
(* lists are well typed (Lists of GraphBuildProofs), either every node of  *)
(* a list fails or none, and a call that fails changes nothing else.       *)
(*                                                                         *)
(* The program may stop making calls, and a registration that recurses for *)
(* ever stops at MaxDepth.                                                 *)
(***************************************************************************)
EXTENDS Integers, FiniteSets, Sequences

CONSTANTS
  ExecNode, Graph, Type,
  InTypes, OutTypes,       \* the types a task or state is created with
  GraphIn, GraphOut,       \* the types a graph is created with
  GroupOf,                 \* the group a task or state is created with
  NumGroups,
  MaxCalls,                \* bound: calls of the program
  MaxDepth,                \* bound: nested calls of dfg_register_nodes
  NoGraph

Group == 0 .. NumGroups - 1

ASSUME BuildAssumption ==
  /\ InTypes \in [ExecNode -> SUBSET Type] /\ OutTypes \in [ExecNode -> SUBSET Type]
  /\ GraphIn \in [Graph -> SUBSET Type] /\ GraphOut \in [Graph -> SUBSET Type]
  /\ GroupOf \in [ExecNode -> Nat]
  /\ NumGroups \in Nat
  /\ ExecNode \cap Graph = {}
  /\ NoGraph \notin Graph

VARIABLES
  home,        \* node->graph, NoGraph: not created yet
  members,     \* graph->nodes
  inputs,      \* graph->inputs: a map from types to sets of nodes
  outputs,     \* graph->outputs
  edges,       \* <<s, r, t>>: r is in the nodes of s's output t
  sink,        \* the graph to whose result queue a node's sink points
  dfgGraph,    \* dfg->graph
  groupNodes,  \* group->nodes
  frames,      \* the index of each active call of dfg_register_nodes
  calls

buildVars == <<home, members, inputs, outputs, edges, sink>>
dfgVars   == <<dfgGraph, groupNodes, frames>>
vars == <<buildVars, dfgVars, calls>>

Map == UNION {[S -> SUBSET ExecNode] : S \in SUBSET Type}

TypeOK ==
  /\ home \in [ExecNode -> Graph \cup {NoGraph}]
  /\ members \in [Graph -> Seq(ExecNode \cup Graph)]
  /\ inputs \in [Graph -> Map] /\ outputs \in [Graph -> Map]
  /\ edges \subseteq ExecNode \X ExecNode \X Type
  /\ sink \in [ExecNode -> Graph \cup {NoGraph}]
  /\ dfgGraph \in Graph \cup {NoGraph}
  /\ groupNodes \in [Group -> Seq(ExecNode)]
  /\ frames \in Seq(Nat \ {0})
  /\ frames # <<>> => dfgGraph \in Graph
  /\ calls \in Nat

(* The graphs have been created, and a runner with its groups of workers. *)
Init ==
  /\ home = [n \in ExecNode |-> NoGraph]
  /\ members = [g \in Graph |-> <<>>]
  /\ inputs = [g \in Graph |-> [t \in GraphIn[g] |-> {}]]
  /\ outputs = [g \in Graph |-> [t \in GraphOut[g] |-> {}]]
  /\ edges = {}
  /\ sink = [n \in ExecNode |-> NoGraph]
  /\ dfgGraph = NoGraph
  /\ groupNodes = [i \in Group |-> <<>>]
  /\ frames = <<>>
  /\ calls = 0

(* A call of the program, none of which is made while another is active. *)
Call == frames = <<>> /\ calls < MaxCalls /\ calls' = calls + 1

Created(n) == home[n] # NoGraph

(* std::map::operator[] creates the entry it does not find. *)
WithKey(map, t) ==
  [k \in DOMAIN map \cup {t} |-> IF k \in DOMAIN map THEN map[k] ELSE {}]
At(map, t) == IF t \in DOMAIN map THEN map[t] ELSE {}
Listed(map) == UNION {map[t] : t \in DOMAIN map}

(* The nodes S are added to the entry of t, if there is one; to those of   *)
(* all their types that there are.                                         *)
Put(map, t, S) == IF t \in DOMAIN map THEN [map EXCEPT ![t] = @ \cup S] ELSE map
PutAll(map, S, types) ==
  [t \in DOMAIN map |-> map[t] \cup {n \in S : t \in types[n]}]

-----------------------------------------------------------------------------
(* Nodes                                                                   *)

(* tu_task, tu_state: make_node *)
MakeNode(g, n) ==
  /\ Call
  /\ ~ Created(n)
  /\ home' = [home EXCEPT ![n] = g]
  /\ members' = [members EXCEPT ![g] = Append(@, n)]
  /\ UNCHANGED <<inputs, outputs, edges, sink, dfgVars>>

(* tu_sub_graph; the program makes a graph a member of at most one other. *)
SubGraph(g, s) ==
  /\ Call
  /\ g # s
  /\ \A h \in Graph : \A i \in 1 .. Len(members[h]) : members[h][i] # s
  /\ sink' = [n \in ExecNode |-> IF n \in Listed(outputs[s]) THEN NoGraph ELSE sink[n]]
  /\ members' = [members EXCEPT ![g] = Append(@, s)]
  /\ UNCHANGED <<home, inputs, outputs, edges, dfgVars>>

-----------------------------------------------------------------------------
(* Inputs and outputs of a graph                                           *)

(* Mutant: the type of the node is not looked up. *)
AddInput_Unchecked(g, n, t) ==
  /\ Call
  /\ Created(n)
  /\ inputs' = [inputs EXCEPT ![g] = Put(@, t, {n})]
  /\ UNCHANGED <<home, members, outputs, edges, sink, dfgVars>>

AddInput(g, n, t) ==
  /\ Call
  /\ Created(n)
  /\ inputs' = IF t \in InTypes[n] THEN [inputs EXCEPT ![g] = Put(@, t, {n})]
               ELSE inputs
  /\ UNCHANGED <<home, members, outputs, edges, sink, dfgVars>>

(* Mutant: the graph itself is listed. *)
AddInputGraph_Unflattened(g, s, t) ==
  /\ Call
  /\ g # s
  /\ inputs' = [inputs EXCEPT ![g] = Put(@, t, {s})]
  /\ UNCHANGED <<home, members, outputs, edges, sink, dfgVars>>

AddInputGraph(g, s, t) ==
  /\ Call
  /\ g # s
  /\ inputs' = [inputs EXCEPT ![s] = WithKey(@, t), ![g] = Put(@, t, At(inputs[s], t))]
  /\ UNCHANGED <<home, members, outputs, edges, sink, dfgVars>>

AddInputs(g, n) ==
  /\ Call
  /\ Created(n)
  /\ inputs' = [inputs EXCEPT ![g] = PutAll(@, {n}, InTypes)]
  /\ UNCHANGED <<home, members, outputs, edges, sink, dfgVars>>

(* The nodes that s lists for the types that g does not take. *)
AddInputsGraph(g, s) ==
  LET nodes == UNION {inputs[s][t] : t \in DOMAIN inputs[s] \ DOMAIN inputs[g]} IN
  /\ Call
  /\ g # s
  /\ inputs' = [inputs EXCEPT ![g] = PutAll(@, nodes, InTypes)]
  /\ UNCHANGED <<home, members, outputs, edges, sink, dfgVars>>

SinkTo(g, S) == sink' = [n \in ExecNode |-> IF n \in S THEN g ELSE sink[n]]

AddOutput(g, n, t) ==
  LET ok == t \in DOMAIN outputs[g] \cap OutTypes[n] IN
  /\ Call
  /\ Created(n)
  /\ outputs' = IF ok THEN [outputs EXCEPT ![g] = Put(@, t, {n})] ELSE outputs
  /\ SinkTo(g, IF ok THEN {n} ELSE {})
  /\ UNCHANGED <<home, members, inputs, edges, dfgVars>>

(* A graph is not refused as an output of itself. *)
AddOutputGraph(g, s, t) ==
  LET nodes == IF t \in DOMAIN outputs[g] THEN At(outputs[s], t) ELSE {}
      keyed == [outputs EXCEPT ![s] = WithKey(@, t)] IN
  /\ Call
  /\ outputs' = [keyed EXCEPT ![g] = Put(@, t, nodes)]
  /\ SinkTo(g, nodes)
  /\ UNCHANGED <<home, members, inputs, edges, dfgVars>>

(* Mutant: the sink is set whether or not an output was added. *)
AddOutputs_Always(g, n) ==
  /\ Call
  /\ Created(n)
  /\ outputs' = [outputs EXCEPT ![g] = PutAll(@, {n}, OutTypes)]
  /\ SinkTo(g, {n})
  /\ UNCHANGED <<home, members, inputs, edges, dfgVars>>

AddOutputs(g, n) ==
  /\ Call
  /\ Created(n)
  /\ outputs' = [outputs EXCEPT ![g] = PutAll(@, {n}, OutTypes)]
  /\ SinkTo(g, {m \in {n} : OutTypes[m] \cap DOMAIN outputs[g] # {}})
  /\ UNCHANGED <<home, members, inputs, edges, dfgVars>>

AddOutputsGraph(g, s) ==
  LET nodes == UNION {outputs[s][t] : t \in DOMAIN outputs[s] \ DOMAIN outputs[g]} IN
  /\ Call
  /\ outputs' = [outputs EXCEPT ![g] = PutAll(@, nodes, OutTypes)]
  /\ SinkTo(g, {m \in nodes : OutTypes[m] \cap DOMAIN outputs[g] # {}})
  /\ UNCHANGED <<home, members, inputs, edges, dfgVars>>

-----------------------------------------------------------------------------
(* Edges, between nodes or graphs                                          *)

Endpoint == Graph \cup {n \in ExecNode : Created(n)}

(* The edges of the types in T between the nodes S and R that have them.   *)
Joined(S, R, T) ==
  {e \in S \X R \X T : e[3] \in OutTypes[e[1]] /\ e[3] \in InTypes[e[2]]}

Edge(x, y, t) ==
  LET S == IF x \in Graph THEN At(outputs[x], t) ELSE {x}
      R == IF y \in Graph THEN At(inputs[y], t) ELSE {y} IN
  /\ Call
  /\ edges' = edges \cup Joined(S, R, {t})
  /\ outputs' = IF x \in Graph THEN [outputs EXCEPT ![x] = WithKey(@, t)] ELSE outputs
  /\ inputs' = IF y \in Graph /\ S # {} THEN [inputs EXCEPT ![y] = WithKey(@, t)]
               ELSE inputs
  /\ UNCHANGED <<home, members, sink, dfgVars>>

(* All the types that a sender and a receiver have in common, those that   *)
(* the graphs do not declare included.                                     *)
Edges(x, y) ==
  LET S == IF x \in Graph THEN Listed(outputs[x]) ELSE {x}
      R == IF y \in Graph THEN Listed(inputs[y]) ELSE {y} IN
  /\ Call
  /\ edges' = edges \cup Joined(S, R, Type)
  /\ UNCHANGED <<home, members, inputs, outputs, sink, dfgVars>>

-----------------------------------------------------------------------------
(* Registration                                                            *)

(* tu_dfg_set_graph; with another graph than before it does nothing. *)
SetGraph(g) ==
  /\ Call
  /\ dfgGraph \in {NoGraph, g}
  /\ dfgGraph' = g
  /\ frames' = <<1>>
  /\ UNCHANGED <<buildVars, groupNodes>>

Top == frames[Len(frames)]
Pop == frames' = SubSeq(frames, 1, Len(frames) - 1)
Advance == frames' = [frames EXCEPT ![Len(frames)] = @ + 1]
AtMember(m) ==
  /\ frames # <<>>
  /\ Top <= Len(members[dfgGraph])
  /\ m = members[dfgGraph][Top]

(* dfg_register_nodes *)
Register(n) ==
  /\ AtMember(n)
  /\ GroupOf[n] < NumGroups
  /\ groupNodes' = [groupNodes EXCEPT ![GroupOf[n]] = Append(@, n)]
  /\ Advance
  /\ UNCHANGED <<buildVars, dfgGraph, calls>>

(* Mutant: the next member is registered. *)
NoGroup_Skips(n) ==
  /\ AtMember(n)
  /\ GroupOf[n] >= NumGroups
  /\ Advance
  /\ UNCHANGED <<buildVars, dfgGraph, groupNodes, calls>>

(* The rest of the graph is not registered. *)
NoGroup(n) ==
  /\ AtMember(n)
  /\ GroupOf[n] >= NumGroups
  /\ Pop
  /\ UNCHANGED <<buildVars, dfgGraph, groupNodes, calls>>

(* The recursive call is for the outer graph again, not for s. *)
Nested(s) ==
  /\ AtMember(s)
  /\ Len(frames) < MaxDepth
  /\ frames' = Append([frames EXCEPT ![Len(frames)] = @ + 1], 1)
  /\ UNCHANGED <<buildVars, dfgGraph, groupNodes, calls>>

Return ==
  /\ frames # <<>> /\ Top > Len(members[dfgGraph])
  /\ Pop
  /\ UNCHANGED <<buildVars, dfgGraph, groupNodes, calls>>

(* tu_dfg_clear: what tu_dfg_term does is in module Dfg. *)
Clear ==
  /\ Call
  /\ dfgGraph # NoGraph
  /\ groupNodes' = [i \in Group |-> <<>>]
  /\ UNCHANGED <<buildVars, dfgGraph, frames>>

-----------------------------------------------------------------------------
Build ==
  \/ \E g \in Graph, n \in ExecNode : MakeNode(g, n) \/ AddInputs(g, n) \/ AddOutputs(g, n)
  \/ \E g, s \in Graph : SubGraph(g, s) \/ AddInputsGraph(g, s) \/ AddOutputsGraph(g, s)
  \/ \E g \in Graph, n \in ExecNode, t \in Type : AddInput(g, n, t) \/ AddOutput(g, n, t)
  \/ \E g, s \in Graph, t \in Type : AddInputGraph(g, s, t) \/ AddOutputGraph(g, s, t)
  \/ \E x, y \in Endpoint : Edges(x, y) \/ \E t \in Type : Edge(x, y, t)

RegisterStep ==
  \/ \E n \in ExecNode : Register(n) \/ NoGroup(n)
  \/ \E s \in Graph : Nested(s)
  \/ Return

Next == Build \/ RegisterStep \/ Clear \/ \E g \in Graph : SetGraph(g)

Spec == Init /\ [][Next]_vars

-----------------------------------------------------------------------------
(* Properties                                                              *)

(* The assertions of tu_dfg_push_data, tu_internal_node_enqueue and        *)
(* worker_node_exec cannot fail: whatever the nesting and the order of the *)
(* calls, data reach a task or a state that has been created and that      *)
(* takes their type, from the program as from another node.                *)
Deliverable ==
  /\ \A e \in edges : /\ e[3] \in OutTypes[e[1]] /\ e[3] \in InTypes[e[2]]
                      /\ Created(e[1]) /\ Created(e[2])
  /\ \A g \in Graph : \A t \in DOMAIN inputs[g] : \A n \in inputs[g][t] :
       t \in InTypes[n] /\ Created(n)

(* Only a node that a graph lists for a type it outputs adds results to    *)
(* the result queue of the graph.                                          *)
SinkListed ==
  \A n \in ExecNode : sink[n] # NoGraph =>
    \E t \in OutTypes[n] \cap DOMAIN outputs[sink[n]] : n \in outputs[sink[n]][t]

Flat(g) == \A i \in 1 .. Len(members[g]) : members[g][i] \in ExecNode

Holds(nodes, n) == \E k \in 1 .. Len(nodes) : nodes[k] = n

(* The runner has the groups of the first i members. *)
HasGroups(i) == \A k \in 1 .. i : GroupOf[members[dfgGraph][k]] < NumGroups

(* When tu_dfg_set_graph has returned, and no member of the graph is a     *)
(* graph, the workers of every node's group know the node, up to the first *)
(* node whose group the runner lacks; no group ever knows that node or a   *)
(* later one, however often the graph has been set and extended.           *)
RegistersAll ==
  [][frames # <<>> /\ frames' = <<>> /\ Flat(dfgGraph) =>
       \A i \in 1 .. Len(members[dfgGraph]) :
         LET n == members[dfgGraph][i] IN
         /\ HasGroups(i) => Holds(groupNodes'[GroupOf[n]], n)
         /\ ~ HasGroups(i) => \A g \in Group : ~ Holds(groupNodes'[g], n)]_vars
=============================================================================
