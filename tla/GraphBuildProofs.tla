-------------------------- MODULE GraphBuildProofs --------------------------
(***************************************************************************)
(* For any nodes, graphs and types, and any sequence of calls that builds  *)
(* graphs from them: the data reach nodes that take their type, only the   *)
(* nodes that a graph lists add to its results, and of a graph without     *)
(* members that are graphs the nodes up to the first one without a group   *)
(* are registered, and no others.                                          *)
(***************************************************************************)
EXTENDS GraphBuild, SequenceTheorems, TLAPS

USE DEF buildVars, dfgVars, Call, Created

(* The lists of all graphs, of inputs or of outputs: well formed, and of   *)
(* created nodes with the type.                                            *)
Lists(maps, types) ==
  /\ maps \in [Graph -> Map]
  /\ \A g \in Graph : \A t \in DOMAIN maps[g] : \A n \in maps[g][t] :
       t \in types[n] /\ Created(n)

BuildInv ==
  /\ home \in [ExecNode -> Graph \cup {NoGraph}]
  /\ sink \in [ExecNode -> Graph \cup {NoGraph}]
  /\ edges \subseteq ExecNode \X ExecNode \X Type
  /\ Lists(inputs, InTypes) /\ Lists(outputs, OutTypes)
  /\ Deliverable /\ SinkListed

-----------------------------------------------------------------------------
(* The operations on the map of a graph                                    *)

LEMMA MapFacts ==
  ASSUME NEW map \in Map
  PROVE  /\ DOMAIN map \subseteq Type
         /\ map \in [DOMAIN map -> SUBSET ExecNode]
         /\ \A t \in DOMAIN map : map[t] \subseteq ExecNode
         /\ \A t : At(map, t) \subseteq ExecNode
         /\ Listed(map) \subseteq ExecNode
<1>1. PICK S \in SUBSET Type : map \in [S -> SUBSET ExecNode]
  BY DEF Map
<1> QED BY <1>1 DEF At, Listed

LEMMA MapIntro ==
  ASSUME NEW S \in SUBSET Type, NEW map \in [S -> SUBSET ExecNode]
  PROVE  map \in Map
BY DEF Map

(* A key that operator[] creates has no nodes.                             *)
LEMMA WithKeyFacts ==
  ASSUME NEW map \in Map, NEW t \in Type
  PROVE  /\ WithKey(map, t) \in Map
         /\ DOMAIN WithKey(map, t) = DOMAIN map \cup {t}
         /\ \A k \in DOMAIN map : WithKey(map, t)[k] = map[k]
         /\ t \notin DOMAIN map => WithKey(map, t)[t] = {}
<1>1. WithKey(map, t) \in [DOMAIN map \cup {t} -> SUBSET ExecNode]
  BY MapFacts DEF WithKey
<1>2. DOMAIN map \cup {t} \in SUBSET Type
  BY MapFacts
<1>3. WithKey(map, t) \in Map
  BY <1>1, <1>2, MapIntro
<1> QED BY <1>3 DEF WithKey

LEMMA PutFacts ==
  ASSUME NEW map \in Map, NEW t \in Type, NEW S \in SUBSET ExecNode
  PROVE  /\ Put(map, t, S) \in Map
         /\ DOMAIN Put(map, t, S) = DOMAIN map
         /\ \A k \in DOMAIN map :
              Put(map, t, S)[k] = IF k = t THEN map[k] \cup S ELSE map[k]
<1>1. map \in [DOMAIN map -> SUBSET ExecNode] /\ DOMAIN map \in SUBSET Type
  BY MapFacts
<1>2. /\ Put(map, t, S) \in [DOMAIN map -> SUBSET ExecNode]
      /\ \A k \in DOMAIN map :
              Put(map, t, S)[k] = IF k = t THEN map[k] \cup S ELSE map[k]
  BY <1>1 DEF Put
<1>3. Put(map, t, S) \in Map
  BY <1>1, <1>2, MapIntro
<1> QED BY <1>2, <1>3

LEMMA PutAllFacts ==
  ASSUME NEW map \in Map, NEW S \in SUBSET ExecNode, NEW types
  PROVE  /\ PutAll(map, S, types) \in Map
         /\ DOMAIN PutAll(map, S, types) = DOMAIN map
         /\ \A k \in DOMAIN map :
              PutAll(map, S, types)[k] = map[k] \cup {n \in S : k \in types[n]}
<1>1. map \in [DOMAIN map -> SUBSET ExecNode] /\ DOMAIN map \in SUBSET Type
  BY MapFacts
<1>2. PutAll(map, S, types) \in [DOMAIN map -> SUBSET ExecNode]
  BY <1>1 DEF PutAll
<1>3. PutAll(map, S, types) \in Map
  BY <1>1, <1>2, MapIntro
<1> QED BY <1>3 DEF PutAll

-----------------------------------------------------------------------------
(* The lists stay well typed when nodes that have the type are added, when *)
(* nodes are added to the types they have, and when a key is created.      *)
LEMMA ListsPut ==
  ASSUME NEW maps, NEW types, Lists(maps, types), NEW g \in Graph, NEW t \in Type,
         NEW S \in SUBSET ExecNode, \A n \in S : t \in types[n] /\ Created(n)
  PROVE  Lists([maps EXCEPT ![g] = Put(@, t, S)], types)
<1> DEFINE new == [maps EXCEPT ![g] = Put(@, t, S)]
<1>1. maps[g] \in Map /\ maps \in [Graph -> Map]
  BY DEF Lists
<1>2. /\ Put(maps[g], t, S) \in Map
      /\ DOMAIN Put(maps[g], t, S) = DOMAIN maps[g]
      /\ \A k \in DOMAIN maps[g] :
           Put(maps[g], t, S)[k] = IF k = t THEN maps[g][k] \cup S ELSE maps[g][k]
  BY <1>1, PutFacts
<1>3. new \in [Graph -> Map]
  BY <1>1, <1>2
<1>4. ASSUME NEW h \in Graph, NEW k \in DOMAIN new[h], NEW n \in new[h][k]
      PROVE  k \in types[n] /\ Created(n)
  <2>1. CASE h # g
    BY <1>1, <1>4, <2>1 DEF Lists
  <2>2. CASE h = g
    <3>1. new[h] = Put(maps[g], t, S)
      BY <1>1, <2>2
    <3>2. k \in DOMAIN maps[g]
      BY <1>2, <1>4, <3>1
    <3>3. n \in maps[g][k] \/ (k = t /\ n \in S)
      BY <1>2, <1>4, <3>1, <3>2
    <3> QED BY <3>2, <3>3 DEF Lists
  <2> QED BY <2>1, <2>2
<1> QED BY <1>3, <1>4 DEF Lists

LEMMA ListsPutAll ==
  ASSUME NEW maps, NEW types, Lists(maps, types), NEW g \in Graph,
         NEW S \in SUBSET ExecNode, \A n \in S : Created(n)
  PROVE  Lists([maps EXCEPT ![g] = PutAll(@, S, types)], types)
<1> DEFINE new == [maps EXCEPT ![g] = PutAll(@, S, types)]
<1>1. maps[g] \in Map /\ maps \in [Graph -> Map]
  BY DEF Lists
<1>2. /\ PutAll(maps[g], S, types) \in Map
      /\ DOMAIN PutAll(maps[g], S, types) = DOMAIN maps[g]
      /\ \A k \in DOMAIN maps[g] : PutAll(maps[g], S, types)[k]
                                     = maps[g][k] \cup {n \in S : k \in types[n]}
  BY <1>1, PutAllFacts
<1>3. new \in [Graph -> Map]
  BY <1>1, <1>2
<1>4. ASSUME NEW h \in Graph, NEW k \in DOMAIN new[h], NEW n \in new[h][k]
      PROVE  k \in types[n] /\ Created(n)
  <2>1. CASE h # g
    BY <1>1, <1>4, <2>1 DEF Lists
  <2>2. CASE h = g
    <3>1. new[h] = PutAll(maps[g], S, types)
      BY <1>1, <2>2
    <3>2. k \in DOMAIN maps[g]
      BY <1>2, <1>4, <3>1
    <3>3. n \in maps[g][k] \/ (n \in S /\ k \in types[n])
      BY <1>2, <1>4, <3>1, <3>2
    <3> QED BY <3>2, <3>3 DEF Lists
  <2> QED BY <2>1, <2>2
<1> QED BY <1>3, <1>4 DEF Lists

LEMMA ListsKey ==
  ASSUME NEW maps, NEW types, Lists(maps, types), NEW s \in Graph, NEW t \in Type
  PROVE  Lists([maps EXCEPT ![s] = WithKey(@, t)], types)
<1> DEFINE new == [maps EXCEPT ![s] = WithKey(@, t)]
<1>1. maps[s] \in Map /\ maps \in [Graph -> Map]
  BY DEF Lists
<1>2. /\ WithKey(maps[s], t) \in Map
      /\ DOMAIN WithKey(maps[s], t) = DOMAIN maps[s] \cup {t}
      /\ \A k \in DOMAIN maps[s] : WithKey(maps[s], t)[k] = maps[s][k]
      /\ t \notin DOMAIN maps[s] => WithKey(maps[s], t)[t] = {}
  BY <1>1, WithKeyFacts
<1>3. new \in [Graph -> Map]
  BY <1>1, <1>2
<1>4. ASSUME NEW h \in Graph, NEW k \in DOMAIN new[h], NEW n \in new[h][k]
      PROVE  k \in types[n] /\ Created(n)
  <2>1. CASE h # s
    BY <1>1, <1>4, <2>1 DEF Lists
  <2>2. CASE h = s
    <3>1. new[h] = WithKey(maps[s], t)
      BY <1>1, <2>2
    <3>2. k \in DOMAIN maps[s]
      BY <1>2, <1>4, <3>1
    <3>3. n \in maps[s][k]
      BY <1>2, <1>4, <3>1, <3>2
    <3> QED BY <3>2, <3>3 DEF Lists
  <2> QED BY <2>1, <2>2
<1> QED BY <1>3, <1>4 DEF Lists

(* The nodes of one list of a graph, and of some of its lists.             *)
LEMMA AtNodes ==
  ASSUME NEW maps, NEW types, Lists(maps, types), NEW s \in Graph, NEW t
  PROVE  /\ At(maps[s], t) \in SUBSET ExecNode
         /\ \A n \in At(maps[s], t) : t \in types[n] /\ Created(n)
<1>1. maps[s] \in Map
  BY DEF Lists
<1> QED BY <1>1, MapFacts DEF Lists, At

LEMMA ListedNodes ==
  ASSUME NEW maps, NEW types, Lists(maps, types), NEW s \in Graph,
         NEW T \in SUBSET DOMAIN maps[s]
  PROVE  LET S == UNION {maps[s][t] : t \in T}
         IN  S \in SUBSET ExecNode /\ \A n \in S : Created(n)
<1>1. maps[s] \in Map
  BY DEF Lists
<1>2. \A t \in T : maps[s][t] \subseteq ExecNode /\ \A n \in maps[s][t] : Created(n)
  BY <1>1, MapFacts DEF Lists
<1> QED BY <1>2

(* A sink stays right when lists only grow, and every new sink is listed.  *)
Grows(m1, m2) ==
  DOMAIN m1 \subseteq DOMAIN m2 /\ \A k \in DOMAIN m1 : m1[k] \subseteq m2[k]

LEMMA SinkKept ==
  ASSUME SinkListed, sink \in [ExecNode -> Graph \cup {NoGraph}],
         \A g \in Graph : Grows(outputs[g], outputs'[g]),
         \A n \in ExecNode :
           \/ sink'[n] \in {NoGraph, sink[n]}
           \/ \E t \in OutTypes[n] \cap DOMAIN outputs'[sink'[n]] :
                n \in outputs'[sink'[n]][t]
  PROVE  SinkListed'
<1> SUFFICES ASSUME NEW n \in ExecNode, sink'[n] # NoGraph
             PROVE  \E t \in OutTypes[n] \cap DOMAIN outputs'[sink'[n]] :
                      n \in outputs'[sink'[n]][t]
  BY DEF SinkListed
<1>1. CASE sink'[n] = sink[n]
  <2>1. sink[n] \in Graph
    BY <1>1
  <2>2. PICK t \in OutTypes[n] \cap DOMAIN outputs[sink[n]] : n \in outputs[sink[n]][t]
    BY <1>1 DEF SinkListed
  <2>3. t \in DOMAIN outputs'[sink[n]] /\ n \in outputs'[sink[n]][t]
    BY <2>1, <2>2 DEF Grows
  <2> QED BY <1>1, <2>2, <2>3
<1>2. CASE sink'[n] # sink[n]
  BY <1>2
<1> QED BY <1>1, <1>2

-----------------------------------------------------------------------------
(* The calls                                                               *)

(* New nodes, and the new sinks of a subgraph's outputs.                   *)
LEMMA NodeInv ==
  ASSUME BuildInv, NEW g \in Graph,
         \/ \E n \in ExecNode : MakeNode(g, n)
         \/ \E s \in Graph : SubGraph(g, s)
  PROVE  BuildInv'
<1>1. /\ UNCHANGED <<inputs, outputs, edges>>
      /\ home' \in [ExecNode -> Graph \cup {NoGraph}]
      /\ sink' \in [ExecNode -> Graph \cup {NoGraph}]
      /\ \A n \in ExecNode : /\ Created(n) => Created(n)'
                             /\ sink'[n] \in {NoGraph, sink[n]}
  <2>1. CASE \E n \in ExecNode : MakeNode(g, n)
    BY <2>1, BuildAssumption DEF BuildInv, MakeNode
  <2>2. CASE \E s \in Graph : SubGraph(g, s)
    BY <2>2 DEF BuildInv, SubGraph
  <2> QED BY <2>1, <2>2
<1>2. Lists(inputs, InTypes)' /\ Lists(outputs, OutTypes)'
  <2>1. /\ \A h \in Graph : \A t \in DOMAIN inputs[h] : inputs[h][t] \subseteq ExecNode
        /\ \A h \in Graph : \A t \in DOMAIN outputs[h] : outputs[h][t] \subseteq ExecNode
    BY MapFacts DEF BuildInv, Lists
  <2> QED BY <1>1, <2>1 DEF BuildInv, Lists
<1>3. Deliverable'
  <2>1. \A e \in edges : e[1] \in ExecNode /\ e[2] \in ExecNode
    BY DEF BuildInv
  <2> QED BY <1>1, <1>2, <2>1 DEF BuildInv, Deliverable, Lists
<1>4. SinkListed'
  BY <1>1, SinkKept DEF BuildInv, Grows
<1> QED BY <1>1, <1>2, <1>3, <1>4 DEF BuildInv

(* A call that changes the inputs of graphs only.                          *)
LEMMA InputsInv ==
  ASSUME BuildInv, NEW g \in Graph,
         \/ \E n \in ExecNode : AddInputs(g, n)
         \/ \E n \in ExecNode, t \in Type : AddInput(g, n, t)
         \/ \E s \in Graph : AddInputsGraph(g, s)
         \/ \E s \in Graph, t \in Type : AddInputGraph(g, s, t)
  PROVE  BuildInv'
<1>1. UNCHANGED <<home, outputs, edges, sink>>
  BY DEF AddInputs, AddInput, AddInputsGraph, AddInputGraph
<1>2. Lists(inputs', InTypes)
  <2>0. Lists(inputs, InTypes)
    BY DEF BuildInv
  <2>1. ASSUME NEW n \in ExecNode, AddInputs(g, n)
        PROVE  Lists(inputs', InTypes)
    <3>1. inputs' = [inputs EXCEPT ![g] = PutAll(@, {n}, InTypes)]
          /\ {n} \in SUBSET ExecNode /\ \A m \in {n} : Created(m)
      BY <2>1 DEF AddInputs
    <3>2. Lists([inputs EXCEPT ![g] = PutAll(@, {n}, InTypes)], InTypes)
      BY <2>0, <3>1, ListsPutAll
    <3> QED BY <3>1, <3>2
  <2>2. ASSUME NEW n \in ExecNode, NEW t \in Type, AddInput(g, n, t)
        PROVE  Lists(inputs', InTypes)
    <3>1. CASE t \in InTypes[n]
      <4> DEFINE S == {n}
      <4>1. inputs' = [inputs EXCEPT ![g] = Put(@, t, S)]
            /\ S \in SUBSET ExecNode /\ \A m \in S : t \in InTypes[m] /\ Created(m)
        BY <2>2, <3>1 DEF AddInput
      <4> HIDE DEF S
      <4>2. Lists([inputs EXCEPT ![g] = Put(@, t, S)], InTypes)
        BY <2>0, <4>1, ListsPut
      <4> QED BY <4>1, <4>2
    <3>2. CASE t \notin InTypes[n]
      BY <2>0, <2>2, <3>2 DEF AddInput
    <3> QED BY <3>1, <3>2
  <2>3. ASSUME NEW s \in Graph, AddInputsGraph(g, s)
        PROVE  Lists(inputs', InTypes)
    <3> DEFINE T == DOMAIN inputs[s] \ DOMAIN inputs[g]
               S == UNION {inputs[s][t] : t \in T}
    <3>0. T \in SUBSET DOMAIN inputs[s]
      OBVIOUS
    <3>1. S \in SUBSET ExecNode /\ \A n \in S : Created(n)
      <4> HIDE DEF T
      <4> QED BY <2>0, <3>0, ListedNodes
    <3>2. inputs' = [inputs EXCEPT ![g] = PutAll(@, S, InTypes)]
      BY <2>3 DEF AddInputsGraph
    <3> QED BY <2>0, <3>1, <3>2, ListsPutAll
  <2>4. ASSUME NEW s \in Graph, NEW t \in Type, AddInputGraph(g, s, t)
        PROVE  Lists(inputs', InTypes)
    <3> DEFINE S == At(inputs[s], t)
               keyed == [inputs EXCEPT ![s] = WithKey(@, t)]
    <3>1. S \in SUBSET ExecNode /\ \A n \in S : t \in InTypes[n] /\ Created(n)
      BY <2>0, AtNodes
    <3>2. Lists(keyed, InTypes)
      BY <2>0, ListsKey
    <3>3. Lists([keyed EXCEPT ![g] = Put(@, t, S)], InTypes)
      BY <3>1, <3>2, ListsPut
    <3>4. inputs' = [keyed EXCEPT ![g] = Put(@, t, S)]
      BY <2>0, <2>4 DEF AddInputGraph, Lists
    <3> QED BY <3>3, <3>4
  <2> QED BY <2>1, <2>2, <2>3, <2>4
<1>3. Lists(inputs, InTypes)' /\ Lists(outputs, OutTypes)' /\ SinkListed'
  BY <1>1, <1>2 DEF BuildInv, Lists, SinkListed
<1>4. Deliverable'
  BY <1>1, <1>3 DEF BuildInv, Deliverable, Lists
<1> QED BY <1>1, <1>3, <1>4 DEF BuildInv

(* A call that changes the outputs of graphs: the sinks that it sets are   *)
(* those of nodes that it lists.                                           *)
LEMMA OutputsInv ==
  ASSUME BuildInv, NEW g \in Graph, NEW S, S \subseteq ExecNode,
         UNCHANGED <<home, inputs, edges>>,
         Lists(outputs', OutTypes), \A h \in Graph : Grows(outputs[h], outputs'[h]),
         SinkTo(g, S),
         \A n \in S : \E t \in OutTypes[n] \cap DOMAIN outputs'[g] : n \in outputs'[g][t]
  PROVE  BuildInv'
<1>1. /\ sink' \in [ExecNode -> Graph \cup {NoGraph}]
      /\ \A n \in ExecNode : sink'[n] = IF n \in S THEN g ELSE sink[n]
  BY DEF SinkTo, BuildInv
<1>2. SinkListed'
  BY <1>1, SinkKept DEF BuildInv
<1>3. Lists(inputs, InTypes)' /\ Lists(outputs, OutTypes)'
  BY DEF BuildInv, Lists
<1>4. Deliverable'
  BY DEF BuildInv, Deliverable
<1> QED BY <1>1, <1>2, <1>3, <1>4 DEF BuildInv

(* What the calls add to the outputs of a graph is listed there.           *)
LEMMA PutGrows ==
  ASSUME NEW maps, NEW types, Lists(maps, types), NEW g \in Graph,
         NEW t \in Type, NEW S \in SUBSET ExecNode
  PROVE  LET new == [maps EXCEPT ![g] = Put(@, t, S)]
         IN  /\ \A h \in Graph : Grows(maps[h], new[h])
             /\ t \in DOMAIN maps[g] => t \in DOMAIN new[g] /\ S \subseteq new[g][t]
<1>1. maps[g] \in Map /\ maps \in [Graph -> Map]
  BY DEF Lists
<1>2. /\ DOMAIN Put(maps[g], t, S) = DOMAIN maps[g]
      /\ \A k \in DOMAIN maps[g] :
           Put(maps[g], t, S)[k] = IF k = t THEN maps[g][k] \cup S ELSE maps[g][k]
  BY <1>1, PutFacts
<1> QED BY <1>1, <1>2 DEF Grows

LEMMA PutAllGrows ==
  ASSUME NEW maps, NEW types, Lists(maps, types), NEW g \in Graph,
         NEW S \in SUBSET ExecNode
  PROVE  LET new == [maps EXCEPT ![g] = PutAll(@, S, types)]
         IN  /\ \A h \in Graph : Grows(maps[h], new[h])
             /\ \A n \in S : \A t \in types[n] \cap DOMAIN maps[g] :
                  t \in DOMAIN new[g] /\ n \in new[g][t]
<1>1. maps[g] \in Map /\ maps \in [Graph -> Map]
  BY DEF Lists
<1>2. /\ DOMAIN PutAll(maps[g], S, types) = DOMAIN maps[g]
      /\ \A k \in DOMAIN maps[g] : PutAll(maps[g], S, types)[k]
                                     = maps[g][k] \cup {n \in S : k \in types[n]}
  BY <1>1, PutAllFacts
<1> QED BY <1>1, <1>2 DEF Grows

LEMMA KeyGrows ==
  ASSUME NEW maps, NEW types, Lists(maps, types), NEW s \in Graph, NEW t \in Type
  PROVE  LET new == [maps EXCEPT ![s] = WithKey(@, t)]
         IN  \A h \in Graph : Grows(maps[h], new[h])
<1>1. maps[s] \in Map /\ maps \in [Graph -> Map]
  BY DEF Lists
<1>2. /\ DOMAIN WithKey(maps[s], t) = DOMAIN maps[s] \cup {t}
      /\ \A k \in DOMAIN maps[s] : WithKey(maps[s], t)[k] = maps[s][k]
  BY <1>1, WithKeyFacts
<1> QED BY <1>1, <1>2 DEF Grows

LEMMA AddOutputInv ==
  ASSUME BuildInv, NEW g \in Graph, NEW n \in ExecNode, NEW t \in Type,
         AddOutput(g, n, t)
  PROVE  BuildInv'
<1> DEFINE S == {n}
<1>0. Lists(outputs, OutTypes) /\ S \subseteq ExecNode
  BY DEF BuildInv
<1>1. CASE t \in DOMAIN outputs[g] \cap OutTypes[n]
  <2>1. outputs' = [outputs EXCEPT ![g] = Put(@, t, S)]
    BY <1>1 DEF AddOutput
  <2>2. /\ SinkTo(g, S)
        /\ UNCHANGED <<home, inputs, edges>>
        /\ \A m \in S : t \in OutTypes[m] /\ Created(m)
    BY <1>1 DEF AddOutput
  <2> HIDE DEF S
  <2>3. Lists(outputs', OutTypes)
    BY <1>0, <2>1, <2>2, ListsPut
  <2>4. \A h \in Graph : Grows(outputs[h], outputs'[h])
    BY <1>0, <2>1, PutGrows
  <2>5. t \in DOMAIN outputs'[g] /\ S \subseteq outputs'[g][t]
    BY <1>0, <1>1, <2>1, PutGrows
  <2>6. \A m \in S : \E k \in OutTypes[m] \cap DOMAIN outputs'[g] : m \in outputs'[g][k]
    BY <2>2, <2>5
  <2> QED BY <1>0, <2>2, <2>3, <2>4, <2>6, OutputsInv
<1>2. CASE t \notin DOMAIN outputs[g] \cap OutTypes[n]
  <2>1. /\ outputs' = outputs /\ SinkTo(g, {}) /\ UNCHANGED <<home, inputs, edges>>
        /\ {} \in SUBSET ExecNode /\ \A h \in Graph : Grows(outputs[h], outputs'[h])
    BY <1>2 DEF AddOutput, Grows
  <2>2. Lists(outputs', OutTypes)
    BY <1>0, <2>1
  <2> QED BY <2>1, <2>2, OutputsInv
<1> QED BY <1>1, <1>2

LEMMA AddOutputGraphInv ==
  ASSUME BuildInv, NEW g \in Graph, NEW s \in Graph, NEW t \in Type,
         AddOutputGraph(g, s, t)
  PROVE  BuildInv'
<1> DEFINE S == IF t \in DOMAIN outputs[g] THEN At(outputs[s], t) ELSE {}
           keyed == [outputs EXCEPT ![s] = WithKey(@, t)]
           new == [keyed EXCEPT ![g] = Put(@, t, S)]
<1>0. Lists(outputs, OutTypes)
  BY DEF BuildInv
<1>1. S \in SUBSET ExecNode /\ \A n \in S : t \in OutTypes[n] /\ Created(n)
  BY <1>0, AtNodes
<1>2. DOMAIN outputs[g] \subseteq DOMAIN keyed[g]
  BY <1>0, KeyGrows DEF Grows
<1>3. outputs' = new /\ SinkTo(g, S) /\ UNCHANGED <<home, inputs, edges>>
  BY DEF AddOutputGraph
<1>4. S # {} => t \in DOMAIN keyed[g]
  BY <1>2
<1>5. Lists(keyed, OutTypes) /\ \A h \in Graph : Grows(outputs[h], keyed[h])
  BY <1>0, ListsKey, KeyGrows
<1> HIDE DEF S, keyed
<1>6. Lists(new, OutTypes)
  BY <1>1, <1>5, ListsPut
<1>7. /\ \A h \in Graph : Grows(keyed[h], new[h])
      /\ S # {} => t \in DOMAIN new[g] /\ S \subseteq new[g][t]
  BY <1>1, <1>4, <1>5, PutGrows
<1> HIDE DEF new
<1>8. \A h \in Graph : Grows(outputs[h], new[h])
  BY <1>5, <1>7 DEF Grows
<1>9. \A n \in S : \E k \in OutTypes[n] \cap DOMAIN new[g] : n \in new[g][k]
  BY <1>1, <1>7
<1> QED BY <1>1, <1>3, <1>6, <1>8, <1>9, OutputsInv

(* Both calls that add what a graph and a node, or the nodes of another    *)
(* graph, have in common.                                                  *)
AllOutputs(g, S) ==
  /\ outputs' = [outputs EXCEPT ![g] = PutAll(@, S, OutTypes)]
  /\ SinkTo(g, {m \in S : OutTypes[m] \cap DOMAIN outputs[g] # {}})
  /\ UNCHANGED <<home, inputs, edges>>

LEMMA AddOutputsInv ==
  ASSUME BuildInv, NEW g \in Graph, NEW S \in SUBSET ExecNode,
         \A n \in S : Created(n), AllOutputs(g, S)
  PROVE  BuildInv'
<1> DEFINE sunk == {m \in S : OutTypes[m] \cap DOMAIN outputs[g] # {}}
<1>0. Lists(outputs, OutTypes) /\ sunk \subseteq ExecNode
  BY DEF BuildInv
<1>1. Lists(outputs', OutTypes)
  BY <1>0, ListsPutAll DEF AllOutputs
<1>2. /\ \A h \in Graph : Grows(outputs[h], outputs'[h])
      /\ \A n \in S : \A t \in OutTypes[n] \cap DOMAIN outputs[g] :
           t \in DOMAIN outputs'[g] /\ n \in outputs'[g][t]
  BY <1>0, PutAllGrows DEF AllOutputs
<1>3. \A n \in sunk : \E k \in OutTypes[n] \cap DOMAIN outputs'[g] : n \in outputs'[g][k]
  BY <1>2
<1>4. SinkTo(g, sunk) /\ UNCHANGED <<home, inputs, edges>>
  BY DEF AllOutputs
<1> HIDE DEF sunk
<1> QED BY <1>0, <1>1, <1>2, <1>3, <1>4, OutputsInv

LEMMA AddOutputsCalls ==
  ASSUME BuildInv, NEW g \in Graph,
         \/ \E n \in ExecNode : AddOutputs(g, n)
         \/ \E s \in Graph : AddOutputsGraph(g, s)
  PROVE  BuildInv'
<1>1. ASSUME NEW n \in ExecNode, AddOutputs(g, n)
      PROVE  BuildInv'
  <2> DEFINE S == {n}
  <2>1. /\ S \in SUBSET ExecNode /\ \A m \in S : Created(m)
        /\ AllOutputs(g, S)
    BY <1>1 DEF AddOutputs, AllOutputs
  <2> HIDE DEF S
  <2> QED BY <2>1, AddOutputsInv
<1>2. ASSUME NEW s \in Graph, AddOutputsGraph(g, s)
      PROVE  BuildInv'
  <2> DEFINE T == DOMAIN outputs[s] \ DOMAIN outputs[g]
             S == UNION {outputs[s][t] : t \in T}
  <2>0. Lists(outputs, OutTypes) /\ T \in SUBSET DOMAIN outputs[s]
    BY DEF BuildInv
  <2>1. AllOutputs(g, S)
    BY <1>2 DEF AddOutputsGraph, AllOutputs
  <2>2. S \in SUBSET ExecNode /\ \A m \in S : Created(m)
    <3> HIDE DEF T
    <3> QED BY <2>0, ListedNodes
  <2> HIDE DEF S
  <2> QED BY <2>1, <2>2, AddOutputsInv
<1> QED BY <1>1, <1>2

(* Edges join nodes that have been created and that have their type.       *)
EdgesTyped ==
  /\ edges \subseteq ExecNode \X ExecNode \X Type
  /\ \A e \in edges : /\ e[3] \in OutTypes[e[1]] /\ e[3] \in InTypes[e[2]]
                      /\ Created(e[1]) /\ Created(e[2])

LEMMA JoinedTyped ==
  ASSUME EdgesTyped, home' = home,
         NEW S, S \subseteq ExecNode, \A n \in S : Created(n),
         NEW R, R \subseteq ExecNode, \A n \in R : Created(n),
         NEW T, T \subseteq Type,
         edges' = edges \cup Joined(S, R, T)
  PROVE  EdgesTyped'
<1>1. ASSUME NEW e \in Joined(S, R, T)
      PROVE  /\ e \in ExecNode \X ExecNode \X Type
             /\ e[3] \in OutTypes[e[1]] /\ e[3] \in InTypes[e[2]]
             /\ Created(e[1]) /\ Created(e[2])
  BY <1>1 DEF Joined
<1> QED BY <1>1 DEF EdgesTyped

(* What an end of an edge stands for.                                      *)
LEMMA EndNodes ==
  ASSUME NEW maps, NEW types, Lists(maps, types), NEW x \in Endpoint, NEW t
  PROVE  /\ LET S == IF x \in Graph THEN At(maps[x], t) ELSE {x}
            IN  S \subseteq ExecNode /\ \A n \in S : Created(n)
         /\ LET S == IF x \in Graph THEN Listed(maps[x]) ELSE {x}
            IN  S \subseteq ExecNode /\ \A n \in S : Created(n)
<1>1. CASE x \in Graph
  <2>1. At(maps[x], t) \subseteq ExecNode /\ \A n \in At(maps[x], t) : Created(n)
    BY <1>1, AtNodes
  <2>2. Listed(maps[x]) \subseteq ExecNode /\ \A n \in Listed(maps[x]) : Created(n)
    BY <1>1, ListedNodes DEF Listed
  <2> QED BY <1>1, <2>1, <2>2
<1>2. CASE x \notin Graph
  BY <1>2 DEF Endpoint
<1> QED BY <1>1, <1>2

(* Edges are added, and the keys that operator[] creates.                  *)
LEMMA ConnectInv ==
  ASSUME BuildInv, UNCHANGED <<home, sink>>, EdgesTyped',
         Lists(inputs', InTypes), Lists(outputs', OutTypes),
         \A g \in Graph : Grows(outputs[g], outputs'[g])
  PROVE  BuildInv'
<1>1. SinkListed'
  BY SinkKept DEF BuildInv
<1>2. Lists(inputs, InTypes)' /\ Lists(outputs, OutTypes)'
  BY DEF Lists
<1>3. Deliverable'
  BY <1>2 DEF EdgesTyped, Deliverable, Lists
<1> QED BY <1>1, <1>2, <1>3 DEF BuildInv, EdgesTyped

LEMMA EdgeInv ==
  ASSUME BuildInv, NEW x \in Endpoint, NEW y \in Endpoint, NEW t \in Type,
         Edge(x, y, t)
  PROVE  BuildInv'
<1> DEFINE S == IF x \in Graph THEN At(outputs[x], t) ELSE {x}
           R == IF y \in Graph THEN At(inputs[y], t) ELSE {y}
<1>0. Lists(inputs, InTypes) /\ Lists(outputs, OutTypes) /\ EdgesTyped
  BY DEF BuildInv, EdgesTyped, Deliverable
<1>1. /\ S \subseteq ExecNode /\ \A n \in S : Created(n)
      /\ R \subseteq ExecNode /\ \A n \in R : Created(n)
  BY <1>0, EndNodes
<1>2. edges' = edges \cup Joined(S, R, {t}) /\ UNCHANGED <<home, sink>>
  BY DEF Edge
<1>3. outputs' = IF x \in Graph THEN [outputs EXCEPT ![x] = WithKey(@, t)] ELSE outputs
  BY DEF Edge
<1>4. \/ inputs' = inputs
      \/ y \in Graph /\ inputs' = [inputs EXCEPT ![y] = WithKey(@, t)]
  BY DEF Edge
<1> HIDE DEF S, R
<1>5. EdgesTyped'
  BY <1>0, <1>1, <1>2, JoinedTyped
<1>6. Lists(inputs', InTypes)
  BY <1>0, <1>4, ListsKey
<1>7. Lists(outputs', OutTypes)
  BY <1>0, <1>3, ListsKey
<1>8. \A g \in Graph : Grows(outputs[g], outputs'[g])
  <2>1. CASE x \in Graph
    BY <1>0, <1>3, <2>1, KeyGrows
  <2>2. CASE x \notin Graph
    BY <1>3, <2>2 DEF Grows
  <2> QED BY <2>1, <2>2
<1>9. UNCHANGED <<home, sink>>
  BY <1>2
<1> QED BY <1>5, <1>6, <1>7, <1>8, <1>9, ConnectInv

LEMMA EdgesInv ==
  ASSUME BuildInv, NEW x \in Endpoint, NEW y \in Endpoint, Edges(x, y)
  PROVE  BuildInv'
<1> DEFINE S == IF x \in Graph THEN Listed(outputs[x]) ELSE {x}
           R == IF y \in Graph THEN Listed(inputs[y]) ELSE {y}
<1>0. Lists(inputs, InTypes) /\ Lists(outputs, OutTypes) /\ EdgesTyped
  BY DEF BuildInv, EdgesTyped, Deliverable
<1>1. /\ S \subseteq ExecNode /\ \A n \in S : Created(n)
      /\ R \subseteq ExecNode /\ \A n \in R : Created(n)
  BY <1>0, EndNodes
<1>2. /\ edges' = edges \cup Joined(S, R, Type)
      /\ UNCHANGED <<home, sink, inputs, outputs>>
  BY DEF Edges
<1> HIDE DEF S, R
<1>3. EdgesTyped'
  BY <1>0, <1>1, <1>2, JoinedTyped
<1>4. /\ Lists(inputs', InTypes) /\ Lists(outputs', OutTypes)
      /\ \A g \in Graph : Grows(outputs[g], outputs'[g])
  BY <1>0, <1>2 DEF Grows
<1> QED BY <1>2, <1>3, <1>4, ConnectInv

-----------------------------------------------------------------------------
LEMMA InitBuild == Init => BuildInv
<1> SUFFICES ASSUME Init PROVE BuildInv
  OBVIOUS
<1>1. Lists(inputs, InTypes)
  <2>1. \A g \in Graph : inputs[g] = [t \in GraphIn[g] |-> {}] /\ inputs[g] \in Map
    BY BuildAssumption, MapIntro DEF Init
  <2> QED BY <2>1 DEF Init, Lists
<1>2. Lists(outputs, OutTypes)
  <2>1. \A g \in Graph : outputs[g] = [t \in GraphOut[g] |-> {}] /\ outputs[g] \in Map
    BY BuildAssumption, MapIntro DEF Init
  <2> QED BY <2>1 DEF Init, Lists
<1>3. Deliverable /\ SinkListed
  BY <1>1 DEF Init, Deliverable, SinkListed, Lists
<1> QED BY <1>1, <1>2, <1>3 DEF Init, BuildInv

LEMMA StepBuild ==
  ASSUME BuildInv, [Next]_vars
  PROVE  BuildInv'
<1>1. CASE Build
  <2>1. ASSUME NEW g \in Graph, NEW n \in ExecNode,
               MakeNode(g, n) \/ AddInputs(g, n) \/ AddOutputs(g, n)
        PROVE  BuildInv'
    BY <2>1, NodeInv, InputsInv, AddOutputsCalls
  <2>2. ASSUME NEW g \in Graph, NEW s \in Graph,
               SubGraph(g, s) \/ AddInputsGraph(g, s) \/ AddOutputsGraph(g, s)
        PROVE  BuildInv'
    BY <2>2, NodeInv, InputsInv, AddOutputsCalls
  <2>3. ASSUME NEW g \in Graph, NEW n \in ExecNode, NEW t \in Type,
               AddInput(g, n, t) \/ AddOutput(g, n, t)
        PROVE  BuildInv'
    BY <2>3, InputsInv, AddOutputInv
  <2>4. ASSUME NEW g \in Graph, NEW s \in Graph, NEW t \in Type,
               AddInputGraph(g, s, t) \/ AddOutputGraph(g, s, t)
        PROVE  BuildInv'
    BY <2>4, InputsInv, AddOutputGraphInv
  <2>5. ASSUME NEW x \in Endpoint, NEW y \in Endpoint,
               Edges(x, y) \/ \E t \in Type : Edge(x, y, t)
        PROVE  BuildInv'
    BY <2>5, EdgeInv, EdgesInv
  <2> QED BY <1>1, <2>1, <2>2, <2>3, <2>4, <2>5 DEF Build
<1>2. CASE UNCHANGED buildVars
  BY <1>2 DEF BuildInv, Lists, Deliverable, SinkListed
<1>3. RegisterStep => UNCHANGED buildVars
  BY DEF RegisterStep, Register, NoGroup, Nested, Return
<1>4. Clear \/ (\E g \in Graph : SetGraph(g)) => UNCHANGED buildVars
  BY DEF Clear, SetGraph
<1>5. UNCHANGED vars => UNCHANGED buildVars
  BY DEF vars
<1> QED BY <1>1, <1>2, <1>3, <1>4, <1>5 DEF Next

(* The lists of every graph hold created nodes that have the type, and     *)
(* edges and sinks agree with them, however the calls are nested.          *)
THEOREM BuildInvariance == Spec => []BuildInv
BY InitBuild, StepBuild, PTL DEF Spec

(* Data reach nodes that have been created and take their type.            *)
THEOREM DataDeliverable == Spec => []Deliverable
<1>1. BuildInv => Deliverable
  BY DEF BuildInv
<1> QED BY <1>1, BuildInvariance, PTL

(* Only nodes listed for an output of a graph add results to its queue.    *)
THEOREM ResultsListed == Spec => []SinkListed
<1>1. BuildInv => SinkListed
  BY DEF BuildInv
<1> QED BY <1>1, BuildInvariance, PTL

-----------------------------------------------------------------------------
(* Registration                                                            *)

RegTyped ==
  /\ home \in [ExecNode -> Graph \cup {NoGraph}]
  /\ members \in [Graph -> Seq(ExecNode \cup Graph)]
  /\ dfgGraph \in Graph \cup {NoGraph}
  /\ groupNodes \in [Group -> Seq(ExecNode)]
  /\ frames \in Seq(Nat \ {0})
  /\ frames # <<>> => dfgGraph \in Graph
  /\ calls \in Nat

(* A graph has a task or state as a member at most once.                   *)
MembersOnce ==
  \A g \in Graph : \A i \in 1 .. Len(members[g]) : members[g][i] \in ExecNode =>
    /\ Created(members[g][i])
    /\ \A j \in 1 .. Len(members[g]) : members[g][j] = members[g][i] => i = j

Known(n) == Holds(groupNodes[GroupOf[n]], n)

(* In a graph without members that are graphs there is one call, and the   *)
(* members it has passed are registered.                                   *)
Passed ==
  frames # <<>> /\ Flat(dfgGraph) =>
    /\ Len(frames) = 1
    /\ \A i \in 1 .. Len(members[dfgGraph]) : i < frames[1] =>
         LET n == members[dfgGraph][i] IN GroupOf[n] < NumGroups /\ Known(n)

(* What is registered is a member before the first without a group.        *)
Reached(n) ==
  \E i \in 1 .. Len(members[dfgGraph]) : members[dfgGraph][i] = n /\ HasGroups(i)

OnlyReached ==
  \A g \in Group : \A n \in ExecNode : Holds(groupNodes[g], n) =>
    /\ dfgGraph \in Graph
    /\ Flat(dfgGraph) => Reached(n)

RegInv == RegTyped /\ MembersOnce /\ Passed /\ OnlyReached

LEMMA InitReg == Init => RegInv
BY DEF Init, RegInv, RegTyped, MembersOnce, Passed, OnlyReached, Holds

(* The steps that neither register nor forget a node, if they keep or      *)
(* extend the members: what is registered stays before the first node      *)
(* without a group.                                                        *)
LEMMA KeptReached ==
  ASSUME OnlyReached, groupNodes' = groupNodes,
         dfgGraph' = dfgGraph \/ dfgGraph \notin Graph,
         \A g \in Graph :
           /\ Len(members[g]) \in Nat /\ Len(members'[g]) \in Nat
           /\ Len(members[g]) <= Len(members'[g])
           /\ \A i \in 1 .. Len(members[g]) : members'[g][i] = members[g][i]
  PROVE  OnlyReached'
<1> SUFFICES ASSUME NEW g \in Group, NEW n \in ExecNode, Holds(groupNodes[g], n)
             PROVE  dfgGraph' \in Graph /\ (Flat(dfgGraph)' => Reached(n)')
  BY DEF OnlyReached
<1>1. dfgGraph \in Graph /\ dfgGraph' = dfgGraph
  BY DEF OnlyReached
<1>2. ASSUME Flat(dfgGraph)'
      PROVE  Reached(n)'
  <2>1. Flat(dfgGraph)
    <3>1. \A i \in 1 .. Len(members[dfgGraph]) : i \in 1 .. Len(members'[dfgGraph])
      BY <1>1
    <3> QED BY <1>1, <1>2, <3>1 DEF Flat
  <2>2. PICK i \in 1 .. Len(members[dfgGraph]) :
          members[dfgGraph][i] = n /\ HasGroups(i)
    BY <2>1 DEF OnlyReached, Reached
  <2>3. i \in 1 .. Len(members'[dfgGraph]) /\ members'[dfgGraph][i] = n
    BY <1>1, <2>2
  <2>4. \A k \in 1 .. i : members'[dfgGraph][k] = members[dfgGraph][k]
    BY <1>1
  <2>5. HasGroups(i)'
    BY <1>1, <2>2, <2>4 DEF HasGroups
  <2> QED BY <1>1, <2>3, <2>5 DEF Reached
<1> QED BY <1>1, <1>2

LEMMA BuildReg ==
  ASSUME RegInv, Build
  PROVE  RegInv'
<1>1. frames = <<>> /\ calls' = calls + 1 /\ UNCHANGED dfgVars
  BY DEF Build, MakeNode, SubGraph, AddInput, AddInputGraph, AddInputs, AddInputsGraph,
         AddOutput, AddOutputGraph, AddOutputs, AddOutputsGraph, Edge, Edges
<1>2. \/ UNCHANGED <<home, members>>
      \/ \E g \in Graph, n \in ExecNode : MakeNode(g, n)
      \/ \E g, s \in Graph : SubGraph(g, s)
  BY DEF Build, AddInput, AddInputGraph, AddInputs, AddInputsGraph,
         AddOutput, AddOutputGraph, AddOutputs, AddOutputsGraph, Edge, Edges
<1>3. /\ members \in [Graph -> Seq(ExecNode \cup Graph)]
      /\ home \in [ExecNode -> Graph \cup {NoGraph}] /\ MembersOnce
      /\ \A h \in Graph : Len(members[h]) \in Nat
  BY DEF RegInv, RegTyped
<1>4. ASSUME NEW g \in Graph, NEW m \in ExecNode \cup Graph,
             members' = [members EXCEPT ![g] = Append(@, m)]
      PROVE  /\ members' \in [Graph -> Seq(ExecNode \cup Graph)]
             /\ \A h \in Graph : h # g => members'[h] = members[h]
             /\ Len(members[g]) \in Nat /\ Len(members'[g]) = Len(members[g]) + 1
             /\ members'[g][Len(members[g]) + 1] = m
             /\ \A i \in 1 .. Len(members[g]) : members'[g][i] = members[g][i]
  <2>1. members[g] \in Seq(ExecNode \cup Graph) /\ members'[g] = Append(members[g], m)
    BY <1>3, <1>4
  <2>2. members' \in [Graph -> Seq(ExecNode \cup Graph)]
    BY <1>3, <1>4
  <2> QED BY <1>3, <1>4, <2>1, <2>2
<1>5. /\ home' \in [ExecNode -> Graph \cup {NoGraph}]
      /\ members' \in [Graph -> Seq(ExecNode \cup Graph)]
      /\ \A g \in Graph : /\ Len(members[g]) \in Nat /\ Len(members'[g]) \in Nat
                          /\ Len(members[g]) <= Len(members'[g])
                          /\ \A i \in 1 .. Len(members[g]) : members'[g][i] = members[g][i]
      /\ MembersOnce'
  <2>1. CASE UNCHANGED <<home, members>>
    BY <1>3, <2>1 DEF MembersOnce
  <2>2. ASSUME NEW g \in Graph, NEW n \in ExecNode, MakeNode(g, n)
        PROVE  /\ home' \in [ExecNode -> Graph \cup {NoGraph}]
               /\ members' \in [Graph -> Seq(ExecNode \cup Graph)]
               /\ \A h \in Graph : /\ Len(members[h]) \in Nat /\ Len(members'[h]) \in Nat
                                   /\ Len(members[h]) <= Len(members'[h])
                                   /\ \A i \in 1 .. Len(members[h]) :
                                        members'[h][i] = members[h][i]
               /\ MembersOnce'
    <3>1. /\ members' = [members EXCEPT ![g] = Append(@, n)]
          /\ home' = [home EXCEPT ![n] = g] /\ home[n] = NoGraph
      BY <2>2 DEF MakeNode
    <3>2. /\ members' \in [Graph -> Seq(ExecNode \cup Graph)]
          /\ \A h \in Graph : h # g => members'[h] = members[h]
          /\ Len(members[g]) \in Nat /\ Len(members'[g]) = Len(members[g]) + 1
          /\ members'[g][Len(members[g]) + 1] = n
          /\ \A i \in 1 .. Len(members[g]) : members'[g][i] = members[g][i]
      BY <1>4, <3>1
    <3>3. /\ home' \in [ExecNode -> Graph \cup {NoGraph}]
          /\ home'[n] = g /\ \A x \in ExecNode : x # n => home'[x] = home[x]
      BY <1>3, <3>1
    <3>4. ASSUME NEW h \in Graph, NEW i \in 1 .. Len(members'[h]), members'[h][i] \in ExecNode
          PROVE  /\ home'[members'[h][i]] # NoGraph
                 /\ \A j \in 1 .. Len(members'[h]) : members'[h][j] = members'[h][i] => i = j
      <4>1. \A k \in 1 .. Len(members[h]) : members[h][k] \in ExecNode =>
              members[h][k] # n /\ home'[members[h][k]] # NoGraph
        BY <1>3, <3>1, <3>3 DEF MembersOnce
      <4>2. CASE h # g
        BY <1>3, <3>2, <3>4, <4>1, <4>2 DEF MembersOnce
      <4>3. CASE h = g /\ i = Len(members[g]) + 1
        <5>1. members'[h][i] = n /\ home'[n] # NoGraph
          BY <3>2, <3>3, <4>3, BuildAssumption
        <5>2. ASSUME NEW j \in 1 .. Len(members'[h]), members'[h][j] = n, i # j
              PROVE  FALSE
          <6>1. j \in 1 .. Len(members[h])
            BY <3>2, <4>3, <5>2
          <6>2. members[h][j] = n
            BY <3>2, <4>3, <5>2, <6>1
          <6> QED BY <4>1, <6>1, <6>2
        <5> QED BY <5>1, <5>2
      <4>4. CASE h = g /\ i \in 1 .. Len(members[g])
        <5>1. members'[h][i] = members[h][i] /\ members[h][i] \in ExecNode /\ i \in 1 .. Len(members[h])
          BY <3>2, <3>4, <4>4
        <5>2. ASSUME NEW j \in 1 .. Len(members'[h]), members'[h][j] = members'[h][i]
              PROVE  i = j
          <6>1. CASE j = Len(members[h]) + 1
            BY <3>2, <4>1, <4>4, <5>1, <5>2, <6>1
          <6>2. CASE j \in 1 .. Len(members[h])
            BY <1>3, <3>2, <4>4, <5>1, <5>2, <6>2 DEF MembersOnce
          <6> QED BY <3>2, <4>4, <5>2, <6>1, <6>2
        <5> QED BY <4>1, <5>1, <5>2
      <4> QED BY <3>2, <4>2, <4>3, <4>4
    <3>5. MembersOnce'
      BY <3>4 DEF MembersOnce
    <3>6. \A h \in Graph : /\ Len(members[h]) \in Nat /\ Len(members'[h]) \in Nat
                            /\ Len(members[h]) <= Len(members'[h])
                            /\ \A i \in 1 .. Len(members[h]) : members'[h][i] = members[h][i]
      <4>1. ASSUME NEW h \in Graph
            PROVE  /\ Len(members[h]) \in Nat /\ Len(members'[h]) \in Nat
                   /\ Len(members[h]) <= Len(members'[h])
                   /\ \A i \in 1 .. Len(members[h]) : members'[h][i] = members[h][i]
        <5>1. CASE h = g
          BY <3>2, <5>1
        <5>2. CASE h # g
          BY <1>3, <3>2, <5>2
        <5> QED BY <5>1, <5>2
      <4> QED BY <4>1
    <3> QED BY <3>2, <3>3, <3>5, <3>6
  <2>3. ASSUME NEW g \in Graph, NEW s \in Graph, SubGraph(g, s)
        PROVE  /\ home' \in [ExecNode -> Graph \cup {NoGraph}]
               /\ members' \in [Graph -> Seq(ExecNode \cup Graph)]
               /\ \A h \in Graph : /\ Len(members[h]) \in Nat /\ Len(members'[h]) \in Nat
                                   /\ Len(members[h]) <= Len(members'[h])
                                   /\ \A i \in 1 .. Len(members[h]) :
                                        members'[h][i] = members[h][i]
               /\ MembersOnce'
    <3>1. members' = [members EXCEPT ![g] = Append(@, s)] /\ home' = home /\ s \notin ExecNode
      BY <2>3, BuildAssumption DEF SubGraph
    <3>2. /\ members' \in [Graph -> Seq(ExecNode \cup Graph)]
          /\ \A h \in Graph : h # g => members'[h] = members[h]
          /\ Len(members[g]) \in Nat /\ Len(members'[g]) = Len(members[g]) + 1
          /\ members'[g][Len(members[g]) + 1] = s
          /\ \A i \in 1 .. Len(members[g]) : members'[g][i] = members[g][i]
      BY <1>4, <3>1
    <3>3. ASSUME NEW h \in Graph, NEW i \in 1 .. Len(members'[h]), members'[h][i] \in ExecNode
          PROVE  /\ home'[members'[h][i]] # NoGraph
                 /\ \A j \in 1 .. Len(members'[h]) : members'[h][j] = members'[h][i] => i = j
      <4>1. CASE h # g
        BY <1>3, <3>1, <3>2, <3>3, <4>1 DEF MembersOnce
      <4>2. CASE h = g
        <5>1. i \in 1 .. Len(members[g])
          BY <3>1, <3>2, <3>3, <4>2
        <5>2. members'[h][i] = members[h][i] /\ i \in 1 .. Len(members[h])
          BY <3>2, <4>2, <5>1
        <5>3. ASSUME NEW j \in 1 .. Len(members'[h]), members'[h][j] = members'[h][i]
              PROVE  i = j
          <6>1. j \in 1 .. Len(members[h])
            BY <3>1, <3>2, <3>3, <4>2, <5>3
          <6> QED BY <1>3, <3>2, <3>3, <4>2, <5>2, <5>3, <6>1 DEF MembersOnce
        <5> QED BY <1>3, <3>1, <3>3, <5>2, <5>3 DEF MembersOnce
      <4> QED BY <4>1, <4>2
    <3>4. MembersOnce'
      BY <3>3 DEF MembersOnce
    <3> QED BY <1>3, <3>1, <3>2, <3>4
  <2> QED BY <1>2, <2>1, <2>2, <2>3
<1>6. OnlyReached'
  BY <1>1, <1>5, KeptReached DEF RegInv
<1> QED BY <1>1, <1>5, <1>6 DEF RegInv, RegTyped, Passed

LEMMA RegisterReg ==
  ASSUME RegInv, NEW n \in ExecNode, Register(n)
  PROVE  RegInv'
<1> DEFINE g == GroupOf[n]
<1>1. /\ frames # <<>> /\ frames[Len(frames)] <= Len(members[dfgGraph])
      /\ n = members[dfgGraph][frames[Len(frames)]]
      /\ GroupOf[n] < NumGroups
      /\ groupNodes' = [groupNodes EXCEPT ![g] = Append(@, n)]
      /\ frames' = [frames EXCEPT ![Len(frames)] = @ + 1]
      /\ UNCHANGED <<home, members, dfgGraph, calls>>
  BY DEF Register, AtMember, Advance, Top
<1>2. g \in Group
  BY <1>1, BuildAssumption DEF Group
<1>3. /\ frames \in Seq(Nat \ {0}) /\ groupNodes \in [Group -> Seq(ExecNode)]
      /\ Len(frames) \in Nat \ {0}
  BY <1>1 DEF RegInv, RegTyped
<1>4. frames' \in Seq(Nat \ {0}) /\ Len(frames') = Len(frames) /\ frames' # <<>>
  BY <1>1, <1>3
<1>5. groupNodes' \in [Group -> Seq(ExecNode)]
  BY <1>1, <1>2, <1>3
<1>6. RegTyped'
  BY <1>1, <1>4, <1>5 DEF RegInv, RegTyped
<1>7. /\ \A m \in ExecNode : GroupOf[m] < NumGroups /\ Known(m) => Known(m)'
      /\ Known(n)'
  <2>1. /\ groupNodes'[g] = Append(groupNodes[g], n)
        /\ groupNodes[g] \in Seq(ExecNode)
        /\ \A h \in Group : h # g => groupNodes'[h] = groupNodes[h]
    BY <1>1, <1>2, <1>3
  <2>2. /\ Len(groupNodes'[g]) = Len(groupNodes[g]) + 1
        /\ groupNodes'[g][Len(groupNodes[g]) + 1] = n
        /\ \A k \in 1 .. Len(groupNodes[g]) : groupNodes'[g][k] = groupNodes[g][k]
    BY <2>1
  <2>3. ASSUME NEW m \in ExecNode, GroupOf[m] < NumGroups, Known(m)
        PROVE  Known(m)'
    <3>1. GroupOf[m] \in Group
      BY <2>3, BuildAssumption DEF Group
    <3>2. CASE GroupOf[m] = g
      BY <2>1, <2>2, <2>3, <3>2 DEF Known, Holds
    <3>3. CASE GroupOf[m] # g
      BY <2>1, <2>3, <3>1, <3>3 DEF Known, Holds
    <3> QED BY <3>2, <3>3
  <2>4. Known(n)'
    <3> DEFINE k == Len(groupNodes[g]) + 1
    <3>1. k \in 1 .. Len(groupNodes'[g]) /\ groupNodes'[g][k] = n
      BY <2>1, <2>2
    <3> QED BY <3>1 DEF Known, Holds
  <2> QED BY <2>3, <2>4
<1>8. Passed'
  <2> SUFFICES ASSUME Flat(dfgGraph)
               PROVE  /\ Len(frames') = 1
                      /\ \A i \in 1 .. Len(members[dfgGraph]) : i < frames'[1] =>
                           LET m == members[dfgGraph][i]
                           IN  GroupOf[m] < NumGroups /\ Known(m)'
    BY <1>1 DEF Passed, Flat
  <2>1. /\ Len(frames) = 1
        /\ \A i \in 1 .. Len(members[dfgGraph]) : i < frames[1] =>
             LET m == members[dfgGraph][i] IN GroupOf[m] < NumGroups /\ Known(m)
    BY <1>1 DEF RegInv, Passed
  <2>2. frames'[1] = frames[1] + 1 /\ frames[1] \in Nat
    BY <1>1, <1>3, <2>1
  <2>3. ASSUME NEW i \in 1 .. Len(members[dfgGraph]), i < frames'[1]
        PROVE  LET m == members[dfgGraph][i]
               IN  GroupOf[m] < NumGroups /\ Known(m)'
    <3>1. PICK m \in ExecNode : m = members[dfgGraph][i]
      BY DEF Flat
    <3>2. CASE i < frames[1]
      <4>1. GroupOf[m] < NumGroups /\ Known(m)
        BY <2>1, <3>1, <3>2
      <4>2. GroupOf[m] < NumGroups /\ Known(m)'
        BY <1>7, <4>1
      <4> QED BY <1>1, <3>1, <4>2
    <3>3. CASE i = frames[1]
      BY <1>1, <1>7, <2>1, <3>3
    <3> QED BY <2>2, <2>3, <3>2, <3>3
  <2> QED BY <1>4, <2>1, <2>3
<1>9. MembersOnce'
  BY <1>1 DEF RegInv, MembersOnce
<1>10. OnlyReached'
  <2>1. \A h \in Group, m \in ExecNode :
          Holds(groupNodes'[h], m) => Holds(groupNodes[h], m) \/ m = n
    <3>1. /\ groupNodes'[g] = Append(groupNodes[g], n)
          /\ groupNodes[g] \in Seq(ExecNode)
          /\ \A h \in Group : h # g => groupNodes'[h] = groupNodes[h]
      BY <1>1, <1>2, <1>3
    <3>2. /\ Len(groupNodes'[g]) = Len(groupNodes[g]) + 1
          /\ groupNodes'[g][Len(groupNodes[g]) + 1] = n
          /\ \A k \in 1 .. Len(groupNodes[g]) : groupNodes'[g][k] = groupNodes[g][k]
          /\ Len(groupNodes[g]) \in Nat
      BY <3>1
    <3>3. \A m \in ExecNode : Holds(groupNodes'[g], m) => Holds(groupNodes[g], m) \/ m = n
      BY <3>2 DEF Holds
    <3> QED BY <3>1, <3>3
  <2>2. dfgGraph \in Graph
    BY <1>1 DEF RegInv, RegTyped
  <2>3. ASSUME Flat(dfgGraph)
        PROVE  Reached(n)
    <3> DEFINE i == frames[1]
    <3>1. /\ Len(frames) = 1 /\ i \in Nat \ {0}
          /\ \A k \in 1 .. Len(members[dfgGraph]) : k < i =>
               GroupOf[members[dfgGraph][k]] < NumGroups
      BY <1>1, <1>3, <2>3 DEF RegInv, Passed
    <3>2. Len(members[dfgGraph]) \in Nat
      BY <2>2 DEF RegInv, RegTyped
    <3>3. i \in 1 .. Len(members[dfgGraph]) /\ members[dfgGraph][i] = n
      BY <1>1, <3>1, <3>2
    <3>4. HasGroups(i)
      <4> SUFFICES ASSUME NEW k \in 1 .. i
                   PROVE  GroupOf[members[dfgGraph][k]] < NumGroups
        BY DEF HasGroups
      <4>1. k \in 1 .. Len(members[dfgGraph])
        BY <3>1, <3>2, <3>3
      <4>2. CASE k = i
        BY <1>1, <3>3, <4>2
      <4>3. CASE k < i
        BY <3>1, <4>1, <4>3
      <4> QED BY <3>1, <4>2, <4>3
    <3> QED BY <3>3, <3>4 DEF Reached
  <2>4. /\ \A m : Reached(m)' <=> Reached(m)
        /\ Flat(dfgGraph)' <=> Flat(dfgGraph)
    BY <1>1 DEF Reached, HasGroups, Flat
  <2> QED BY <1>1, <2>1, <2>2, <2>3, <2>4 DEF RegInv, OnlyReached
<1> QED BY <1>6, <1>8, <1>9, <1>10 DEF RegInv

LEMMA OtherReg ==
  ASSUME RegInv,
         \/ \E n \in ExecNode : NoGroup(n)
         \/ \E s \in Graph : Nested(s)
         \/ Return \/ Clear \/ UNCHANGED vars
         \/ \E g \in Graph : SetGraph(g)
  PROVE  RegInv'
<1>a. UNCHANGED <<home, members>>
  BY DEF NoGroup, Nested, Return, Clear, SetGraph, vars
<1>b. MembersOnce'
  BY <1>a DEF RegInv, MembersOnce
<1>c. OnlyReached'
  <2>1. CASE Clear
    BY <2>1 DEF Clear, OnlyReached, Holds
  <2>2. CASE ~ Clear
    <3>1. groupNodes' = groupNodes /\ (dfgGraph' = dfgGraph \/ dfgGraph \notin Graph)
      BY <2>2, BuildAssumption DEF NoGroup, Nested, Return, SetGraph, vars
    <3>2. \A g \in Graph : Len(members[g]) \in Nat
      BY DEF RegInv, RegTyped
    <3> QED BY <1>a, <3>1, <3>2, KeptReached DEF RegInv
  <2> QED BY <2>1, <2>2
<1>1. ASSUME (\E n \in ExecNode : NoGroup(n)) \/ Return
      PROVE  RegInv'
  <2>1. /\ frames # <<>> /\ frames' = SubSeq(frames, 1, Len(frames) - 1)
        /\ UNCHANGED <<members, dfgGraph, groupNodes, calls>>
    BY <1>1 DEF NoGroup, AtMember, Return, Pop
  <2>2. frames \in Seq(Nat \ {0}) /\ Len(frames) \in Nat \ {0}
    BY <2>1 DEF RegInv, RegTyped
  <2>3. frames' \in Seq(Nat \ {0}) /\ Len(frames') = Len(frames) - 1
    <3> DEFINE last == Len(frames) - 1
    <3>1. last \in Nat /\ \A i \in 1 .. last : frames[i] \in Nat \ {0}
      BY <2>2
    <3>2. SubSeq(frames, 1, last) \in Seq(Nat \ {0})
          /\ Len(SubSeq(frames, 1, last)) = IF 1 <= last THEN last - 1 + 1 ELSE 0
      <4> HIDE DEF last
      <4> QED BY <3>1, SubSeqProperties
    <3>3. frames' = SubSeq(frames, 1, last)
      BY <2>1
    <3>4. Len(SubSeq(frames, 1, last)) = last
      <4> HIDE DEF last
      <4> QED BY <3>1, <3>2
    <3> QED BY <3>2, <3>3, <3>4
  <2>4. RegTyped'
    BY <1>a, <2>1, <2>3 DEF RegInv, RegTyped
  <2>5. Passed'
    <3>1. Flat(dfgGraph)' <=> Flat(dfgGraph)
      BY <2>1 DEF Flat
    <3>2. Flat(dfgGraph) => frames' = <<>>
      <4>1. Flat(dfgGraph) => Len(frames') = 0
        BY <2>1, <2>3 DEF RegInv, Passed
      <4> QED BY <2>3, <4>1, EmptySeq
    <3> QED BY <3>1, <3>2 DEF Passed
  <2> QED BY <1>b, <1>c, <2>4, <2>5 DEF RegInv
<1>2. ASSUME NEW s \in Graph, Nested(s)
      PROVE  RegInv'
  <2>1. /\ frames # <<>> /\ frames[Len(frames)] <= Len(members[dfgGraph])
        /\ s = members[dfgGraph][frames[Len(frames)]]
        /\ frames' = Append([frames EXCEPT ![Len(frames)] = @ + 1], 1)
        /\ UNCHANGED <<members, dfgGraph, groupNodes, calls>>
    BY <1>2 DEF Nested, AtMember, Top
  <2>2. /\ frames \in Seq(Nat \ {0}) /\ Len(frames) \in Nat \ {0}
        /\ frames[Len(frames)] \in Nat \ {0}
        /\ frames' \in Seq(Nat \ {0})
    BY <2>1 DEF RegInv, RegTyped
  <2>3. RegTyped'
    BY <1>a, <2>1, <2>2 DEF RegInv, RegTyped
  <2>4. ~ Flat(dfgGraph)
    <3>1. /\ members[dfgGraph] \in Seq(ExecNode \cup Graph)
          /\ frames[Len(frames)] \in 1 .. Len(members[dfgGraph])
      BY <2>1, <2>2 DEF RegInv, RegTyped
    <3> QED BY <2>1, <3>1, BuildAssumption DEF Flat
  <2> QED BY <1>b, <1>c, <2>1, <2>3, <2>4 DEF RegInv, Passed, Flat
<1>3. ASSUME Clear \/ UNCHANGED vars
      PROVE  RegInv'
  <2>1. CASE Clear
    BY <1>a, <1>b, <1>c, <2>1 DEF Clear, RegInv, RegTyped, Passed
  <2>2. CASE UNCHANGED vars
    <3>1. UNCHANGED <<members, dfgGraph, groupNodes, frames, calls>>
      BY <2>2 DEF vars
    <3>2. RegTyped'
      BY <1>a, <3>1 DEF RegInv, RegTyped
    <3>3. \A n : Known(n)' <=> Known(n)
      BY <3>1 DEF Known
    <3>4. Flat(dfgGraph)' <=> Flat(dfgGraph)
      BY <3>1 DEF Flat
    <3>5. Passed'
      BY <3>1, <3>3, <3>4 DEF RegInv, Passed
    <3> QED BY <1>b, <1>c, <3>2, <3>5 DEF RegInv
  <2> QED BY <1>3, <2>1, <2>2
<1>4. ASSUME NEW g \in Graph, SetGraph(g)
      PROVE  RegInv'
  <2>1. /\ frames' = <<1>> /\ dfgGraph' = g /\ calls' = calls + 1
        /\ UNCHANGED <<members, groupNodes>>
    BY <1>4 DEF SetGraph
  <2> QED BY <1>a, <1>b, <1>c, <2>1 DEF RegInv, RegTyped, Passed
<1> QED BY <1>1, <1>2, <1>3, <1>4

LEMMA StepReg == RegInv /\ [Next]_vars => RegInv'
BY BuildReg, RegisterReg, OtherReg DEF Next, RegisterStep

LEMMA RegInvariance == Spec => []RegInv
BY InitReg, StepReg, PTL DEF Spec

(* Every state is well formed.                                             *)
THEOREM BuildTyped == Spec => []TypeOK
<1>1. BuildInv /\ RegInv => TypeOK
  BY DEF BuildInv, RegInv, RegTyped, Lists, TypeOK
<1> QED BY <1>1, BuildInvariance, RegInvariance, PTL

(* A call that returns has made each node known to its group, up to the    *)
(* first node without a group; no group knows that node or a later one.    *)
THEOREM RegistrationComplete == Spec => RegistersAll
<1> DEFINE A == frames # <<>> /\ frames' = <<>> /\ Flat(dfgGraph) =>
                  \A i \in 1 .. Len(members[dfgGraph]) :
                    LET n == members[dfgGraph][i] IN
                    /\ HasGroups(i) => Holds(groupNodes'[GroupOf[n]], n)
                    /\ ~ HasGroups(i) => \A g \in Group : ~ Holds(groupNodes'[g], n)
<1>1. RegInv /\ [Next]_vars => [A]_vars
  <2> SUFFICES ASSUME RegInv, [Next]_vars, frames # <<>>, frames' = <<>>, Flat(dfgGraph),
                      NEW i \in 1 .. Len(members[dfgGraph])
               PROVE  LET n == members[dfgGraph][i] IN
                      /\ HasGroups(i) => Holds(groupNodes'[GroupOf[n]], n)
                      /\ ~ HasGroups(i) => \A g \in Group : ~ Holds(groupNodes'[g], n)
    OBVIOUS
  <2> DEFINE top == frames[1]
             m == members[dfgGraph][i]
  <2>1. /\ Len(frames) = 1 /\ top \in Nat \ {0}
        /\ i < top => Known(m)
    BY DEF RegInv, RegTyped, Passed
  <2>2. (\E n \in ExecNode : NoGroup(n)) \/ Return
    <3>1. ~ Build /\ ~ Clear /\ \A g \in Graph : ~ SetGraph(g)
      BY DEF Clear, SetGraph, Build, MakeNode, SubGraph, AddInput, AddInputGraph,
             AddInputs, AddInputsGraph, AddOutput, AddOutputGraph, AddOutputs,
             AddOutputsGraph, Edge, Edges
    <3>2. ASSUME NEW n \in ExecNode, Register(n)
          PROVE  FALSE
      <4>1. frames' = [frames EXCEPT ![Len(frames)] = @ + 1]
        BY <3>2 DEF Register, Advance
      <4>2. frames \in Seq(Nat \ {0})
        BY DEF RegInv, RegTyped
      <4> QED BY <2>1, <4>1, <4>2
    <3>3. ASSUME NEW s \in Graph, Nested(s)
          PROVE  FALSE
      <4>1. frames' = Append([frames EXCEPT ![Len(frames)] = @ + 1], 1)
        BY <3>3 DEF Nested
      <4>2. [frames EXCEPT ![Len(frames)] = @ + 1] \in Seq(Nat)
        BY <2>1 DEF RegInv, RegTyped
      <4> QED BY <4>1, <4>2
    <3>4. ~ UNCHANGED vars
      BY DEF vars
    <3> QED BY <3>1, <3>2, <3>3, <3>4 DEF Next, RegisterStep
  <2>3. UNCHANGED groupNodes
    BY <2>2 DEF NoGroup, Return
  <2>4. ASSUME HasGroups(i)
        PROVE  Holds(groupNodes'[GroupOf[m]], m)
    <3>1. GroupOf[m] < NumGroups /\ \A k \in 1 .. i : GroupOf[members[dfgGraph][k]] < NumGroups
      BY <2>4 DEF HasGroups
    <3>2. i < top
      <4>1. CASE \E n \in ExecNode : NoGroup(n)
        BY <2>1, <3>1, <4>1, BuildAssumption DEF NoGroup, AtMember, Top
      <4>2. CASE Return
        BY <2>1, <4>2 DEF Return, Top
      <4> QED BY <2>2, <4>1, <4>2
    <3> QED BY <2>1, <2>3, <3>2 DEF Known
  <2>5. ASSUME ~ HasGroups(i), NEW g \in Group, Holds(groupNodes[g], m)
        PROVE  FALSE
    <3>1. m \in ExecNode /\ dfgGraph \in Graph
      BY DEF Flat, RegInv, RegTyped
    <3>2. PICK j \in 1 .. Len(members[dfgGraph]) : members[dfgGraph][j] = m /\ HasGroups(j)
      BY <2>5, <3>1 DEF RegInv, OnlyReached, Reached
    <3>3. i = j
      BY <3>1, <3>2 DEF RegInv, MembersOnce
    <3> QED BY <2>5, <3>2, <3>3
  <2> QED BY <2>3, <2>4, <2>5
<1> QED BY <1>1, RegInvariance, PTL DEF Spec, RegistersAll
=============================================================================
