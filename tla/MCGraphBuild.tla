---------------------------- MODULE MCGraphBuild ----------------------------
(* Two graphs, one of which may become a member of the other; a node that  *)
(* takes more than the outer graph, one that outputs more, and a node      *)
(* without a group.                                                        *)
EXTENDS GraphBuild, TLC

CONSTANTS a, b, outer, inner, x, y

Takes == (a :> {x, y}) @@ (b :> {x})
Gives == (a :> {x}) @@ (b :> {x, y})
OuterTakes == (outer :> {x}) @@ (inner :> {x, y})
OuterGives == (outer :> {x}) @@ (inner :> {y})
Groups == (a :> 0) @@ (b :> 1)
=============================================================================
