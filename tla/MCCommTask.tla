----------------------------- MODULE MCCommTask -----------------------------
(* Two ranks: the first sends two large packages to the second, which      *)
(* sends a small one back.  All are of type 1; the node takes type 1, or   *)
(* types 0 and 1.                                                          *)
EXTENDS CommTask, TLC

CONSTANTS rank0, rank1, large, huge, reply

From == [p \in Package |-> IF p = reply THEN rank1 ELSE rank0]
To == [p \in Package |-> IF p = reply THEN rank0 ELSE rank1]
Types == [p \in Package |-> 1]
=============================================================================
