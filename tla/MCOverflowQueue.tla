--------------------------- MODULE MCOverflowQueue ---------------------------
(* A ring of two slots and threads that push and pop until it has wrapped  *)
(* around.  Elements and clients are symmetric.                            *)
EXTENDS OverflowQueue, TLC

CONSTANTS a, b, c, p, q, r

Symmetric == Permutations(Elem) \cup Permutations(Client)
=============================================================================
