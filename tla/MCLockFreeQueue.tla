---------------------------- MODULE MCLockFreeQueue ----------------------------
EXTENDS LockFreeQueue, TLC

CONSTANTS a, b, c, p, q, r

Symmetric == Permutations(Elem) \cup Permutations(Client)
=============================================================================
