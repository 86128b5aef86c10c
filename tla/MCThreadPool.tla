---------------------------- MODULE MCThreadPool ----------------------------
(* A user that waits and one that polls. *)
EXTENDS ThreadPool

CONSTANTS waiter, poller
=============================================================================
