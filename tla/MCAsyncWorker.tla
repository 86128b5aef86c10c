--------------------------- MODULE MCAsyncWorker ----------------------------
(* An owner and another thread that waits. *)
EXTENDS AsyncWorker

CONSTANTS worker, owner, waiter
=============================================================================
