-------------------------- MODULE MCRequestChannel --------------------------
(* Model values for RequestChannel. *)
EXTENDS RequestChannel, TLC

CONSTANTS e1, e2
MCThreads == {e1, e2}
MCRequests == MCThreads \X (1 .. MaxItems)
=============================================================================
