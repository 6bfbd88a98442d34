----------------------------- MODULE BoundedFifo -----------------------------
(***************************************************************************)
(* What mpsc_alloc_queue promises: a first-in first-out queue of at most   *)
(* Cap requests, in which a push and a pop take effect in one step.        *)
(***************************************************************************)
EXTENDS Naturals, Sequences

CONSTANTS Requests, Cap, NoRequest

VARIABLES
  q,   \* the requests pushed and not yet popped, oldest first
  out  \* the request the last successful pop returned

Init == q = <<>> /\ out = NoRequest

Push(r) == Len(q) < Cap /\ q' = Append(q, r) /\ UNCHANGED out

Pop == q # <<>> /\ out' = Head(q) /\ q' = Tail(q)

Next == Pop \/ \E r \in Requests : Push(r)

Spec == Init /\ [][Next]_<<q, out>>
=============================================================================
