------------------------------ MODULE DenseLoad ------------------------------
(***************************************************************************)
(* While a model is loaded, the main thread reads its dense tensors        *)
(* through the engine that the scheduler's worker already polls:           *)
(* route_b_fill_dense (server/route_b_inject.cpp), called for one tensor   *)
(* after the other, and read_expert_sync (io/staging_reader.cpp).  Its     *)
(* requests have no owner, and it takes whatever the queue gives it.       *)
(* Which bytes arrive is left out.                                         *)
(***************************************************************************)
EXTENDS ExpertLoad

VARIABLE dense     \* the main thread: [pc, n, got, flight]

denseVars == <<vars, dense>>

\* Dense tensors of a scheduler's model, as parse_model gives them.
DenseTensors(s) == ParseModel(files[s], topo[s].files[1]).dense

\* submit_batch with all the pieces of a tensor.
FillDense(s, t) ==
  LET n    == Len(t.srcs)
      reqs == [i \in 1..n |-> Request(None, i, FALSE)]
  IN  /\ s \in Up
      /\ dense.pc = "idle"
      /\ IF os = "posix" THEN port' = port \o reqs /\ dense' = [dense EXCEPT !.pc = "wait", !.n = n, !.got = 0]
         ELSE /\ dense' = [dense EXCEPT !.pc = "wait", !.n = n, !.got = 0, !.flight = @ \cup ToSet(reqs)]
              /\ UNCHANGED port
      /\ UNCHANGED <<setupVars, schedVars, flight, worker, used>>

DenseCompletes(r) ==
  /\ r \in dense.flight
  /\ dense' = [dense EXCEPT !.flight = @ \ {r}]
  /\ port' = Append(port, r)
  /\ UNCHANGED <<setupVars, schedVars, flight, worker, used>>

\* wait_events for the pieces that are missing, in number: whatever it gets counts.
\* Without any it gives up, on POSIX at once and on Windows after five seconds;
\* the loader does not look at the result.
WaitDense ==
  LET n == Least(Len(port), dense.n - dense.got)
  IN  /\ dense.pc = "wait"
      /\ port' = SubSeq(port, n + 1, Len(port))
      /\ dense' = IF n = 0 \/ dense.got + n = dense.n THEN [dense EXCEPT !.pc = "idle"]
                                                      ELSE [dense EXCEPT !.got = @ + n]
      /\ UNCHANGED <<setupVars, schedVars, flight, worker, used>>

DenseInit == Init /\ dense = [pc |-> "idle", n |-> 0, got |-> 0, flight |-> {}]

\* The worker dereferences the owner of what it harvests.
WorkerCrashes == worker.pc = "dispatch" /\ Head(worker.done).owner = None

DenseNext ==
  \/ ~WorkerCrashes /\ Next /\ UNCHANGED dense
  \/ \E s \in Up : \E t \in ToSet(DenseTensors(s)) : FillDense(s, t)
  \/ \E r \in dense.flight : DenseCompletes(r)
  \/ WaitDense

DenseSpec == DenseInit /\ [][DenseNext]_denseVars

----------------------------------------------------------------------------

\* What the worker harvests has a scheduler to go to ("a completion may belong to
\* another pool; dispatch by owner", scheduler.cpp:1119-1120).
EventHasOwner ==
  worker.pc = "dispatch" => \A r \in ToSet(worker.done) : r.owner # None

=============================================================================
