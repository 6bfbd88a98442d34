------------------------- MODULE LayerBucketsProofs -------------------------
(***************************************************************************)
(* For every set of inputs: a layer that succeeds has no device graph left *)
(* running when its buffers are freed and its experts unpinned.  The       *)
(* argument follows the three loops over the devices: a graph in flight    *)
(* was submitted, so it is not in the submit loop's todo; the convergence  *)
(* loop starts with every device in its todo and drops one only when its   *)
(* graph has ended.                                                        *)
(***************************************************************************)
EXTENDS LayerBuckets, TLAPS

Busy ==
  /\ todo \subseteq DevTargets
  /\ inflight \subseteq DevTargets
  /\ pc \in {"targets", "build"} => inflight = {}
  /\ pc = "submit" => inflight \cap todo = {}
  /\ pc = "sync" => inflight \subseteq todo
  /\ st = "SUCCESS" /\ pc \in {"return", "unpin", "done"} => inflight = {}

\* No device graph is in flight at the start.
LEMMA BusyInit == Init => Busy
  BY DEF Init, Busy

\* The targets are computed from the input and its plan, which no step
\* changes.
LEMMA TargetsKept ==
  ASSUME UNCHANGED <<in, plan>> PROVE DevTargets' = DevTargets
  BY DEF DevTargets, TargetOf, CPU

\* Every step keeps Busy.
LEMMA BusyNext == Busy /\ [Next]_vars => Busy'
<1> SUFFICES ASSUME Busy, [Next]_vars PROVE Busy'
  OBVIOUS
<1> USE DEF Busy
<1>1. ASSUME NEW d \in 1 .. NPools - 1, EnsureTarget(d) PROVE Busy'
  BY <1>1, TargetsKept DEF EnsureTarget
<1>2. ASSUME NEW d \in 1 .. NPools - 1, Submit(d) PROVE Busy'
  BY <1>2, TargetsKept DEF Submit
<1>3. ASSUME NEW d \in 1 .. NPools - 1, RunDevice(d) PROVE Busy'
  BY <1>3, TargetsKept DEF RunDevice
<1>4. ASSUME NEW d \in 1 .. NPools - 1, Sync(d) PROVE Busy'
  BY <1>4, TargetsKept DEF Sync
<1>5. CASE Fail
  BY <1>5, TargetsKept DEF Fail
<1>6. CASE StartRounds
  BY <1>6, TargetsKept DEF StartRounds
<1>7. CASE BuildRound
  BY <1>7, TargetsKept DEF BuildRound
<1>8. CASE EndRounds
  <2>1. todo' \subseteq DevTargets
    BY <1>8 DEF EndRounds
  <2> QED
    BY <1>8, <2>1, TargetsKept DEF EndRounds
<1>9. CASE RunCpu
  BY <1>9, TargetsKept DEF RunCpu
<1>10. CASE Finish
  BY <1>10, TargetsKept DEF Finish
<1>11. CASE FreeOwned
  BY <1>11, TargetsKept DEF FreeOwned
<1>12. CASE Unpin
  BY <1>12, TargetsKept DEF Unpin
<1>13. CASE UNCHANGED vars
  BY <1>13, TargetsKept DEF vars
<1>14. (EnsureFails \/ BuildFails \/ SubmitFails \/ CpuFails => Fail) /\ (Done => UNCHANGED vars)
  BY DEF EnsureFails, BuildFails, SubmitFails, CpuFails, Done
<1> QED
  BY <1>1, <1>2, <1>3, <1>4, <1>5, <1>6, <1>7, <1>8, <1>9, <1>10, <1>11, <1>12, <1>13, <1>14
  DEF Next

(* A layer that returns SUCCESS releases buffers and pins only when no     *)
(* device graph that reads them is still running.                          *)
THEOREM ReleaseIdle == Spec => []ReleaseWhenIdle
<1>1. Busy => ReleaseWhenIdle
  BY DEF Busy, ReleaseWhenIdle
<1> QED
  BY BusyInit, BusyNext, <1>1, PTL DEF Spec

-----------------------------------------------------------------------------
\* Until the layer returns, the buffers of every round of a graph are
\* allocated: a round's id enters owned when the round joins its graph.
Kept(g) == \E R : g \in Seq(R) /\ \A b \in R : b.id \in owned
RoundsOwned ==
  /\ DOMAIN graphs = {CPU} \cup DevTargets
  /\ pc \notin {"unpin", "done"} => \A d \in DOMAIN graphs : Kept(graphs[d])

\* The graphs start empty.
LEMMA OwnedInit == Init => RoundsOwned
<1> SUFFICES ASSUME Init PROVE RoundsOwned
  OBVIOUS
<1>1. DOMAIN graphs = {CPU} \cup DevTargets /\ \A d \in DOMAIN graphs : graphs[d] = << >>
  BY DEF Init
<1>2. << >> \in Seq({})
  OBVIOUS
<1>3. \A d \in DOMAIN graphs : Kept(graphs[d])
  <2> SUFFICES ASSUME NEW d \in DOMAIN graphs PROVE \E R : graphs[d] \in Seq(R) /\ \A b \in R : b.id \in owned
    BY DEF Kept
  <2>1. graphs[d] = << >>
    BY <1>1
  <2>2. graphs[d] \in Seq({}) /\ \A b \in {} : b.id \in owned
    BY <2>1, <1>2
  <2> QED
    BY <2>2
<1> QED
  BY <1>1, <1>3 DEF RoundsOwned

\* A graph that no step touches stays kept while owned only grows.
LEMMA StillKept ==
  ASSUME NEW g, Kept(g), owned \subseteq owned' PROVE \E R : g \in Seq(R) /\ \A b \in R : b.id \in owned'
<1>1. PICK R : g \in Seq(R) /\ \A b \in R : b.id \in owned
  BY DEF Kept
<1> QED
  BY <1>1

\* The round that BuildRound appends is allocated by the same step.
LEMMA BuildOwned == ASSUME RoundsOwned, BuildRound PROVE RoundsOwned'
<1> DEFINE r == plan.rounds[ri + 1]
           t == TargetOf(r)
           b == BuiltRound(r)
<1>1. /\ graphs' = [graphs EXCEPT ![t] = Append(graphs[t], b)]
      /\ owned' = owned \cup {ri}
      /\ UNCHANGED <<in, plan, pc>> /\ pc = "build"
  BY DEF BuildRound
<1>2. b.id = ri
  BY DEF BuiltRound
<1> HIDE DEF r, t, b
<1>3. DOMAIN graphs' = DOMAIN graphs /\ DevTargets' = DevTargets
  BY <1>1, TargetsKept
<1>4. ASSUME NEW d \in DOMAIN graphs PROVE \E R : graphs'[d] \in Seq(R) /\ \A c \in R : c.id \in owned'
  <2>1. Kept(graphs[d])
    BY <1>1 DEF RoundsOwned
  <2>2. CASE d # t
    <3>1. graphs'[d] = graphs[d]
      BY <1>1, <2>2
    <3> QED
      BY <1>1, <2>1, <3>1, StillKept
  <2>3. CASE d = t
    <3>1. PICK R : graphs[d] \in Seq(R) /\ \A c \in R : c.id \in owned
      BY <2>1 DEF Kept
    <3> DEFINE Q == R \cup {b}
    <3>2. graphs[d] \in Seq(Q)
      BY <3>1
    <3>3. graphs'[d] = Append(graphs[d], b)
      BY <1>1, <2>3
    <3>4. graphs'[d] \in Seq(Q)
      BY <3>2, <3>3
    <3>5. \A c \in Q : c.id \in owned'
      BY <1>1, <1>2, <3>1
    <3> QED
      BY <3>4, <3>5
  <2> QED
    BY <2>2, <2>3
<1> QED
  BY <1>1, <1>3, <1>4 DEF RoundsOwned, Kept, CPU

\* Every step keeps RoundsOwned: only FreeOwned frees, and it leaves the calls.
LEMMA OwnedNext == RoundsOwned /\ [Next]_vars => RoundsOwned'
<1> SUFFICES ASSUME RoundsOwned, [Next]_vars PROVE RoundsOwned'
  OBVIOUS
<1> DEFINE Same == UNCHANGED <<in, plan, graphs, owned>> /\ (pc' \notin {"unpin", "done"} => pc \notin {"unpin", "done"})
           Over == UNCHANGED <<in, plan, graphs>> /\ pc' \in {"unpin", "done"}
<1>1. CASE Same
  <2>1. DevTargets' = DevTargets
    BY <1>1, TargetsKept
  <2> QED
    BY <1>1, <2>1, StillKept DEF RoundsOwned, Kept, CPU
<1>2. CASE Over
  <2>1. DevTargets' = DevTargets
    BY <1>2, TargetsKept
  <2> QED
    BY <1>2, <2>1 DEF RoundsOwned, CPU
<1>3. \A d \in 1 .. NPools - 1 : EnsureTarget(d) \/ Submit(d) \/ RunDevice(d) \/ Sync(d) => Same
  BY DEF EnsureTarget, Submit, RunDevice, Sync
<1>4. StartRounds \/ EndRounds \/ RunCpu \/ Finish \/ UNCHANGED vars => Same
  <2>1. (StartRounds => Same) /\ (EndRounds => Same)
    BY DEF StartRounds, EndRounds
  <2>2. (RunCpu => Same) /\ (Finish => Same) /\ (UNCHANGED vars => Same)
    <3>1. RunCpu => pc = "submit" /\ pc' = "sync" /\ UNCHANGED <<in, plan, graphs, owned>>
      BY DEF RunCpu
    <3>2. Finish => pc = "sync" /\ pc' = "return" /\ UNCHANGED <<in, plan, graphs, owned>>
      BY DEF Finish
    <3> QED
      BY <3>1, <3>2 DEF vars
  <2> QED
    BY <2>1, <2>2
<1>5. EnsureFails \/ BuildFails \/ SubmitFails \/ CpuFails => Same
  <2>1. Fail => UNCHANGED <<in, plan, graphs, owned>>
    BY DEF Fail
  <2>2. EnsureFails \/ BuildFails \/ SubmitFails \/ CpuFails => Fail /\ pc \notin {"unpin", "done"}
    BY DEF EnsureFails, BuildFails, SubmitFails, CpuFails
  <2> QED
    BY <2>1, <2>2
<1>6. Done => UNCHANGED vars
  BY DEF Done
<1>7. FreeOwned \/ Unpin => Over
  BY DEF FreeOwned, Unpin
<1> HIDE DEF Same, Over
<1> QED
  BY <1>1, <1>2, <1>3, <1>4, <1>5, <1>6, <1>7, BuildOwned DEF Next

(* The promise of owned_guard_t's comment, as far as it holds: as long as  *)
(* no step of the layer has failed, the buffers of every round of a        *)
(* submitted graph are allocated until the graph has run.  BuffersOutlive- *)
(* Graphs itself is violated, by a layer that fails after a submit.        *)
THEOREM SuccessKeepsBuffers == Spec => [](st = "SUCCESS" => BuffersOutliveGraphs)
<1>1. Busy /\ RoundsOwned => (st = "SUCCESS" => BuffersOutliveGraphs)
  <2> SUFFICES ASSUME Busy, RoundsOwned, st = "SUCCESS", NEW d \in inflight, NEW i \in DOMAIN graphs[d]
               PROVE graphs[d][i].id \in owned
    BY DEF BuffersOutliveGraphs
  <2>1. d \in DOMAIN graphs /\ pc \notin {"unpin", "done"}
    BY DEF Busy, RoundsOwned
  <2>2. PICK R : graphs[d] \in Seq(R) /\ \A b \in R : b.id \in owned
    BY <2>1 DEF RoundsOwned, Kept
  <2>3. graphs[d][i] \in R
    BY <2>2
  <2> QED
    BY <2>2, <2>3
<1> QED
  BY BusyInit, BusyNext, OwnedInit, OwnedNext, <1>1, PTL DEF Spec
=============================================================================
