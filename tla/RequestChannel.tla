--------------------------- MODULE RequestChannel ---------------------------
(***************************************************************************)
(* How exec threads and the scheduler thread talk: a thread resets its     *)
(* batch_await_t, pushes a request that points to it, and waits; the       *)
(* scheduler pops a request when none is active, registers it, and settles *)
(* its items one by one or fails it.  AllocQueue and BatchAwait are the    *)
(* two halves; here they run together.                                     *)
(***************************************************************************)
EXTENDS AllocQueue, BatchAwait

vars == <<queueVars, awaitVars>>

\* The thread of request r and its number of items.
Owner(r) == r[1]
Items(r) == r[2]

ASSUME ChannelAssumption ==
  Producers = Threads /\ Requests = Threads \X (1 .. MaxItems)

Init == QueueInit /\ AwaitInit

Submit(t, n) == Reset(t, n) /\ PushStart(t, <<t, n>>)

Pushed(t) == At(t, "idle") /\ WaitBegin(t) /\ UNCHANGED queueVars

PushStep(t) ==
  /\ \/ PushHead(t) \/ PushTail(t) \/ PushClaim(t) \/ PushWrite(t) \/ PushPublish(t)
  /\ UNCHANGED awaitVars

WaitStep(t) ==
  /\ \/ WaitLoad(t) \/ WaitTest(t) \/ WaitCheck(t) \/ WaitSleep(t) \/ WaitReturn(t)
  /\ UNCHANGED queueVars

\* pop is called only while no request is active.
PopStep ==
  /\ owner = Nobody
  /\ PopHead \/ PopTail \/ PopSeq \/ PopRead \/ PopRelease
  /\ UNCHANGED awaitVars

RegisterStep ==
  /\ cons.pc = "popped"
  /\ Register(Owner(out), Items(out))
  /\ cons' = [cons EXCEPT !.pc = "idle", !.req = NoRequest]
  /\ UNCHANGED <<head, tail, ring, seqs, prod, out>>

ServeStep ==
  /\ Settle \/ WakeSettled \/ WakeFinished \/ WakeFailed
  /\ UNCHANGED queueVars

FailStep == Fail /\ UNCHANGED queueVars

Exec(t) == PushStep(t) \/ Pushed(t) \/ WaitStep(t)

Next ==
  \/ \E t \in Threads : Exec(t) \/ \E n \in 1 .. MaxItems : Submit(t, n)
  \/ \E t \in Threads : WaitSpurious(t) /\ UNCHANGED queueVars
  \/ PopStep \/ RegisterStep \/ ServeStep \/ FailStep

Spec == Init /\ [][Next]_vars

\* Every thread keeps running, and the items of an active request settle unless
\* it fails.
Fairness ==
  /\ \A t \in Threads : WF_vars(Exec(t))
  /\ WF_vars(PopStep \/ RegisterStep) /\ WF_vars(ServeStep)

FairSpec == Spec /\ Fairness

-----------------------------------------------------------------------------
(* Properties.                                                             *)

TypeOK ==
  /\ head \in Nat /\ tail \in 0 .. MaxPush
  /\ ring \in [Cells -> Requests \cup {NoRequest}] /\ seqs \in [Cells -> Nat]
  /\ prod \in [Producers -> [pc : {"idle", "head", "tail", "claim", "write", "publish"},
                             req : Requests \cup {NoRequest}, h : Nat, t : Nat]]
  /\ cons \in [pc : {"idle", "tail", "seq", "read", "release", "popped"}, h : Nat,
               req : Requests \cup {NoRequest}]
  /\ out \in Requests \cup {NoRequest}
  /\ done \in [Threads -> 0 .. MaxItems] /\ failed \in [Threads -> BOOLEAN]
  /\ target \in [Threads -> 0 .. MaxItems]
  /\ waiter \in [Threads -> [pc : {"out", "pushing", "load", "test", "check", "sleep",
                                   "asleep", "return"}, cur : Nat]]
  /\ owner \in Threads \cup {Nobody} /\ left \in 0 .. MaxItems
  /\ wake \in {"none", "settled", "finished", "failed"}

\* The request of the n-th claim that is not popped yet: in the cell, or still
\* with the producer that claimed it.
Claimed(n) ==
  IF \E p \in Producers : At(p, "write") /\ prod[p].t = n
  THEN prod[CHOOSE p \in Producers : At(p, "write") /\ prod[p].t = n].req
  ELSE ring[n % Cap]

Fifo == INSTANCE BoundedFifo
  WITH q <- [i \in 1 .. tail - head |-> Claimed(head + i - 1)]

\* The ring is a bounded FIFO queue: no request is lost, doubled, reordered or
\* read half-written, however pushes overlap with each other and with pop.
FifoSpec == Fifo!Spec

\* The payload of a cell is plain memory: two producers never write one cell at
\* once, and no cell is written while pop reads it.
CellExclusive ==
  \A p \in Producers : At(p, "write") =>
    /\ ~(cons.pc = "read" /\ cons.h % Cap = prod[p].t % Cap)
    /\ \A r \in Producers \ {p} : At(r, "write") => prod[r].t % Cap # prod[p].t % Cap

\* The scheduler stores to an await only while its thread is still inside the
\* call that owns it: a settle or a failure never writes to a dead stack frame,
\* or into the await of the thread's next call.
NoStoreAfterReturn ==
  owner # Nobody /\ wake = "none" =>
    waiter[owner].pc # "out" /\ done[owner] + left = target[owner] /\ ~failed[owner]

\* wait() returns to a settled outcome: all items counted, or the flag set, and
\* the scheduler done with storing.
ReturnSettled ==
  \A t \in Threads : Waits(t, "return") =>
    /\ failed[t] \/ done[t] = target[t]
    /\ owner = t => wake # "none"

\* A call whose request does not fail returns once its items have settled; one
\* whose request fails may sleep on (see FailureWakes).
SettledReturns ==
  \A t \in Threads : ~Waits(t, "out") ~> (Waits(t, "out") \/ failed[t])

\* A thread does not sleep once its request is over, unless a wake is coming
\* ("Wait until `done` reaches `target` OR `failed` is set (wake-once; the
\* scheduler wakes this word on every settle and on failure)", slot.h:351).
FailureWakes ==
  \A t \in Threads : Waits(t, "asleep") /\ (failed[t] \/ done[t] >= target[t]) =>
    owner = t /\ wake # "none"
=============================================================================
