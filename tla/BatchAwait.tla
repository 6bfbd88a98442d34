----------------------------- MODULE BatchAwait -----------------------------
(***************************************************************************)
(* batch_await_t (src/src/backend/slot.h): how an exec thread sleeps until *)
(* the items of its request have settled, and how the scheduler thread     *)
(* wakes it.  The loads, stores and system calls of the two are steps of   *)
(* their own.  A batch_await_t is a local of exec_moe_closure: a call uses *)
(* its own, which may sit where the last one sat, and which is dead memory *)
(* once the call has returned.                                             *)
(***************************************************************************)
EXTENDS Naturals

CONSTANTS
  Threads,   \* exec threads
  MaxItems,  \* bound: items of a request
  Nobody     \* active_present_ is false

ASSUME AwaitAssumption == MaxItems \in Nat \ {0} /\ Nobody \notin Threads

VARIABLES
  done,    \* per thread: batch_await_t::done
  failed,  \* per thread: batch_await_t::failed
  target,  \* per thread: batch_await_t::target
  waiter,  \* per thread: where wait() stands, and its local cur
  owner,   \* the thread the active request belongs to
  left,    \* active_n_left_
  wake     \* the wake the scheduler thread is about to make

awaitVars == <<done, failed, target, waiter, owner, left, wake>>

AwaitInit ==
  /\ done = [t \in Threads |-> 0] /\ failed = [t \in Threads |-> FALSE]
  /\ target = [t \in Threads |-> 0]
  /\ waiter = [t \in Threads |-> [pc |-> "out", cur |-> 0]]
  /\ owner = Nobody /\ left = 0 /\ wake = "none"

-----------------------------------------------------------------------------
(* The exec thread.                                                        *)

Waits(t, pc) == waiter[t].pc = pc

\* Mutant: the counter of the last call is kept.
Reset_KeepsDone(t, n) ==
  /\ Waits(t, "out")
  /\ failed' = [failed EXCEPT ![t] = FALSE] /\ target' = [target EXCEPT ![t] = n]
  /\ waiter' = [waiter EXCEPT ![t].pc = "pushing"]
  /\ UNCHANGED <<done, owner, left, wake>>

\* reset() and the target, before the request is pushed.
Reset(t, n) ==
  /\ Waits(t, "out")
  /\ done' = [done EXCEPT ![t] = 0] /\ failed' = [failed EXCEPT ![t] = FALSE]
  /\ target' = [target EXCEPT ![t] = n]
  /\ waiter' = [waiter EXCEPT ![t].pc = "pushing"]
  /\ UNCHANGED <<owner, left, wake>>

\* The push is over: wait() is called.
WaitBegin(t) ==
  /\ Waits(t, "pushing")
  /\ waiter' = [waiter EXCEPT ![t].pc = "load"]
  /\ UNCHANGED <<done, failed, target, owner, left, wake>>

WaitLoad(t) ==
  /\ Waits(t, "load")
  /\ waiter' = [waiter EXCEPT ![t] = [pc |-> "test", cur |-> done[t]]]
  /\ UNCHANGED <<done, failed, target, owner, left, wake>>

\* Mutant: the wait is over as soon as one item has settled.
WaitTest_First(t) ==
  /\ Waits(t, "test")
  /\ waiter' = [waiter EXCEPT ![t].pc = IF waiter[t].cur > 0 THEN "return" ELSE "check"]
  /\ UNCHANGED <<done, failed, target, owner, left, wake>>

WaitTest(t) ==
  /\ Waits(t, "test")
  /\ waiter' = [waiter EXCEPT ![t].pc = IF waiter[t].cur >= target[t] THEN "return"
                                        ELSE "check"]
  /\ UNCHANGED <<done, failed, target, owner, left, wake>>

WaitCheck(t) ==
  /\ Waits(t, "check")
  /\ waiter' = [waiter EXCEPT ![t].pc = IF failed[t] THEN "return" ELSE "sleep"]
  /\ UNCHANGED <<done, failed, target, owner, left, wake>>

\* Mutant: the thread sleeps whatever done is by now.
WaitSleep_Always(t) ==
  /\ Waits(t, "sleep")
  /\ waiter' = [waiter EXCEPT ![t].pc = "asleep"]
  /\ UNCHANGED <<done, failed, target, owner, left, wake>>

\* futex(FUTEX_WAIT) and WaitOnAddress: sleep only if done is still cur.
WaitSleep(t) ==
  /\ Waits(t, "sleep")
  /\ waiter' = [waiter EXCEPT ![t].pc = IF done[t] = waiter[t].cur THEN "asleep"
                                        ELSE "load"]
  /\ UNCHANGED <<done, failed, target, owner, left, wake>>

\* The kernel may end the sleep without a wake (a signal).
WaitSpurious(t) ==
  /\ Waits(t, "asleep")
  /\ waiter' = [waiter EXCEPT ![t].pc = "load"]
  /\ UNCHANGED <<done, failed, target, owner, left, wake>>

\* pin_layer reads is_failed() and goes on; the await goes out of scope.
WaitReturn(t) ==
  /\ Waits(t, "return")
  /\ waiter' = [waiter EXCEPT ![t] = [pc |-> "out", cur |-> 0]]
  /\ UNCHANGED <<done, failed, target, owner, left, wake>>

-----------------------------------------------------------------------------
(* The scheduler thread.                                                   *)

\* active_register takes over the pointers of thread t's request.
Register(t, n) ==
  /\ owner = Nobody
  /\ owner' = t /\ left' = n
  /\ UNCHANGED <<done, failed, target, waiter, wake>>

\* One item is pinned and counted (triage, drain, serve or move).
Settle ==
  /\ owner # Nobody /\ wake = "none" /\ left > 0
  /\ done' = [done EXCEPT ![owner] = @ + 1] /\ left' = left - 1
  /\ wake' = "settled"
  /\ UNCHANGED <<failed, target, waiter, owner>>

\* Every thread asleep on the address of t's done.
Awake(t) == [waiter EXCEPT ![t].pc = IF @ = "asleep" THEN "load" ELSE @]

\* The wake of a settled item; after the last one, active_finish comes next.
WakeSettled ==
  /\ wake = "settled"
  /\ waiter' = Awake(owner)
  /\ wake' = IF left = 0 THEN "finished" ELSE "none"
  /\ UNCHANGED <<done, failed, target, owner, left>>

\* active_finish wakes once more and forgets the request.
WakeFinished ==
  /\ wake = "finished"
  /\ waiter' = Awake(owner)
  /\ wake' = "none" /\ owner' = Nobody
  /\ UNCHANGED <<done, failed, target, left>>

\* active_fail stores the flag; done does not change.
Fail ==
  /\ owner # Nobody /\ wake = "none" /\ left > 0
  /\ failed' = [failed EXCEPT ![owner] = TRUE]
  /\ wake' = "failed"
  /\ UNCHANGED <<done, target, waiter, owner, left>>

\* Mutant: the failed request stays active.
WakeFailed_StaysActive ==
  /\ wake = "failed"
  /\ waiter' = Awake(owner)
  /\ wake' = "none"
  /\ UNCHANGED <<done, failed, target, owner, left>>

\* The wake of active_fail; the one on the address of failed finds nobody.
WakeFailed ==
  /\ wake = "failed"
  /\ waiter' = Awake(owner)
  /\ wake' = "none" /\ owner' = Nobody /\ left' = 0
  /\ UNCHANGED <<done, failed, target>>
=============================================================================
