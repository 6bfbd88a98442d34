--------------------------- MODULE ExpertScheduler ---------------------------
(***************************************************************************)
(* One expert_scheduler (src/src/backend/scheduler.cpp) and the three      *)
(* threads that touch it:                                                  *)
(*   - the exec thread, which pins the experts of one MoE layer            *)
(*     (pin_layer), computes on them and unpins them;                      *)
(*   - the global scheduler thread (worker_loop), which drains read        *)
(*     completions, serves the one active request, and finishes moves;     *)
(*   - the move worker, which copies demoted experts from the device pool  *)
(*     to the RAM pool;                                                    *)
(* and, as the environment, the asynchronous I/O engine.                   *)
(*                                                                         *)
(* The scope is one expert group: all its layers share the geometry of one *)
(* RAM sub-pool and at most one device sub-pool, and groups never exchange *)
(* slots.  There is one exec thread, as the source assumes ("exec is       *)
(* single-ctx/single-decode-thread per model", scheduler.cpp:850).         *)
(*                                                                         *)
(* Abstracted: slot generations (nothing decides on them), the eviction    *)
(* score (any candidate of the preferred class may be the victim), which   *)
(* EMPTY slot or free load element is taken, the order of the FIFO of      *)
(* moves, statistics and time stamps.                                      *)
(***************************************************************************)
EXTENDS Integers, FiniteSets

CONSTANTS
  NLayer,       \* layers of the group, in topology order
  NExpert,      \* experts per layer
  RamSlots,     \* slots of the group's CPU-RAM sub-pool (pool 0)
  DevSlots,     \* slots of the group's device sub-pool; {} when there is none
  Elems,        \* elements of the async-load ring (max_in_flight_)
  NSlices,      \* reads one expert load consists of
  ReadErrors,   \* may a read complete with an error?
  SubmitErrors, \* may submit_batch accept none of a request?
  None          \* SLOT_UNASSIGNED, an unused ring element, an empty queue

Layers  == 0 .. NLayer - 1
Experts == 0 .. NExpert - 1
Keys    == Layers \X Experts
Slots   == RamSlots \cup DevSlots
Pools   == {"ram", "dev"}

(* init refuses a pool that cannot hold one whole layer (scheduler.cpp:91, *)
(* :124), and the ring has at least one element per expert (:212).         *)
ASSUME SizeAssumption ==
  /\ NLayer \in Nat \ {0} /\ NExpert \in Nat \ {0} /\ NSlices \in Nat \ {0}
  /\ ReadErrors \in BOOLEAN /\ SubmitErrors \in BOOLEAN
ASSUME SlotAssumption ==
  /\ RamSlots \cap DevSlots = {}
  /\ None \notin Slots
  /\ None \notin Keys
ASSUME PoolFloorAssumption ==
  /\ IsFiniteSet(Slots) /\ Cardinality(RamSlots) >= NExpert
  /\ IsFiniteSet(Elems) /\ Elems # {}

VARIABLES
  \* exec thread
  epc,      \* where pin_layer stands
  elayer,   \* its layer argument
  needed,   \* its bitmap argument
  visit,    \* experts the current loop of pin_layer has still to visit
  missing,  \* set B: needed experts that were not pinned by the scan
  handle,   \* out[]: the slot recorded for each expert of the layer
  await,    \* batch_await_t: done, failed, target
  \* shared
  slot,     \* slot_meta words: state and refcount
  content,  \* whose weights the slot's bytes are
  dir,      \* expert_directory: state and slot per pool and key
  touched,  \* keys whose last_used is not 0
  queue,    \* requests_: the request pushed by the one exec thread
  \* scheduler thread
  spc,      \* where worker_loop stands
  active,   \* the active request: layer, still_need, n_left
  ledger,   \* active_pinned_slots_: how often each slot is on it
  clock,    \* the stall clock: off, armed, or past STALL_FAIL_MS
  pass,     \* locals of one accept_requests call
  \* in flight
  load,     \* async_load_t elements of the ring
  moveq,    \* move_submit_
  movedone  \* move_done_

execVars == <<epc, elayer, needed, visit, missing, handle>>
passVars == <<spc, pass>>
actVars  == <<active, ledger, clock>>
moveVars == <<moveq, movedone>>
vars == <<execVars, await, slot, content, dir, touched, queue, passVars,
          actVars, load, moveVars>>

-----------------------------------------------------------------------------
(* Values.                                                                 *)

Word  == [st : {"EMPTY", "IO_INFLIGHT", "READY", "EVICTING", "FAILED"},
          rc : Nat]
Entry == [st : {"ABSENT", "LOADING", "READY", "MOVING_IN"},
          slot : Slots \cup {None}]
Load  == [key : Keys, slot : Slots, io : 0 .. NSlices, ok : 0 .. NSlices,
          bad : 0 .. NSlices, failed : BOOLEAN]
Move  == [key : Keys, src : DevSlots, dst : RamSlots]
Request == [layer : Layers, needed : SUBSET Experts, target : Nat]
Active  == [on : BOOLEAN, layer : Layers, still : SUBSET Experts, left : Nat]
Pass == [visit : SUBSET Experts, cur : Experts, slot : Slots \cup {None},
         first : BOOLEAN, started : BOOLEAN, noslot : BOOLEAN]

\* None is no request and no load either.
ASSUME EmptyAssumption == None \notin Request /\ None \notin Load

Absent      == [st |-> "ABSENT", slot |-> None]
NoActive    == [on |-> FALSE, layer |-> 0, still |-> {}, left |-> 0]
EmptyLedger == [s \in Slots |-> 0]
NoHandles   == [e \in Experts |-> None]
NoPass      == [visit |-> {}, cur |-> 0, slot |-> None, first |-> FALSE,
                started |-> FALSE, noslot |-> FALSE]

PoolOf(s) == IF s \in RamSlots THEN "ram" ELSE "dev"
PoolSlots(p) == IF p = "ram" THEN RamSlots ELSE DevSlots
Least(S) == CHOOSE e \in S : \A d \in S : e <= d

-----------------------------------------------------------------------------
(* slot_meta and expert_directory (slot.h).                                *)

\* scan: the slot of a READY entry, lowest pool first; None when there is none.
scan(k) ==
  IF dir["ram"][k].st = "READY" THEN dir["ram"][k].slot
  ELSE IF dir["dev"][k].st = "READY" THEN dir["dev"][k].slot
  ELSE None

\* try_pin succeeds on a READY slot only, and counts one more user.
CanPin(w) == w.st = "READY"
pinned(w) == [w EXCEPT !.rc = @ + 1]

\* n calls of unpin; the count never goes below zero.
unpinned(w, n) == [w EXCEPT !.rc = IF @ >= n THEN @ - n ELSE 0]

\* mark_ready: only an IO_INFLIGHT slot becomes READY.
mark_ready(w) == IF w.st = "IO_INFLIGHT" THEN [w EXCEPT !.st = "READY"] ELSE w

begin_evict(w)   == [w EXCEPT !.st = "EVICTING"]
begin_reload     == [st |-> "IO_INFLIGHT", rc |-> 0]
release_to_empty == [st |-> "EMPTY", rc |-> 0]

mark_failed(w) == [w EXCEPT !.st = "FAILED"]

\* transition: one directory cell of d is overwritten.
transition(d, p, k, st, s) == [d EXCEPT ![p][k] = [st |-> st, slot |-> s]]

\* How many handles of h name slot s.
Handles(h, s) == Cardinality({e \in Experts : h[e] = s})

\* Mutant: every slot is unpinned, used or not, and below zero.
unpin_all_AllSlots(h) == [s \in Slots |-> [slot[s] EXCEPT !.rc = @ - 1]]

\* unpin(out[i]) for every handle recorded in h.
unpin_all(h) == [s \in Slots |-> unpinned(slot[s], Handles(h, s))]

-----------------------------------------------------------------------------
(* The exec thread: pin_layer, the computation, and the final unpins of    *)
(* exec_moe_closure (minigraph_exec.cpp:3694-3738).                        *)

\* A layer is entered with the non-empty set of experts its tokens route to.
PinBegin(l, E) ==
  /\ epc = "idle" /\ E # {}
  /\ epc' = "scan" /\ elayer' = l /\ needed' = E /\ visit' = E
  /\ UNCHANGED <<missing, handle>>
  /\ UNCHANGED <<await, slot, content, dir, touched, queue, passVars, actVars,
                 load, moveVars>>

\* One iteration of the scan: a READY copy is pinned here (set A), anything
\* else is left to the scheduler (set B).
PinScan ==
  /\ epc = "scan" /\ visit # {}
  /\ LET e == Least(visit)
         k == <<elayer, e>>
         s == scan(k)
     IN  /\ visit' = visit \ {e}
         /\ IF s # None /\ CanPin(slot[s])
            THEN /\ slot' = [slot EXCEPT ![s] = pinned(@)]
                 /\ handle' = [handle EXCEPT ![e] = s]
                 /\ touched' = touched \cup {k}
                 /\ UNCHANGED missing
            ELSE /\ missing' = missing \cup {e}
                 /\ UNCHANGED <<slot, handle, touched>>
  /\ UNCHANGED <<epc, elayer, needed, await, content, dir, queue, passVars, actVars,
                 load, moveVars>>

PinHit ==
  /\ epc = "scan" /\ visit = {} /\ missing = {}
  /\ epc' = "compute"
  /\ UNCHANGED <<elayer, needed, visit, missing, handle, await, slot, content, dir,
                 touched, queue, passVars, actVars, load, moveVars>>

\* B is pushed as one request; then await.wait().
PinSubmit ==
  /\ epc = "scan" /\ visit = {} /\ missing # {}
  /\ queue' = [layer |-> elayer, needed |-> missing,
               target |-> Cardinality(missing)]
  /\ await' = [done |-> 0, failed |-> FALSE, target |-> Cardinality(missing)]
  /\ epc' = "wait"
  /\ UNCHANGED <<elayer, needed, visit, missing, handle, slot, content, dir, touched,
                 passVars, actVars, load, moveVars>>

\* Mutant: the A pins of a failed call are forgotten.
PinFailed_KeepsPins ==
  /\ epc = "wait" /\ await.failed
  /\ handle' = NoHandles /\ missing' = {} /\ epc' = "idle"
  /\ UNCHANGED <<elayer, needed, visit, await, slot, content, dir, touched,
                 queue, passVars, actVars, load, moveVars>>

\* wait() returns because the request failed: the A pins are released.
PinFailed ==
  /\ epc = "wait" /\ await.failed
  /\ slot' = unpin_all(handle)
  /\ handle' = NoHandles /\ missing' = {} /\ epc' = "idle"
  /\ UNCHANGED <<elayer, needed, visit, await, content, dir, touched, queue,
                 passVars, actVars, load, moveVars>>

\* wait() returns because every B item settled.
PinWake ==
  /\ epc = "wait" /\ await.done >= await.target /\ ~await.failed
  /\ epc' = "collect" /\ visit' = missing
  /\ UNCHANGED <<elayer, needed, missing, handle, await, slot, content, dir, touched,
                 queue, passVars, actVars, load, moveVars>>

\* The slot of one B item is recorded, without pinning it again; a B item
\* that is not found makes the call release what it recorded and fail.
PinCollect ==
  /\ epc = "collect" /\ visit # {}
  /\ LET e == Least(visit)
         s == scan(<<elayer, e>>)
     IN  IF s # None
         THEN /\ visit' = visit \ {e}
              /\ handle' = [handle EXCEPT ![e] = s]
              /\ UNCHANGED <<epc, missing, slot>>
         ELSE /\ slot' = unpin_all(handle)
              /\ handle' = NoHandles /\ missing' = {} /\ visit' = {}
              /\ epc' = "idle"
  /\ UNCHANGED <<elayer, needed, await, content, dir, touched, queue,
                 passVars, actVars, load, moveVars>>

PinReturn ==
  /\ epc = "collect" /\ visit = {}
  /\ epc' = "compute"
  /\ UNCHANGED <<elayer, needed, visit, missing, handle, await, slot, content, dir,
                 touched, queue, passVars, actVars, load, moveVars>>

\* The layer is computed; every handle is unpinned once.
Unpin ==
  /\ epc = "compute"
  /\ slot' = unpin_all(handle)
  /\ handle' = NoHandles /\ missing' = {} /\ epc' = "idle"
  /\ UNCHANGED <<elayer, needed, visit, await, content, dir, touched, queue,
                 passVars, actVars, load, moveVars>>

-----------------------------------------------------------------------------
(* The active request (scheduler.cpp:634-718).                             *)

active_clear_state == active' = NoActive /\ ledger' = EmptyLedger /\ clock' = "off"

\* Mutant: the ledger is cleared without releasing what is on it.
active_fail_KeepsPins(sl) ==
  /\ slot' = sl
  /\ await' = [await EXCEPT !.failed = TRUE]
  /\ active_clear_state

\* All or nothing: the pinned B slots of sl are released and exec is failed.
active_fail(sl) ==
  /\ slot' = [s \in Slots |-> unpinned(sl[s], ledger[s])]
  /\ await' = [await EXCEPT !.failed = TRUE]
  /\ active_clear_state

IsActiveItem(k) == active.on /\ k[1] = active.layer /\ k[2] \in active.still

\* Mutant: the item is accounted but not pinned.
active_settle_NoPin(k, s, sl) ==
  /\ slot' = sl
  /\ IF ~IsActiveItem(k) THEN UNCHANGED <<await, actVars>>
     ELSE /\ await' = [await EXCEPT !.done = @ + 1]
          /\ IF active.left = 1
             THEN active_clear_state
             ELSE /\ active' = [active EXCEPT !.still = @ \ {k[2]},
                                              !.left = @ - 1]
                  /\ ledger' = ledger /\ clock' = "off"

\* Key k is READY in slot s of sl: if it is a B item, it is pinned for exec and
\* accounted; the last one clears the request (active_finish).
active_settle(k, s, sl) ==
  IF ~IsActiveItem(k)
  THEN /\ slot' = sl
       /\ UNCHANGED <<await, actVars>>
  ELSE IF ~CanPin(sl[s]) \/ active.left = 0
  THEN active_fail(sl)
  ELSE /\ slot' = [sl EXCEPT ![s] = pinned(@)]
       /\ await' = [await EXCEPT !.done = @ + 1]
       /\ IF active.left = 1
          THEN active_clear_state
          ELSE /\ active' = [active EXCEPT !.still = @ \ {k[2]},
                                           !.left = @ - 1]
               /\ ledger' = [ledger EXCEPT ![s] = @ + 1]
               /\ clock' = "off"


-----------------------------------------------------------------------------
(* worker_loop (scheduler.cpp:1110): drain completions, accept requests,   *)
(* drain moves, and again.                                                 *)

\* The settle of a load whose last slice is drained (scheduler.cpp:738-775).
SettleLoaded(x) ==
  LET p == PoolOf(x.slot)
  IN  /\ dir' = transition(dir, p, x.key, "READY", x.slot)
      /\ content' = [content EXCEPT ![x.slot] = x.key]
      /\ active_settle(x.key, x.slot,
                       [slot EXCEPT ![x.slot] = mark_ready(@)])

SettleFailed(x) ==
  LET p  == PoolOf(x.slot)
      sl == [slot EXCEPT ![x.slot] = mark_failed(@)]
  IN  /\ dir' = transition(dir, p, x.key, "ABSENT", None)
      /\ UNCHANGED content
      /\ IF IsActiveItem(x.key)
         THEN active_fail(sl)
         ELSE slot' = sl /\ UNCHANGED <<await, actVars>>

\* The load as it stands once the completion of a read with result r is drained.
Drained(x, r) == IF r = "ok" THEN [x EXCEPT !.ok = @ - 1]
                 ELSE [x EXCEPT !.bad = @ - 1, !.failed = TRUE]

\* One harvested completion is drained; the last one settles the load.
drain_completions(i, r) ==
  /\ spc = "drain" /\ load[i] # None
  /\ IF r = "ok" THEN load[i].ok > 0 ELSE load[i].bad > 0
  /\ LET x == Drained(load[i], r)
     IN  IF x.io + x.ok + x.bad > 0
         THEN /\ load' = [load EXCEPT ![i] = x]
              /\ UNCHANGED <<slot, content, dir, await, actVars>>
         ELSE /\ load' = [load EXCEPT ![i] = None]
              /\ IF x.failed THEN SettleFailed(x) ELSE SettleLoaded(x)
  /\ UNCHANGED <<execVars, touched, queue, passVars, moveVars>>

\* The engine has no more completion to hand out: on to accept_requests.
DrainEnd ==
  /\ spc = "drain"
  /\ \A i \in Elems : load[i] # None => load[i].ok = 0 /\ load[i].bad = 0
  /\ spc' = "accept"
  /\ UNCHANGED <<execVars, await, slot, content, dir, touched, queue, pass,
                 actVars, load, moveVars>>

\* accept_requests with an active request: a pass over its missing items.
AcceptActive ==
  /\ spc = "accept" /\ active.on
  /\ pass' = [NoPass EXCEPT !.visit = active.still]
  /\ spc' = "serve"
  /\ UNCHANGED <<execVars, await, slot, content, dir, touched, queue, actVars,
                 load, moveVars>>

\* The queued items that have a READY copy by now, and their slots.
ReadyItems == {e \in queue.needed :
                 LET s == scan(<<queue.layer, e>>)
                 IN  s # None /\ CanPin(slot[s])}
ReadySlots == {scan(<<queue.layer, e>>) : e \in ReadyItems}

\* Mutant: a registered request is not triaged.
active_register_NoTriage ==
  /\ spc = "accept" /\ ~active.on /\ queue # None
  /\ queue' = None /\ spc' = "serve"
  /\ active' = [on |-> TRUE, layer |-> queue.layer, still |-> queue.needed,
                left |-> queue.target]
  /\ ledger' = EmptyLedger /\ clock' = "off"
  /\ pass' = [NoPass EXCEPT !.visit = queue.needed, !.first = TRUE]
  /\ UNCHANGED <<execVars, await, slot, content, dir, touched, load, moveVars>>

\* No active request: one is popped and registered.  active_register pins the
\* items that are READY by now, in one turn of the scheduler; the same call of
\* accept_requests makes a first pass over the others, without stall
\* accounting.  (Its underflow exit cannot be taken: n_load_target is the
\* number of bits of the request.)
active_register ==
  /\ spc = "accept" /\ ~active.on /\ queue # None
  /\ queue' = None /\ spc' = "serve"
  /\ slot' = [s \in Slots |-> IF s \in ReadySlots THEN pinned(slot[s]) ELSE slot[s]]
  /\ await' = [await EXCEPT !.done = @ + Cardinality(ReadyItems)]
  /\ IF queue.target = Cardinality(ReadyItems)
     THEN active_clear_state
     ELSE /\ active' = [on |-> TRUE, layer |-> queue.layer,
                        still |-> queue.needed \ ReadyItems,
                        left |-> queue.target - Cardinality(ReadyItems)]
          /\ ledger' = [s \in Slots |-> IF s \in ReadySlots THEN 1 ELSE 0]
          /\ clock' = "off"
  /\ pass' = [NoPass EXCEPT !.visit = queue.needed \ ReadyItems, !.first = TRUE]
  /\ UNCHANGED <<execVars, content, dir, touched, load, moveVars>>

AcceptNothing ==
  /\ spc = "accept" /\ ~active.on /\ queue = None
  /\ spc' = "moves"
  /\ UNCHANGED <<execVars, await, slot, content, dir, touched, queue, pass,
                 actVars, load, moveVars>>

\* The items of the pass that are still bits of active_still_need_.
Todo == pass.visit \cap active.still
RingFull == \A i \in Elems : load[i] # None

\* Mutant: a copy that is being moved in is taken for absent.
ServeItem_LoadsMoving ==
  /\ spc = "serve" /\ Todo # {} /\ ~RingFull
  /\ LET e == Least(Todo)
         k == <<active.layer, e>>
     IN  /\ scan(k) = None
         /\ pass' = [pass EXCEPT !.visit = @ \ {e}, !.cur = e, !.slot = None]
         /\ spc' = IF \E p \in Pools : dir[p][k].st = "LOADING" THEN "serve"
                   ELSE IF DevSlots # {} THEN "device" ELSE "ram"
  /\ UNCHANGED <<execVars, await, slot, content, dir, touched, queue, actVars,
                 load, moveVars>>

\* The next item of the pass: pinned if READY, left alone if in flight, and
\* otherwise given to alloc_or_evict, first in the device pool.
ServeItem ==
  /\ spc = "serve" /\ Todo # {} /\ ~RingFull
  /\ LET e == Least(Todo)
         k == <<active.layer, e>>
         next == [pass EXCEPT !.visit = @ \ {e}, !.cur = e, !.slot = None]
     IN  IF scan(k) # None
         THEN /\ active_settle(k, scan(k), slot)
              /\ pass' = next /\ UNCHANGED spc
         ELSE /\ pass' = next
              /\ spc' = IF \E p \in Pools : dir[p][k].st # "ABSENT" THEN "serve"
                        ELSE IF DevSlots # {} THEN "device" ELSE "ram"
              /\ UNCHANGED <<slot, await, actVars>>
  /\ UNCHANGED <<execVars, content, dir, touched, queue, load, moveVars>>

-----------------------------------------------------------------------------
(* alloc_or_evict (scheduler.cpp:413-554), for the current item            *)
(* <<active.layer, pass.cur>> of the pass.                                 *)

Item == <<active.layer, pass.cur>>

EmptySlots(p) == {s \in PoolSlots(p) : slot[s].st = "EMPTY"}

\* Mutant: a pinned copy may be evicted.
Evictable_Pinned(p, fresh) ==
  {k \in Keys : /\ dir[p][k].st = "READY"
                /\ slot[dir[p][k].slot].st = "READY"
                /\ fresh \/ k \in touched}

\* Mutant: copies that exec never pinned itself stay protected for good.
Evictable_NeverFresh(p, fresh) ==
  {k \in Keys : /\ dir[p][k].st = "READY"
                /\ slot[dir[p][k].slot].st = "READY"
                /\ slot[dir[p][k].slot].rc = 0
                /\ k \in touched}

\* Keys whose copy in pool p may be evicted: READY and unpinned, and, unless
\* fresh is TRUE, pinned by exec at least once (last_used # 0).
Evictable(p, fresh) ==
  {k \in Keys : /\ dir[p][k].st = "READY"
                /\ slot[dir[p][k].slot].st = "READY"
                /\ slot[dir[p][k].slot].rc = 0
                /\ fresh \/ k \in touched}

\* How far down the ring of layers the layer of k is from layer l.
RingDistance(l, k) == (l - k[1] + NLayer) % NLayer
Nearest(l, C) == {k \in C : \A j \in C : RingDistance(l, k) <= RingDistance(l, j)}

\* The candidates of the best class; the score picks among them.
Victims(l, p) ==
  IF Evictable(p, FALSE) # {} THEN Nearest(l, Evictable(p, FALSE))
  ELSE Nearest(l, Evictable(p, TRUE))

\* A free slot s of pool p is taken: LOADING is published, then IO_INFLIGHT.
AllocFree(p, s) ==
  /\ s \in EmptySlots(p)
  /\ dir' = transition(dir, p, Item, "LOADING", s)
  /\ slot' = [slot EXCEPT ![s] = begin_reload]
  /\ content' = [content EXCEPT ![s] = None]
  /\ pass' = [pass EXCEPT !.slot = s]
  /\ spc' = "load"
  /\ UNCHANGED <<execVars, await, touched, queue, actVars, load, moveVars>>

\* Mutant: the evicted key keeps its directory entry.
AllocEvict_KeepsEntry(p, v) ==
  /\ EmptySlots(p) = {} /\ v \in Victims(active.layer, p)
  /\ LET s == dir[p][v].slot
     IN  /\ dir' = transition(dir, p, Item, "LOADING", s)
         /\ slot' = [slot EXCEPT ![s] = begin_reload]
         /\ content' = [content EXCEPT ![s] = None]
         /\ pass' = [pass EXCEPT !.slot = s]
  /\ spc' = "load"
  /\ UNCHANGED <<execVars, await, touched, queue, actVars, load, moveVars>>

\* The copy of v in pool p is dropped and its slot reloaded for the item.
AllocEvict(p, v) ==
  /\ EmptySlots(p) = {} /\ v \in Victims(active.layer, p)
  /\ LET s == dir[p][v].slot
     IN  /\ dir' = transition(transition(dir, p, v, "ABSENT", None),
                              p, Item, "LOADING", s)
         /\ slot' = [slot EXCEPT ![s] = begin_reload]
         /\ content' = [content EXCEPT ![s] = None]
         /\ pass' = [pass EXCEPT !.slot = s]
  /\ spc' = "load"
  /\ UNCHANGED <<execVars, await, touched, queue, actVars, load, moveVars>>

NothingToTake(p) == EmptySlots(p) = {} /\ Victims(active.layer, p) = {}

\* The device victim v is demoted to the free RAM slot d: the move is
\* submitted, the source stays EVICTING and the item gets no device slot.
DemoteToFree(v, d) ==
  /\ spc = "device"
  /\ EmptySlots("dev") = {} /\ v \in Victims(active.layer, "dev")
  /\ d \in EmptySlots("ram")
  /\ LET s == dir["dev"][v].slot
     IN  /\ dir' = transition(transition(dir, "dev", v, "ABSENT", None),
                              "ram", v, "MOVING_IN", d)
         /\ slot' = [slot EXCEPT ![s] = begin_evict(@), ![d] = begin_reload]
         /\ content' = [content EXCEPT ![d] = None]
         /\ moveq' = moveq \cup {[key |-> v, src |-> s, dst |-> d]}
  /\ spc' = "ram"
  /\ UNCHANGED <<execVars, await, touched, queue, pass, actVars, load, movedone>>

\* The same when the RAM pool is full: the recursive call evicts, for the layer
\* of v, the RAM copy of w and hands its slot to v.
DemoteEvicting(v, w) ==
  /\ spc = "device"
  /\ EmptySlots("dev") = {} /\ v \in Victims(active.layer, "dev")
  /\ EmptySlots("ram") = {} /\ w \in Victims(v[1], "ram")
  /\ LET s == dir["dev"][v].slot
         d == dir["ram"][w].slot
     IN  /\ dir' = transition(transition(transition(dir,
                     "dev", v, "ABSENT", None),
                     "ram", w, "ABSENT", None),
                     "ram", v, "MOVING_IN", d)
         /\ slot' = [slot EXCEPT ![s] = begin_evict(@), ![d] = begin_reload]
         /\ content' = [content EXCEPT ![d] = None]
         /\ moveq' = moveq \cup {[key |-> v, src |-> s, dst |-> d]}
  /\ spc' = "ram"
  /\ UNCHANGED <<execVars, await, touched, queue, pass, actVars, load, movedone>>

\* RAM has no room for the victim: the device copy is dropped.
DemoteDrop(v) ==
  /\ spc = "device"
  /\ EmptySlots("ram") = {} /\ Victims(v[1], "ram") = {}
  /\ AllocEvict("dev", v)

DeviceFree(s) == spc = "device" /\ AllocFree("dev", s)

\* No device slot: the item is tried in RAM.
DeviceNone ==
  /\ spc = "device" /\ NothingToTake("dev")
  /\ spc' = "ram"
  /\ UNCHANGED <<execVars, await, slot, content, dir, touched, queue, pass,
                 actVars, load, moveVars>>

RamFree(s)  == spc = "ram" /\ AllocFree("ram", s)
RamEvict(v) == spc = "ram" /\ AllocEvict("ram", v)

\* No slot anywhere: the item is skipped in this pass.
RamNone ==
  /\ spc = "ram" /\ NothingToTake("ram")
  /\ pass' = [pass EXCEPT !.noslot = TRUE]
  /\ spc' = "serve"
  /\ UNCHANGED <<execVars, await, slot, content, dir, touched, queue, actVars,
                 load, moveVars>>

-----------------------------------------------------------------------------
(* start_async_load, the end of a pass, and the I/O engine.                *)

\* The load of the item: n of its reads were accepted by submit_batch.
start_async_load(i, n) ==
  /\ spc = "load" /\ load[i] = None
  /\ n = NSlices \/ SubmitErrors
  /\ n > 0
  /\ load' = [load EXCEPT ![i] =
                [key |-> Item, slot |-> pass.slot, io |-> n, ok |-> 0, bad |-> 0,
                 failed |-> n < NSlices]]
  /\ pass' = [pass EXCEPT !.slot = None, !.started = TRUE]
  /\ spc' = "serve"
  /\ UNCHANGED <<execVars, await, slot, content, dir, touched, queue, actVars,
                 moveVars>>

\* No read was accepted: the directory entry is reverted and the pass breaks
\* off.  The slot is left as it is.
LoadRefused ==
  /\ spc = "load" /\ SubmitErrors
  /\ dir' = transition(dir, PoolOf(pass.slot), Item, "ABSENT", None)
  /\ pass' = [pass EXCEPT !.slot = None, !.visit = {}]
  /\ spc' = "serve"
  /\ UNCHANGED <<execVars, await, slot, content, touched, queue, actVars, load,
                 moveVars>>

PassOver == spc = "serve" /\ (Todo = {} \/ RingFull)

\* Mutant: the stall clock is never armed.
ServeEnd_NoClock ==
  /\ PassOver
  /\ spc' = "moves" /\ pass' = NoPass
  /\ UNCHANGED <<execVars, await, slot, content, dir, touched, queue, actVars,
                 load, moveVars>>

\* The pass ends: a pass over the active request keeps the stall clock.
ServeEnd ==
  /\ PassOver
  /\ spc' = "moves" /\ pass' = NoPass
  /\ ~(~pass.first /\ pass.noslot /\ ~pass.started /\ active.left # 0 /\ clock = "past")
  /\ clock' = IF pass.first THEN clock
              ELSE IF pass.started \/ active.left = 0 THEN "off"
              ELSE IF pass.noslot /\ clock = "off" THEN "armed"
              ELSE clock
  /\ UNCHANGED <<execVars, await, slot, content, dir, touched, queue, active,
                 ledger, load, moveVars>>

\* The pass found no slot and the clock is past STALL_FAIL_MS.
StallFail ==
  /\ PassOver
  /\ ~pass.first /\ pass.noslot /\ ~pass.started /\ active.left # 0 /\ clock = "past"
  /\ spc' = "moves" /\ pass' = NoPass
  /\ active_fail(slot)
  /\ UNCHANGED <<execVars, content, dir, touched, queue, load, moveVars>>

\* STALL_FAIL_MS go by since the clock was armed.
StallClock ==
  /\ clock = "armed" /\ clock' = "past"
  /\ UNCHANGED <<execVars, await, slot, content, dir, touched, queue, passVars,
                 active, ledger, load, moveVars>>

\* The load as it stands once one of its reads ended with result r.
Completed(x, r) == IF r = "ok" THEN [x EXCEPT !.io = @ - 1, !.ok = @ + 1]
                   ELSE [x EXCEPT !.io = @ - 1, !.bad = @ + 1]

\* The engine completes one read of load i.
DioComplete(i, r) ==
  /\ load[i] # None /\ load[i].io > 0
  /\ r = "ok" \/ ReadErrors
  /\ load' = [load EXCEPT ![i] = Completed(@, r)]
  /\ UNCHANGED <<execVars, await, slot, content, dir, touched, queue, passVars,
                 actVars, moveVars>>

-----------------------------------------------------------------------------
(* Moves.                                                                  *)

\* move_worker_main: one queued move is copied and reported.
MoveCopy(m) ==
  /\ m \in moveq
  /\ content' = [content EXCEPT ![m.dst] = content[m.src]]
  /\ moveq' = moveq \ {m} /\ movedone' = movedone \cup {m}
  /\ UNCHANGED <<execVars, await, slot, dir, touched, queue, passVars, actVars,
                 load>>

\* Mutant: the device slot of a finished move is not released.
drain_moves_KeepsSource(m) ==
  /\ spc = "moves" /\ m \in movedone
  /\ movedone' = movedone \ {m}
  /\ dir' = transition(dir, "ram", m.key, "READY", m.dst)
  /\ active_settle(m.key, m.dst, [slot EXCEPT ![m.dst] = mark_ready(@)])
  /\ UNCHANGED <<execVars, content, touched, queue, passVars, load, moveq>>

\* drain_moves: a finished move lands in RAM and frees its device slot.
drain_moves(m) ==
  /\ spc = "moves" /\ m \in movedone
  /\ movedone' = movedone \ {m}
  /\ dir' = transition(dir, "ram", m.key, "READY", m.dst)
  /\ active_settle(m.key, m.dst, [slot EXCEPT ![m.dst] = mark_ready(@),
                                              ![m.src] = release_to_empty])
  /\ UNCHANGED <<execVars, content, touched, queue, passVars, load, moveq>>

MovesEnd ==
  /\ spc = "moves" /\ movedone = {}
  /\ spc' = "drain"
  /\ UNCHANGED <<execVars, await, slot, content, dir, touched, queue, pass,
                 actVars, load, moveVars>>

-----------------------------------------------------------------------------
Init ==
  /\ epc = "idle" /\ elayer = 0 /\ needed = {} /\ visit = {} /\ missing = {}
  /\ handle = NoHandles
  /\ await = [done |-> 0, failed |-> FALSE, target |-> 0]
  /\ slot = [s \in Slots |-> release_to_empty]
  /\ content = [s \in Slots |-> None]
  /\ dir = [p \in Pools |-> [k \in Keys |-> Absent]]
  /\ touched = {} /\ queue = None
  /\ spc = "drain" /\ pass = NoPass
  /\ active = NoActive /\ ledger = EmptyLedger /\ clock = "off"
  /\ load = [i \in Elems |-> None]
  /\ moveq = {} /\ movedone = {}

Exec ==
  \/ \E l \in Layers, E \in SUBSET Experts : PinBegin(l, E)
  \/ PinScan \/ PinHit \/ PinSubmit \/ PinFailed \/ PinWake
  \/ PinCollect \/ PinReturn \/ Unpin

Scheduler ==
  \/ \E i \in Elems, r \in {"ok", "error"} : drain_completions(i, r)
  \/ DrainEnd \/ AcceptActive \/ active_register \/ AcceptNothing \/ ServeItem
  \/ \E v \in Keys, d \in RamSlots : DemoteToFree(v, d)
  \/ \E v \in Keys, w \in Keys : DemoteEvicting(v, w)
  \/ \E v \in Keys : DemoteDrop(v)
  \/ \E s \in DevSlots : DeviceFree(s)
  \/ DeviceNone
  \/ \E s \in RamSlots : RamFree(s)
  \/ \E v \in Keys : RamEvict(v)
  \/ RamNone
  \/ \E i \in Elems, n \in 0 .. NSlices : start_async_load(i, n)
  \/ LoadRefused \/ ServeEnd \/ StallFail
  \/ \E m \in movedone : drain_moves(m)
  \/ MovesEnd

Dio == \E i \in Elems, r \in {"ok", "error"} : DioComplete(i, r)
MoveWorker == \E m \in moveq : MoveCopy(m)

Next == Exec \/ Scheduler \/ StallClock \/ Dio \/ MoveWorker

Spec == Init /\ [][Next]_vars

\* Every thread keeps running, every read completes and the clock advances.
Fairness ==
  /\ WF_vars(PinScan \/ PinHit \/ PinSubmit \/ PinFailed \/ PinWake
             \/ PinCollect \/ PinReturn \/ Unpin)
  /\ WF_vars(Scheduler) /\ WF_vars(StallClock)
  /\ WF_vars(Dio) /\ WF_vars(MoveWorker)

FairSpec == Spec /\ Fairness

-----------------------------------------------------------------------------
(* Properties.                                                             *)

TypeOK ==
  /\ epc \in {"idle", "scan", "wait", "collect", "compute"}
  /\ elayer \in Layers /\ needed \in SUBSET Experts
  /\ visit \in SUBSET Experts /\ missing \in SUBSET Experts
  /\ handle \in [Experts -> Slots \cup {None}]
  /\ await \in [done : Nat, failed : BOOLEAN, target : Nat]
  /\ slot \in [Slots -> Word]
  /\ content \in [Slots -> Keys \cup {None}]
  /\ dir \in [Pools -> [Keys -> Entry]]
  /\ touched \in SUBSET Keys
  /\ queue \in Request \cup {None}
  /\ spc \in {"drain", "accept", "serve", "device", "ram", "load", "moves"}
  /\ active \in Active
  /\ ledger \in [Slots -> Nat]
  /\ clock \in {"off", "armed", "past"}
  /\ pass \in Pass
  /\ load \in [Elems -> Load \cup {None}]
  /\ moveq \in SUBSET Move /\ movedone \in SUBSET Move

Moves == moveq \cup movedone
Loads == {load[i] : i \in {j \in Elems : load[j] # None}}

\* An expert has at most one copy or transfer under way in all the pools
\* together, and no slot serves two experts: no expert is ever loaded twice at
\* once, and no eviction, demotion or load takes a slot that is in use
\* (alloc_or_evict, drain_completions and drain_moves together).
OneCopyOneSlot ==
  \A p, q \in Pools, k, j \in Keys :
    dir[p][k].st # "ABSENT" /\ dir[q][j].st # "ABSENT" =>
      /\ dir[p][k].slot \in PoolSlots(p)
      /\ (k = j \/ dir[p][k].slot = dir[q][j].slot) => p = q /\ k = j

\* What a scan may find READY can be pinned, and holds the weights of that very
\* expert (the completion-side ordering of load, move and demotion).
ReadyIsResident ==
  \A p \in Pools, k \in Keys :
    dir[p][k].st = "READY" =>
      /\ slot[dir[p][k].slot].st = "READY"
      /\ content[dir[p][k].slot] = k

\* While a request is active, n_left is the number of items still to settle,
\* the wake counter is short of its target by exactly that number, and no item
\* is READY without being pinned: an item that settled between exec's scan and
\* the registration, or during another request's drain, is not lost.
RequestAccounted ==
  active.on =>
    /\ epc = "wait" /\ ~await.failed /\ active.layer = elayer
    /\ active.left = Cardinality(active.still) /\ active.left > 0
    /\ await.done + active.left = await.target
    /\ active.still \subseteq missing
    /\ \A e \in active.still : scan(<<elayer, e>>) = None
    /\ \A e \in missing \ active.still :
         LET s == scan(<<elayer, e>>) IN s # None /\ ledger[s] = 1

\* The slots of B items that are pinned but not yet recorded by exec.
Owed ==
  IF ~active.on /\ queue = None /\ ~await.failed /\ epc = "wait"
  THEN {scan(<<elayer, e>>) : e \in missing}
  ELSE IF epc = "collect" THEN {scan(<<elayer, e>>) : e \in visit} ELSE {}

\* A slot's refcount is exactly what exec holds on it, what the scheduler holds
\* for exec, and what is on its way from the one to the other; so after a
\* failure, and whenever exec is idle, no slot stays pinned.
RefcountExact ==
  \A s \in Slots : slot[s].rc = Handles(handle, s) + ledger[s]
                                + (IF s \in Owed THEN 1 ELSE 0)

\* While exec computes a layer it holds a handle for every expert it asked for
\* and no other, and each names a pinned slot with that expert's weights.
ComputeHoldsLayer ==
  epc = "compute" =>
    \A e \in Experts :
      IF e \in needed
      THEN /\ handle[e] # None /\ slot[handle[e]].st = "READY"
           /\ slot[handle[e]].rc > 0 /\ content[handle[e]] = <<elayer, e>>
      ELSE handle[e] = None

\* A pinned slot keeps its state and its bytes: no eviction, reload, move or
\* late completion reaches it.
PinnedSlotKept ==
  [][\A s \in Slots : slot[s].rc > 0 =>
        slot'[s].st = slot[s].st /\ content'[s] = content[s]]_<<slot, content>>

\* Transfers into and out of slot s that are under way: loads, moves, and the
\* slot a pass has just taken.
Inbound(s) ==
  Cardinality({i \in Elems : load[i] # None /\ load[i].slot = s})
  + Cardinality({m \in Moves : m.dst = s}) + (IF pass.slot = s THEN 1 ELSE 0)
Outbound(s) == Cardinality({m \in Moves : m.src = s})

\* A slot an I/O error took out of use: mark_failed, or a load of which no read
\* was accepted.
Lost(s) == \/ slot[s].st = "FAILED"
           \/ slot[s].st = "IO_INFLIGHT" /\ Inbound(s) = 0

\* A slot that is neither free nor resident is the target or the source of
\* exactly one load or move under way, so it becomes usable again when that
\* ends; what an I/O error took out of use is named by no directory entry.
EverySlotComesBack ==
  \A s \in Slots :
    /\ Inbound(s) + Outbound(s) <= 1
    /\ Inbound(s) = 1 => slot[s].st = "IO_INFLIGHT"
    /\ slot[s].st = "EVICTING" <=> Outbound(s) = 1
    /\ Lost(s) => \A p \in Pools, k \in Keys :
                    dir[p][k].st # "ABSENT" => dir[p][k].slot # s

\* A pass finds no slot for an item only while something is on its way to
\* settle: with a pool of one layer or more there is no capacity deadlock, as
\* long as I/O errors have left that many slots.
NoSlotOnlyBehindTransfer ==
  [][~pass.noslot /\ pass'.noslot =>
       \/ Loads # {} \/ Moves # {}
       \/ Cardinality({s \in RamSlots : ~Lost(s)}) < NExpert]_pass

\* pin_layer returns: with every expert pinned, or having failed.
PinLayerReturns == epc = "wait" ~> epc # "wait"

\* An expert the active request still needs, with nothing under way that could
\* make room for it, can be given a slot ("Revert LOADING -> ABSENT so a later
\* retry can reload the expert", scheduler.cpp:750).
RetryHasRoom ==
  spc = "ram" /\ Loads = {} /\ Moves = {} => ~NothingToTake("ram")

=============================================================================
