------------------------ MODULE ExpertSchedulerProofs ------------------------
(***************************************************************************)
(* Type correctness and residency of ExpertScheduler, for every number of  *)
(* layers, experts, slots, ring elements and slices.                       *)
(*                                                                         *)
(* TypeOK is not inductive: that a slot number read from the directory is  *)
(* a slot needs EntryInPool, that a counter of a load stays in range needs *)
(* LoadCount (their sum only shrinks), that start_async_load is called for *)
(* a slot needs PassSlot, and that n_left stays a natural number needs     *)
(* QueueTarget.  Typed is the five together, and is inductive.             *)
(***************************************************************************)
EXTENDS ExpertScheduler, FiniteSetTheorems, WellFoundedInduction, TLAPS

\* A non-empty set of experts has a least one: the loops over bits find it.
LEMMA LeastInSet ==
  ASSUME NEW S, S \subseteq Nat, S # {}
  PROVE  Least(S) \in S /\ \A d \in S : Least(S) <= d
<1> DEFINE R == {ss \in Nat \X Nat : ss[1] < ss[2]}
<1>1. IsWellFoundedOn(R, Nat)
  BY NatLessThanWellFounded, Zenon DEF OpToRel
<1>2. PICK x \in S : \A y \in S : ~ (<<y, x>> \in R)
  <2> HIDE DEF R
  <2> QED  BY <1>1, WFMin, Zenon
<1>3. ASSUME NEW y \in S PROVE x <= y
  <2>1. <<y, x>> \notin R
    BY <1>2
  <2>2. y \in Nat /\ x \in Nat
    OBVIOUS
  <2>3. ~(y < x)
    <3>1. SUFFICES ASSUME y < x PROVE <<y, x>> \in R
      BY <2>1
    <3> QED BY <2>2, <3>1
  <2> QED
    BY <2>2, <2>3
<1> QED
  BY <1>3 DEF Least

\* Every entry of directory d that is not ABSENT names a slot of its pool.
InPool(d) ==
  \A p \in Pools, k \in Keys : d[p][k].st # "ABSENT" => d[p][k].slot \in PoolSlots(p)
EntryInPool == InPool(dir)

\* A load in the ring has at least one read that is not drained yet.
LoadCount ==
  \A i \in Elems : load[i] # None =>
    /\ load[i] \in Load
    /\ load[i].io + load[i].ok + load[i].bad \in 1 .. NSlices
PassSlot == spc = "load" => pass.slot \in Slots
QueueTarget == queue # None => queue \in Request /\ queue.target = Cardinality(queue.needed)

Typed == TypeOK /\ EntryInPool /\ LoadCount /\ PassSlot /\ QueueTarget

\* Layers, experts and pools are not empty, and a slot is in the pool PoolOf
\* names.
LEMMA ConstantFacts ==
  /\ 0 \in Layers /\ 0 \in Experts /\ Experts \subseteq Nat
  /\ IsFiniteSet(Experts)
  /\ RamSlots \subseteq Slots /\ DevSlots \subseteq Slots
  /\ \A e \in Experts, l \in Layers : <<l, e>> \in Keys
  /\ \A s \in Slots : PoolOf(s) \in Pools /\ s \in PoolSlots(PoolOf(s))
  /\ \A p \in Pools : PoolSlots(p) \subseteq Slots
<1>1. IsFiniteSet(Experts)
  BY SizeAssumption, FS_Interval DEF Experts
<1> QED
  BY <1>1, SizeAssumption DEF Layers, Experts, Slots, Keys, PoolOf, PoolSlots, Pools

\* The freshly initialised scheduler is typed.
LEMMA TypedInit == Init => Typed
  BY ConstantFacts, SizeAssumption
  DEF Init, Typed, TypeOK, EntryInPool, InPool, LoadCount, PassSlot, QueueTarget, NoHandles, release_to_empty, Word, Absent, Entry,
      NoPass, Pass, NoActive, Active, EmptyLedger

\* The number of handles that name a slot is a number.
LEMMA HandlesNat == ASSUME NEW h, NEW s PROVE Handles(h, s) \in Nat
<1>1. IsFiniteSet({e \in Experts : h[e] = s})
  BY ConstantFacts, FS_Subset
<1> QED BY <1>1, FS_CardinalityType DEF Handles

\* What each slot_meta operation returns: which state, and which refcount.
LEMMA WordFacts ==
  ASSUME NEW w \in Word
  PROVE  /\ pinned(w) \in Word /\ pinned(w).st = w.st /\ pinned(w).rc = w.rc + 1
         /\ \A n \in Nat : /\ unpinned(w, n) \in Word /\ unpinned(w, n).st = w.st
                           /\ unpinned(w, n).rc <= w.rc
         /\ begin_evict(w) \in Word
         /\ begin_evict(w).st = "EVICTING" /\ begin_evict(w).rc = w.rc
         /\ mark_failed(w) \in Word
         /\ mark_failed(w).st = "FAILED" /\ mark_failed(w).rc = w.rc
         /\ mark_ready(w) \in Word /\ mark_ready(w).rc = w.rc
         /\ mark_ready(w).st = IF w.st = "IO_INFLIGHT" THEN "READY" ELSE w.st
<1>1. w = [st |-> w.st, rc |-> w.rc] /\ w.rc \in Nat
  BY DEF Word
<1>2. pinned(w) = [st |-> w.st, rc |-> w.rc + 1]
  BY <1>1 DEF pinned, Word
<1>3. begin_evict(w) = [st |-> "EVICTING", rc |-> w.rc]
  BY <1>1 DEF begin_evict, Word
<1>4. mark_failed(w) = [st |-> "FAILED", rc |-> w.rc]
  BY <1>1 DEF mark_failed, Word
<1>5. mark_ready(w) = [st |-> IF w.st = "IO_INFLIGHT" THEN "READY" ELSE w.st,
                       rc |-> w.rc]
  BY <1>1 DEF mark_ready, Word
<1>6. ASSUME NEW n \in Nat
      PROVE  /\ unpinned(w, n) = [st |-> w.st, rc |-> IF w.rc >= n THEN w.rc - n ELSE 0]
             /\ (IF w.rc >= n THEN w.rc - n ELSE 0) \in 0 .. w.rc
  BY <1>1 DEF unpinned, Word
<1> QED
  BY <1>1, <1>2, <1>3, <1>4, <1>5, <1>6 DEF Word

\* begin_reload and release_to_empty leave no pin behind.
LEMMA ConstantWords ==
  /\ begin_reload \in Word /\ begin_reload.st = "IO_INFLIGHT" /\ begin_reload.rc = 0
  /\ release_to_empty \in Word /\ release_to_empty.st = "EMPTY"
  /\ release_to_empty.rc = 0
  BY DEF begin_reload, release_to_empty, Word

\* transition overwrites one directory cell and no other.
LEMMA TransitionFacts ==
  ASSUME NEW d \in [Pools -> [Keys -> Entry]], NEW p \in Pools, NEW k \in Keys,
         NEW st \in {"ABSENT", "LOADING", "READY", "MOVING_IN"},
         NEW s \in Slots \cup {None}
  PROVE  /\ transition(d, p, k, st, s) \in [Pools -> [Keys -> Entry]]
         /\ transition(d, p, k, st, s)[p][k] = [st |-> st, slot |-> s]
         /\ \A q \in Pools, j \in Keys :
              p # q \/ k # j => transition(d, p, k, st, s)[q][j] = d[q][j]
  BY DEF transition, Entry

\* transition keeps entries in their pool when the new slot is in that pool.
LEMMA TransitionInPool ==
  ASSUME NEW d \in [Pools -> [Keys -> Entry]], InPool(d),
         NEW p \in Pools, NEW k \in Keys,
         NEW st \in {"ABSENT", "LOADING", "READY", "MOVING_IN"},
         NEW s \in Slots \cup {None}, st # "ABSENT" => s \in PoolSlots(p)
  PROVE  /\ transition(d, p, k, st, s) \in [Pools -> [Keys -> Entry]]
         /\ InPool(transition(d, p, k, st, s))
<1> DEFINE t == transition(d, p, k, st, s)
<1>1. /\ t \in [Pools -> [Keys -> Entry]]
      /\ t[p][k] = [st |-> st, slot |-> s]
      /\ \A q \in Pools, j \in Keys : p # q \/ k # j => t[q][j] = d[q][j]
  BY TransitionFacts
<1> HIDE DEF t
<1>2. ASSUME NEW q \in Pools, NEW j \in Keys, t[q][j].st # "ABSENT"
      PROVE  t[q][j].slot \in PoolSlots(q)
  <2>1. CASE p = q /\ k = j
    BY <1>1, <1>2, <2>1
  <2>2. CASE p # q \/ k # j
    BY <1>1, <1>2, <2>2 DEF InPool
  <2> QED
    BY <2>1, <2>2
<1> QED
  BY <1>1, <1>2 DEF InPool, t

\* Releasing handles changes no state and raises no count.
LEMMA UnpinAllFacts == 
  ASSUME slot \in [Slots -> Word], NEW h
  PROVE  /\ unpin_all(h) \in [Slots -> Word]
         /\ \A s \in Slots : /\ unpin_all(h)[s].st = slot[s].st
                             /\ unpin_all(h)[s].rc <= slot[s].rc
<1>1. ASSUME NEW s \in Slots
      PROVE  /\ unpinned(slot[s], Handles(h, s)) \in Word
             /\ unpinned(slot[s], Handles(h, s)).st = slot[s].st
             /\ unpinned(slot[s], Handles(h, s)).rc <= slot[s].rc
  <2>1. slot[s] \in Word /\ Handles(h, s) \in Nat
    BY HandlesNat
  <2> QED
    BY <2>1, WordFacts
<1> QED
  BY <1>1 DEF unpin_all

\* scan returns a slot or SLOT_UNASSIGNED.
LEMMA ScanType == 
  ASSUME TypeOK, EntryInPool, NEW k \in Keys
  PROVE  scan(k) \in Slots \cup {None}
  BY ConstantFacts DEF scan, TypeOK, EntryInPool, InPool, Pools

\* Every step of pin_layer and of the unpins keeps Typed.
LEMMA TypedExec == Typed /\ Exec => Typed'
<1> SUFFICES ASSUME Typed, Exec PROVE Typed'
  OBVIOUS
<1> USE DEF Typed, EntryInPool, LoadCount, PassSlot, QueueTarget
<1> USE DEF execVars, passVars, actVars, moveVars
<1>1. ASSUME NEW l \in Layers, NEW E \in SUBSET Experts, PinBegin(l, E) PROVE Typed'
  BY <1>1 DEF PinBegin, TypeOK
<1>2. CASE PinScan
  <2> DEFINE e == Least(visit)
             k == <<elayer, e>>
             s == scan(k)
  <2>1. e \in Experts
    BY <1>2, LeastInSet, ConstantFacts DEF PinScan, TypeOK
  <2>2. k \in Keys /\ s \in Slots \cup {None}
    BY <2>1, ConstantFacts, ScanType DEF TypeOK
  <2> HIDE DEF e
  <2>3. pinned(slot[s]) \in Word \/ s = None
    BY <2>2, WordFacts DEF TypeOK
  <2> QED
    BY <1>2, <2>1, <2>2, <2>3 DEF PinScan, TypeOK, e
<1>3. CASE PinHit
  BY <1>3 DEF PinHit, TypeOK
<1>4. CASE PinSubmit
  BY <1>4, ConstantFacts, FS_Subset, FS_CardinalityType DEF PinSubmit, TypeOK, Request
<1>5. CASE PinFailed
  BY <1>5, UnpinAllFacts DEF PinFailed, TypeOK, NoHandles
<1>6. CASE PinWake
  BY <1>6 DEF PinWake, TypeOK
<1>7. CASE PinCollect
  <2> DEFINE e == Least(visit)
             k == <<elayer, e>>
             s == scan(k)
  <2>1. e \in Experts
    BY <1>7, LeastInSet, ConstantFacts DEF PinCollect, TypeOK
  <2>2. k \in Keys /\ s \in Slots \cup {None}
    BY <2>1, ConstantFacts, ScanType DEF TypeOK
  <2> QED
    BY <1>7, <2>1, <2>2, UnpinAllFacts DEF PinCollect, TypeOK, NoHandles
<1>8. CASE PinReturn
  BY <1>8 DEF PinReturn, TypeOK
<1>9. CASE Unpin
  BY <1>9, UnpinAllFacts DEF Unpin, TypeOK, NoHandles
<1> QED
  BY <1>1, <1>2, <1>3, <1>4, <1>5, <1>6, <1>7, <1>8, <1>9 DEF Exec
-----------------------------------------------------------------------------
AwaitType == [done : Nat, failed : BOOLEAN, target : Nat]
ActiveTyped == /\ await \in AwaitType /\ active \in Active
               /\ ledger \in [Slots -> Nat] /\ clock \in {"off", "armed", "past"}

\* The next slots are those of sl but for refcounts, which only READY slots see
\* go up.
SlotStep(sl) ==
  /\ slot' \in [Slots -> Word]
  /\ \A s \in Slots : /\ slot'[s].st = sl[s].st
                      /\ slot'[s].rc <= sl[s].rc \/ sl[s].st = "READY"

\* active_clear_state leaves a typed, empty request.
LEMMA ClearFacts == active_clear_state => /\ active' \in Active
                                          /\ ledger' \in [Slots -> Nat]
                                          /\ clock' \in {"off", "armed", "past"}
  BY ConstantFacts DEF active_clear_state, NoActive, Active, EmptyLedger

\* active_fail only lowers refcounts.
LEMMA ActiveFailFacts ==
  ASSUME TypeOK, NEW sl \in [Slots -> Word], active_fail(sl)
  PROVE  SlotStep(sl) /\ ActiveTyped'
<1>1. ASSUME NEW s \in Slots
      PROVE  /\ unpinned(sl[s], ledger[s]) \in Word
             /\ unpinned(sl[s], ledger[s]).st = sl[s].st
             /\ unpinned(sl[s], ledger[s]).rc <= sl[s].rc
  <2>1. sl[s] \in Word /\ ledger[s] \in Nat
    BY DEF TypeOK
  <2> QED
    BY <2>1, WordFacts
<1>2. SlotStep(sl)
  BY <1>1 DEF active_fail, SlotStep
<1>3. await' \in AwaitType
  BY DEF active_fail, AwaitType, TypeOK
<1> QED
  BY <1>2, <1>3, ClearFacts DEF active_fail, ActiveTyped

\* active_settle changes no slot state, and raises the count of READY slots
\* only, whichever of its exits is taken.
LEMMA ActiveSettleFacts ==
  ASSUME TypeOK, NEW k, NEW s \in Slots, NEW sl \in [Slots -> Word],
         active_settle(k, s, sl)
  PROVE  SlotStep(sl) /\ ActiveTyped'
<1>0. ActiveTyped
  BY DEF TypeOK, ActiveTyped, AwaitType
<1>1. CASE ~IsActiveItem(k)
  <2>1. SlotStep(sl)
    BY <1>1 DEF active_settle, SlotStep, Word
  <2> QED
    BY <1>0, <1>1, <2>1 DEF active_settle, ActiveTyped, actVars
<1>2. CASE IsActiveItem(k) /\ (~CanPin(sl[s]) \/ active.left = 0)
  BY <1>2, ActiveFailFacts DEF active_settle
<1>3. CASE IsActiveItem(k) /\ CanPin(sl[s]) /\ active.left # 0
  <2>1. /\ slot' = [sl EXCEPT ![s] = pinned(@)]
        /\ await' = [await EXCEPT !.done = @ + 1]
    BY <1>3 DEF active_settle
  <2>2. pinned(sl[s]) \in Word /\ pinned(sl[s]).st = "READY" /\ sl[s].st = "READY"
    BY <1>3, WordFacts DEF CanPin
  <2>3. SlotStep(sl)
    BY <2>1, <2>2 DEF SlotStep, Word
  <2>4. await' \in AwaitType
    BY <2>1 DEF TypeOK, AwaitType
  <2>5. CASE active.left = 1
    BY <1>3, <2>3, <2>4, <2>5, ClearFacts DEF active_settle, ActiveTyped
  <2>6. CASE active.left # 1
    <3>1. /\ active' = [active EXCEPT !.still = @ \ {k[2]}, !.left = @ - 1]
          /\ ledger' = [ledger EXCEPT ![s] = @ + 1] /\ clock' = "off"
      BY <1>3, <2>6 DEF active_settle
    <3>2. active \in Active /\ ledger \in [Slots -> Nat]
      BY DEF TypeOK
    <3>3. active' \in Active
      <4>1. active.left - 1 \in Nat /\ active.still \ {k[2]} \in SUBSET Experts
        BY <1>3, <3>2 DEF Active
      <4>2. active' = [on |-> active.on, layer |-> active.layer,
                       still |-> active.still \ {k[2]}, left |-> active.left - 1]
        BY <3>1, <3>2 DEF Active
      <4> QED
        BY <3>2, <4>1, <4>2 DEF Active
    <3>4. ledger' \in [Slots -> Nat]
      BY <3>1, <3>2
    <3> QED
      BY <2>3, <2>4, <3>1, <3>3, <3>4 DEF ActiveTyped
  <2> QED
    BY <2>5, <2>6
<1> QED
  BY <1>1, <1>2, <1>3

\* A drained completion lowers the open reads of its load by one.
LEMMA DrainedFacts ==
  ASSUME NEW x \in Load, NEW r \in {"ok", "error"},
         IF r = "ok" THEN x.ok > 0 ELSE x.bad > 0
  PROVE  LET y == Drained(x, r)
         IN  /\ y \in Load /\ y.key = x.key /\ y.slot = x.slot
             /\ y.io + y.ok + y.bad = x.io + x.ok + x.bad - 1
<1>1. x = [key |-> x.key, slot |-> x.slot, io |-> x.io, ok |-> x.ok, bad |-> x.bad,
           failed |-> x.failed]
  BY DEF Load
<1>2. CASE r = "ok"
  <2>1. Drained(x, r) = [key |-> x.key, slot |-> x.slot, io |-> x.io,
                         ok |-> x.ok - 1, bad |-> x.bad, failed |-> x.failed]
    BY <1>1, <1>2 DEF Drained
  <2> QED
    BY <1>2, <2>1, SizeAssumption DEF Load
<1>3. CASE r # "ok"
  <2>1. Drained(x, r) = [key |-> x.key, slot |-> x.slot, io |-> x.io,
                         ok |-> x.ok, bad |-> x.bad - 1, failed |-> TRUE]
    BY <1>1, <1>3 DEF Drained
  <2> QED
    BY <1>3, <2>1, SizeAssumption DEF Load
<1> QED
  BY <1>2, <1>3

\* drain_completions keeps Typed.
LEMMA TypedDrain ==
  ASSUME Typed, NEW i \in Elems, NEW r \in {"ok", "error"}, drain_completions(i, r)
  PROVE  Typed'
<1> DEFINE x == Drained(load[i], r)
<1> USE DEF execVars, passVars, actVars, moveVars
<1>1. /\ load[i] \in Load /\ load[i] # None
      /\ load[i].io + load[i].ok + load[i].bad \in 1 .. NSlices
      /\ IF r = "ok" THEN load[i].ok > 0 ELSE load[i].bad > 0
  BY DEF drain_completions, Typed, TypeOK, LoadCount
<1>3. x \in Load
  BY <1>1, DrainedFacts
<1>4. x.io + x.ok + x.bad \in 0 .. NSlices
  BY <1>1, DrainedFacts, SizeAssumption DEF Load
<1>5. /\ UNCHANGED <<execVars, touched, queue, passVars, moveVars>>
      /\ IF x.io + x.ok + x.bad > 0
         THEN /\ load' = [load EXCEPT ![i] = x]
              /\ UNCHANGED <<slot, content, dir, await, actVars>>
         ELSE /\ load' = [load EXCEPT ![i] = None]
              /\ IF x.failed THEN SettleFailed(x) ELSE SettleLoaded(x)
  BY DEF drain_completions
<1> HIDE DEF x
<1>6. CASE x.io + x.ok + x.bad > 0
  <2>1. load' \in [Elems -> Load \cup {None}] /\ LoadCount'
    BY <1>3, <1>4, <1>5, <1>6 DEF Typed, TypeOK, LoadCount
  <2> QED
    BY <1>5, <1>6, <2>1 DEF Typed, TypeOK, EntryInPool, PassSlot, QueueTarget
<1>7. CASE ~(x.io + x.ok + x.bad > 0)
  <2> DEFINE p == PoolOf(x.slot)
  <2>1. x.slot \in Slots /\ x.key \in Keys /\ p \in Pools /\ x.slot \in PoolSlots(p)
    BY <1>3, ConstantFacts DEF Load
  <2>2. load' \in [Elems -> Load \cup {None}] /\ LoadCount'
    BY <1>5, <1>7 DEF Typed, TypeOK, LoadCount
  <2>3. slot[x.slot] \in Word /\ slot \in [Slots -> Word]
    BY <2>1 DEF Typed, TypeOK
  <2>4. dir \in [Pools -> [Keys -> Entry]]
    BY DEF Typed, TypeOK
  <2>5. CASE x.failed
    <3> DEFINE sl == [slot EXCEPT ![x.slot] = mark_failed(@)]
    <3>1. sl \in [Slots -> Word]
      BY <2>3, WordFacts
    <3>2. /\ dir' = transition(dir, p, x.key, "ABSENT", None)
          /\ content' = content
          /\ active_fail(sl) \/ (slot' = sl /\ UNCHANGED <<await, actVars>>)
      BY <1>5, <1>7, <2>5 DEF SettleFailed
    <3>3. slot' \in [Slots -> Word] /\ ActiveTyped'
      <4>1. CASE active_fail(sl)
        <5> HIDE DEF sl
        <5> QED
          BY <3>1, <4>1, ActiveFailFacts DEF Typed, SlotStep
      <4>2. CASE slot' = sl /\ UNCHANGED <<await, actVars>>
        <5> HIDE DEF sl
        <5> QED
          BY <3>1, <4>2 DEF Typed, TypeOK, ActiveTyped, AwaitType
      <4> QED
        BY <3>2, <4>1, <4>2
    <3>4. dir' \in [Pools -> [Keys -> Entry]] /\ EntryInPool'
      BY <2>1, <2>4, <3>2, TransitionInPool DEF Typed, EntryInPool
    <3> QED
      BY <1>5, <2>2, <3>2, <3>3, <3>4
      DEF Typed, TypeOK, PassSlot, QueueTarget, ActiveTyped, AwaitType
  <2>6. CASE ~x.failed
    <3> DEFINE sl == [slot EXCEPT ![x.slot] = mark_ready(@)]
    <3>1. sl \in [Slots -> Word]
      BY <2>3, WordFacts
    <3>2. /\ dir' = transition(dir, p, x.key, "READY", x.slot)
          /\ content' = [content EXCEPT ![x.slot] = x.key]
          /\ active_settle(x.key, x.slot, sl)
      BY <1>5, <1>7, <2>6 DEF SettleLoaded
    <3>3. slot' \in [Slots -> Word] /\ ActiveTyped'
      <4> HIDE DEF sl
      <4> QED
        BY <2>1, <3>1, <3>2, ActiveSettleFacts DEF Typed, SlotStep
    <3>4. dir' \in [Pools -> [Keys -> Entry]] /\ EntryInPool'
      BY <2>1, <2>4, <3>2, TransitionInPool DEF Typed, EntryInPool
    <3>5. content' \in [Slots -> Keys \cup {None}]
      BY <2>1, <3>2 DEF Typed, TypeOK
    <3> QED
      BY <1>5, <2>2, <3>3, <3>4, <3>5
      DEF Typed, TypeOK, PassSlot, QueueTarget, ActiveTyped, AwaitType
  <2> QED
    BY <2>5, <2>6
<1> QED
  BY <1>4, <1>6, <1>7

\* n_load_target is at least the number of items found READY: no underflow in
\* active_register.
LEMMA RegisterFacts ==
  ASSUME Typed, queue # None
  PROVE  /\ Cardinality(ReadyItems) \in Nat
         /\ queue.target # Cardinality(ReadyItems)
              => queue.target - Cardinality(ReadyItems) \in Nat
<1>1. queue \in Request /\ queue.target = Cardinality(queue.needed)
  BY DEF Typed, QueueTarget
<1>2. IsFiniteSet(queue.needed)
  BY <1>1, ConstantFacts, FS_Subset DEF Request
<1>3. ReadyItems \subseteq queue.needed
  BY DEF ReadyItems
<1>4. /\ IsFiniteSet(ReadyItems)
      /\ Cardinality(ReadyItems) <= Cardinality(queue.needed)
  BY <1>2, <1>3, FS_Subset
<1>5. Cardinality(ReadyItems) \in Nat /\ Cardinality(queue.needed) \in Nat
  BY <1>2, <1>4, FS_CardinalityType
<1> QED
  BY <1>1, <1>4, <1>5

\* active_register keeps Typed.
LEMMA TypedRegister == ASSUME Typed, active_register PROVE Typed'
<1> USE DEF execVars, passVars, actVars, moveVars
<1>1. slot' \in [Slots -> Word]
  BY WordFacts DEF active_register, Typed, TypeOK
<1>2. await' \in [done : Nat, failed : BOOLEAN, target : Nat]
  BY RegisterFacts DEF active_register, Typed, TypeOK
<1>3. queue \in Request
  BY DEF active_register, Typed, QueueTarget
<1>4. active' \in Active /\ ledger' \in [Slots -> Nat] /\ clock' \in {"off", "armed", "past"}
  <2>1. CASE queue.target = Cardinality(ReadyItems)
    BY <2>1, ClearFacts DEF active_register
  <2>2. CASE queue.target # Cardinality(ReadyItems)
    <3>1. /\ active' = [on |-> TRUE, layer |-> queue.layer,
                        still |-> queue.needed \ ReadyItems,
                        left |-> queue.target - Cardinality(ReadyItems)]
          /\ ledger' = [s \in Slots |-> IF s \in ReadySlots THEN 1 ELSE 0]
          /\ clock' = "off"
      BY <2>2 DEF active_register
    <3>2. /\ queue.layer \in Layers /\ queue.needed \ ReadyItems \in SUBSET Experts
          /\ queue.target - Cardinality(ReadyItems) \in Nat
      BY <1>3, <2>2, RegisterFacts DEF active_register, Request
    <3> QED
      BY <3>1, <3>2 DEF Active
  <2> QED
    BY <2>1, <2>2
<1>5. pass' \in Pass
  BY <1>3, ConstantFacts DEF active_register, NoPass, Pass, Request
<1> QED
  BY <1>1, <1>2, <1>4, <1>5
  DEF active_register, Typed, TypeOK, EntryInPool, LoadCount, PassSlot, QueueTarget

\* The item alloc_or_evict works for is a key of the group.
LEMMA ItemInKeys == ASSUME TypeOK PROVE Item \in Keys
  BY ConstantFacts DEF TypeOK, Item, Active, Pass

\* A turn of the serve loop keeps Typed.
LEMMA TypedServeItem == ASSUME Typed, ServeItem PROVE Typed'
<1> DEFINE e == Least(Todo)
           k == <<active.layer, e>>
           next == [pass EXCEPT !.visit = @ \ {e}, !.cur = e, !.slot = None]
<1> USE DEF execVars, passVars, actVars, moveVars
<1>1. e \in Experts
  <2>1. Todo \subseteq Experts
    BY DEF Typed, TypeOK, Todo, Pass
  <2>2. Todo # {}
    BY DEF ServeItem
  <2> QED
    BY <2>1, <2>2, LeastInSet, ConstantFacts
<1>2. k \in Keys /\ scan(k) \in Slots \cup {None}
  BY <1>1, ConstantFacts, ScanType DEF Typed, TypeOK, Active
<1> HIDE DEF e
<1>3. next \in Pass
  BY <1>1 DEF Typed, TypeOK, Pass
<1>4. /\ pass' = next
      /\ spc' \in {"serve", "device", "ram"}
      /\ active_settle(k, scan(k), slot) \/ UNCHANGED <<slot, await, actVars>>
      /\ scan(k) = None => UNCHANGED <<slot, await, actVars>>
      /\ UNCHANGED <<execVars, content, dir, touched, queue, load, moveVars>>
  BY DEF ServeItem, e, Typed, TypeOK
<1>5. slot' \in [Slots -> Word] /\ ActiveTyped'
  <2>1. CASE UNCHANGED <<slot, await, actVars>>
    BY <2>1 DEF Typed, TypeOK, ActiveTyped, AwaitType
  <2>2. CASE active_settle(k, scan(k), slot) /\ scan(k) # None
    BY <1>2, <2>2, ActiveSettleFacts DEF Typed, TypeOK, SlotStep
  <2> QED
    BY <1>4, <2>1, <2>2
<1> HIDE DEF k, next
<1> QED
  BY <1>3, <1>4, <1>5
  DEF Typed, TypeOK, EntryInPool, LoadCount, PassSlot, QueueTarget, ActiveTyped, AwaitType

\* A victim is READY, unpinned, and its slot is in the pool searched.
LEMMA VictimFacts ==
  ASSUME Typed, NEW p \in Pools, NEW l, NEW v \in Victims(l, p)
  PROVE  /\ v \in Keys /\ dir[p][v].st = "READY"
         /\ dir[p][v].slot \in PoolSlots(p) /\ dir[p][v].slot \in Slots
         /\ slot[dir[p][v].slot].st = "READY" /\ slot[dir[p][v].slot].rc = 0
  BY ConstantFacts DEF Victims, Nearest, Evictable, Typed, EntryInPool, InPool

\* Claiming a slot of pool p for the item keeps Typed.
LEMMA AllocTyped ==
  ASSUME Typed, NEW p \in Pools, NEW s \in PoolSlots(p), NEW d,
         d \in [Pools -> [Keys -> Entry]], InPool(d),
         dir' = transition(d, p, Item, "LOADING", s),
         slot' = [slot EXCEPT ![s] = begin_reload],
         content' = [content EXCEPT ![s] = None],
         pass' = [pass EXCEPT !.slot = s],
         spc' = "load",
         UNCHANGED <<execVars, await, touched, queue, actVars, load, moveVars>>
  PROVE  Typed'
<1>1. s \in Slots
  BY ConstantFacts
<1>2. dir' \in [Pools -> [Keys -> Entry]] /\ InPool(dir')
  BY <1>1, ItemInKeys, TransitionInPool DEF Typed
<1>3. slot' \in [Slots -> Word] /\ content' \in [Slots -> Keys \cup {None}]
  BY <1>1, ConstantWords DEF Typed, TypeOK
<1>4. pass' \in Pass /\ pass'.slot = s
  BY <1>1 DEF Typed, TypeOK, Pass
<1> QED
  BY <1>1, <1>2, <1>3, <1>4
  DEF Typed, TypeOK, EntryInPool, InPool, LoadCount, PassSlot, QueueTarget,
      execVars, actVars, moveVars

\* Taking a free slot keeps Typed.
LEMMA TypedAllocFree ==
  ASSUME Typed, NEW p \in Pools, NEW s, AllocFree(p, s)
  PROVE  Typed'
<1>1. s \in PoolSlots(p)
  BY DEF AllocFree, EmptySlots
<1> QED
  BY <1>1, AllocTyped DEF AllocFree, Typed, TypeOK, EntryInPool

\* Evicting and reloading keeps Typed.
LEMMA TypedAllocEvict ==
  ASSUME Typed, NEW p \in Pools, NEW v, AllocEvict(p, v)
  PROVE  Typed'
<1> DEFINE s == dir[p][v].slot
           d == transition(dir, p, v, "ABSENT", None)
<1>1. v \in Keys /\ s \in PoolSlots(p)
  BY VictimFacts DEF AllocEvict
<1>2. d \in [Pools -> [Keys -> Entry]] /\ InPool(d)
  BY <1>1, TransitionInPool DEF Typed, TypeOK, EntryInPool
<1>3. /\ dir' = transition(d, p, Item, "LOADING", s)
      /\ slot' = [slot EXCEPT ![s] = begin_reload]
      /\ content' = [content EXCEPT ![s] = None]
      /\ pass' = [pass EXCEPT !.slot = s]
      /\ spc' = "load"
      /\ UNCHANGED <<execVars, await, touched, queue, actVars, load, moveVars>>
  BY DEF AllocEvict
<1> HIDE DEF s, d
<1> QED
  BY <1>1, <1>2, <1>3, AllocTyped

\* The common part of the two demotions: v moves from its device slot to d.
LEMMA DemoteTyped ==
  ASSUME Typed, NEW v \in Victims(active.layer, "dev"), NEW d \in RamSlots,
         NEW b, b \in [Pools -> [Keys -> Entry]], InPool(b),
         dir' = transition(b, "ram", v, "MOVING_IN", d),
         slot' = [slot EXCEPT ![dir["dev"][v].slot] = begin_evict(@), ![d] = begin_reload],
         content' = [content EXCEPT ![d] = None],
         moveq' = moveq \cup {[key |-> v, src |-> dir["dev"][v].slot, dst |-> d]},
         spc' = "ram",
         UNCHANGED <<execVars, await, touched, queue, pass, actVars, load, movedone>>
  PROVE  Typed'
<1> DEFINE s == dir["dev"][v].slot
<1>1. v \in Keys /\ s \in DevSlots /\ s \in Slots /\ d \in Slots
  BY VictimFacts, ConstantFacts DEF Pools, PoolSlots
<1>2. dir' \in [Pools -> [Keys -> Entry]] /\ InPool(dir')
  BY <1>1, TransitionInPool DEF Pools, PoolSlots
<1>3. content' \in [Slots -> Keys \cup {None}]
  BY <1>1 DEF Typed, TypeOK
<1>4. moveq' \in SUBSET Move
  BY <1>1 DEF Typed, TypeOK, Move
<1>5. slot' \in [Slots -> Word]
  <2>1. slot[s] \in Word /\ slot \in [Slots -> Word]
    BY <1>1 DEF Typed, TypeOK
  <2> HIDE DEF s
  <2>2. slot' = [[slot EXCEPT ![s] = begin_evict(slot[s])] EXCEPT ![d] = begin_reload]
    BY <1>1 DEF s
  <2> QED
    BY <1>1, <2>1, <2>2, WordFacts, ConstantWords
<1> QED
  BY <1>2, <1>3, <1>4, <1>5
  DEF Typed, TypeOK, EntryInPool, InPool, LoadCount, PassSlot, QueueTarget,
      execVars, actVars

\* A demotion to a free RAM slot keeps Typed.
LEMMA TypedDemoteToFree ==
  ASSUME Typed, NEW v \in Keys, NEW d \in RamSlots, DemoteToFree(v, d)
  PROVE  Typed'
<1> DEFINE b == transition(dir, "dev", v, "ABSENT", None)
<1>1. b \in [Pools -> [Keys -> Entry]] /\ InPool(b)
  BY TransitionInPool DEF Typed, TypeOK, EntryInPool, Pools
<1> QED
  BY <1>1, DemoteTyped DEF DemoteToFree

\* A demotion that evicts a RAM copy keeps Typed.
LEMMA TypedDemoteEvicting ==
  ASSUME Typed, NEW v \in Keys, NEW w \in Keys, DemoteEvicting(v, w)
  PROVE  Typed'
<1> DEFINE a == transition(dir, "dev", v, "ABSENT", None)
           b == transition(a, "ram", w, "ABSENT", None)
           d == dir["ram"][w].slot
<1>1. a \in [Pools -> [Keys -> Entry]] /\ InPool(a)
  BY TransitionInPool DEF Typed, TypeOK, EntryInPool, Pools
<1> HIDE DEF a
<1>2. b \in [Pools -> [Keys -> Entry]] /\ InPool(b)
  BY <1>1, TransitionInPool DEF Pools
<1>3. d \in RamSlots
  BY VictimFacts DEF DemoteEvicting, Pools, PoolSlots
<1>4. /\ v \in Victims(active.layer, "dev")
      /\ dir' = transition(b, "ram", v, "MOVING_IN", d)
      /\ slot' = [slot EXCEPT ![dir["dev"][v].slot] = begin_evict(@), ![d] = begin_reload]
      /\ content' = [content EXCEPT ![d] = None]
      /\ moveq' = moveq \cup {[key |-> v, src |-> dir["dev"][v].slot, dst |-> d]}
      /\ spc' = "ram"
      /\ UNCHANGED <<execVars, await, touched, queue, pass, actVars, load, movedone>>
  BY DEF DemoteEvicting, a
<1> HIDE DEF b, d
<1> QED
  BY <1>2, <1>3, <1>4, DemoteTyped

\* drain_moves keeps Typed.
LEMMA TypedMoves == ASSUME Typed, NEW m \in movedone, drain_moves(m) PROVE Typed'
<1> DEFINE sl == [slot EXCEPT ![m.dst] = mark_ready(@), ![m.src] = release_to_empty]
<1> USE DEF execVars, passVars, actVars, moveVars
<1>1. m \in Move /\ m.key \in Keys /\ m.dst \in RamSlots /\ m.dst \in Slots /\ m.src \in Slots
  BY ConstantFacts DEF Typed, TypeOK, Move
<1>2. sl \in [Slots -> Word]
  <2>1. slot[m.dst] \in Word /\ slot \in [Slots -> Word]
    BY <1>1 DEF Typed, TypeOK
  <2> QED
    BY <1>1, <2>1, WordFacts, ConstantWords
<1>3. /\ active_settle(m.key, m.dst, sl)
      /\ dir' = transition(dir, "ram", m.key, "READY", m.dst)
      /\ movedone' = movedone \ {m}
      /\ UNCHANGED <<execVars, content, touched, queue, passVars, load, moveq>>
  BY DEF drain_moves
<1> HIDE DEF sl
<1>4. slot' \in [Slots -> Word] /\ ActiveTyped'
  BY <1>1, <1>2, <1>3, ActiveSettleFacts DEF Typed, SlotStep
<1>5. dir' \in [Pools -> [Keys -> Entry]] /\ InPool(dir')
  BY <1>1, <1>3, TransitionInPool DEF Typed, TypeOK, EntryInPool, Pools, PoolSlots
<1> QED
  BY <1>3, <1>4, <1>5
  DEF Typed, TypeOK, EntryInPool, InPool, LoadCount, PassSlot, QueueTarget,
      ActiveTyped, AwaitType

\* start_async_load keeps Typed.
LEMMA TypedStartLoad ==
  ASSUME Typed, NEW i \in Elems, NEW n \in 0 .. NSlices, start_async_load(i, n)
  PROVE  Typed'
<1> DEFINE x == [key |-> Item, slot |-> pass.slot, io |-> n, ok |-> 0, bad |-> 0,
                 failed |-> n < NSlices]
<1>1. x \in Load /\ x.io + x.ok + x.bad \in 1 .. NSlices
  BY ItemInKeys, SizeAssumption DEF start_async_load, Typed, PassSlot, Load
<1>2. load' = [load EXCEPT ![i] = x]
  BY DEF start_async_load
<1> HIDE DEF x
<1>3. load' \in [Elems -> Load \cup {None}] /\ LoadCount'
  BY <1>1, <1>2 DEF Typed, TypeOK, LoadCount
<1>4. pass' \in Pass
  BY DEF start_async_load, Typed, TypeOK, Pass
<1> QED
  BY <1>3, <1>4
  DEF start_async_load, Typed, TypeOK, EntryInPool, InPool, PassSlot, QueueTarget,
      execVars, actVars, moveVars

\* A load of which no read is accepted keeps Typed.
LEMMA TypedRefused == ASSUME Typed, LoadRefused PROVE Typed'
<1>1. pass.slot \in Slots
  BY DEF LoadRefused, Typed, PassSlot
<1>2. dir' \in [Pools -> [Keys -> Entry]] /\ InPool(dir')
  BY <1>1, ItemInKeys, ConstantFacts, TransitionInPool
  DEF LoadRefused, Typed, TypeOK, EntryInPool
<1>3. pass' \in Pass
  BY DEF LoadRefused, Typed, TypeOK, Pass
<1> QED
  BY <1>2, <1>3
  DEF LoadRefused, Typed, TypeOK, EntryInPool, InPool, LoadCount, PassSlot, QueueTarget,
      execVars, actVars, moveVars

\* The end of a pass keeps Typed, also when the stall clock fails the request.
LEMMA TypedServeEnd == ASSUME Typed, ServeEnd \/ StallFail PROVE Typed'
<1>1. pass' \in Pass /\ spc' = "moves"
  <2>1. NoPass \in Pass
    BY ConstantFacts DEF NoPass, Pass
  <2>2. pass' = NoPass /\ spc' = "moves"
    BY Zenon DEF ServeEnd, StallFail
  <2> QED
    BY <2>1, <2>2
<1>2. slot' \in [Slots -> Word] /\ ActiveTyped'
  <2>1. CASE ServeEnd
    BY <2>1 DEF ServeEnd, Typed, TypeOK, ActiveTyped, AwaitType
  <2>2. CASE StallFail
    BY <2>2, ActiveFailFacts DEF StallFail, Typed, TypeOK, SlotStep
  <2> QED
    BY <2>1, <2>2
<1> QED
  BY <1>1, <1>2
  DEF ServeEnd, StallFail, Typed, TypeOK, EntryInPool, InPool, LoadCount, PassSlot,
      QueueTarget, ActiveTyped, AwaitType, execVars, moveVars

\* Every step of worker_loop keeps Typed.
LEMMA TypedScheduler == ASSUME Typed, Scheduler PROVE Typed'
<1> USE DEF execVars, passVars, actVars, moveVars
<1>1. ASSUME NEW i \in Elems, NEW r \in {"ok", "error"}, drain_completions(i, r)
      PROVE  Typed'
  BY <1>1, TypedDrain
<1>2. CASE DrainEnd
  BY <1>2 DEF DrainEnd, Typed, TypeOK, EntryInPool, InPool, LoadCount, PassSlot, QueueTarget
<1>3. CASE AcceptActive
  <2>1. pass' \in Pass
    <3>1. NoPass \in Pass /\ active.still \in SUBSET Experts
      BY ConstantFacts DEF NoPass, Pass, Typed, TypeOK, Active
    <3> QED
      BY <1>3, <3>1 DEF AcceptActive, Pass
  <2> QED
    BY <1>3, <2>1
    DEF AcceptActive, Typed, TypeOK, EntryInPool, InPool, LoadCount, PassSlot, QueueTarget
<1>4. CASE active_register
  BY <1>4, TypedRegister
<1>5. CASE AcceptNothing
  BY <1>5
  DEF AcceptNothing, Typed, TypeOK, EntryInPool, InPool, LoadCount, PassSlot, QueueTarget
<1>6. CASE ServeItem
  BY <1>6, TypedServeItem
<1>7. ASSUME NEW v \in Keys, NEW d \in RamSlots, DemoteToFree(v, d) PROVE Typed'
  BY <1>7, TypedDemoteToFree
<1>8. ASSUME NEW v \in Keys, NEW w \in Keys, DemoteEvicting(v, w) PROVE Typed'
  BY <1>8, TypedDemoteEvicting
<1>9. ASSUME NEW v \in Keys, DemoteDrop(v) PROVE Typed'
  BY <1>9, TypedAllocEvict DEF DemoteDrop, Pools
<1>10. ASSUME NEW s \in DevSlots, DeviceFree(s) PROVE Typed'
  BY <1>10, TypedAllocFree DEF DeviceFree, Pools
<1>11. CASE DeviceNone
  BY <1>11
  DEF DeviceNone, Typed, TypeOK, EntryInPool, InPool, LoadCount, PassSlot, QueueTarget
<1>12. ASSUME NEW s \in RamSlots, RamFree(s) PROVE Typed'
  BY <1>12, TypedAllocFree DEF RamFree, Pools
<1>13. ASSUME NEW v \in Keys, RamEvict(v) PROVE Typed'
  BY <1>13, TypedAllocEvict DEF RamEvict, Pools
<1>14. CASE RamNone
  <2>1. pass' \in Pass
    BY <1>14 DEF RamNone, Typed, TypeOK, Pass
  <2> QED
    BY <1>14, <2>1
    DEF RamNone, Typed, TypeOK, EntryInPool, InPool, LoadCount, PassSlot, QueueTarget
<1>15. ASSUME NEW i \in Elems, NEW n \in 0 .. NSlices, start_async_load(i, n)
       PROVE  Typed'
  BY <1>15, TypedStartLoad
<1>16. CASE LoadRefused
  BY <1>16, TypedRefused
<1>17. CASE ServeEnd \/ StallFail
  BY <1>17, TypedServeEnd
<1>18. ASSUME NEW m \in movedone, drain_moves(m) PROVE Typed'
  BY <1>18, TypedMoves
<1>19. CASE MovesEnd
  BY <1>19
  DEF MovesEnd, Typed, TypeOK, EntryInPool, InPool, LoadCount, PassSlot, QueueTarget
<1> QED
  BY <1>1, <1>2, <1>3, <1>4, <1>5, <1>6, <1>7, <1>8, <1>9, <1>10, <1>11, <1>12, <1>13,
     <1>14, <1>15, <1>16, <1>17, <1>18, <1>19
  DEF Scheduler

\* A read that ends is counted once more as harvested and once less as pending.
LEMMA CompletedFacts ==
  ASSUME NEW x \in Load, x.io > 0, x.io + x.ok + x.bad \in 1 .. NSlices,
         NEW r \in {"ok", "error"}
  PROVE  LET y == Completed(x, r)
         IN  /\ y \in Load /\ y.io + y.ok + y.bad \in 1 .. NSlices
             /\ y.key = x.key /\ y.slot = x.slot
<1> DEFINE y == Completed(x, r)
<1>1. y = [key |-> x.key, slot |-> x.slot, io |-> x.io - 1,
           ok |-> IF r = "ok" THEN x.ok + 1 ELSE x.ok,
           bad |-> IF r = "ok" THEN x.bad ELSE x.bad + 1, failed |-> x.failed]
  <2>1. x = [key |-> x.key, slot |-> x.slot, io |-> x.io, ok |-> x.ok, bad |-> x.bad,
             failed |-> x.failed]
    BY DEF Load
  <2>2. CASE r = "ok"
    BY <2>1, <2>2 DEF Completed
  <2>3. CASE r # "ok"
    BY <2>1, <2>3 DEF Completed
  <2> QED
    BY <2>2, <2>3
<1> QED
  BY <1>1, SizeAssumption DEF Load

\* A completed read keeps Typed.
LEMMA TypedDio ==
  ASSUME Typed, NEW i \in Elems, NEW r \in {"ok", "error"}, DioComplete(i, r)
  PROVE  Typed'
<1> DEFINE x == load[i]
           y == Completed(x, r)
<1>1. x \in Load /\ x.io > 0 /\ x.io + x.ok + x.bad \in 1 .. NSlices
  BY DEF DioComplete, Typed, LoadCount
<1>2. load' = [load EXCEPT ![i] = y]
  BY DEF DioComplete
<1> HIDE DEF x
<1>4. y \in Load /\ y.io + y.ok + y.bad \in 1 .. NSlices
  BY <1>1, CompletedFacts
<1> HIDE DEF y
<1>5. load' \in [Elems -> Load \cup {None}] /\ LoadCount'
  BY <1>2, <1>4 DEF Typed, TypeOK, LoadCount
<1> QED
  BY <1>5
  DEF DioComplete, Typed, TypeOK, EntryInPool, InPool, PassSlot, QueueTarget,
      execVars, passVars, actVars, moveVars

\* A copied move keeps Typed.
LEMMA TypedCopy == ASSUME Typed, NEW m \in moveq, MoveCopy(m) PROVE Typed'
<1>1. m \in Move /\ m.dst \in Slots /\ m.src \in Slots
  BY ConstantFacts DEF Typed, TypeOK, Move
<1>2. content' \in [Slots -> Keys \cup {None}]
  BY <1>1 DEF MoveCopy, Typed, TypeOK
<1> QED
  BY <1>1, <1>2
  DEF MoveCopy, Typed, TypeOK, EntryInPool, InPool, LoadCount, PassSlot, QueueTarget,
      execVars, passVars, actVars

\* Typed is inductive.
LEMMA TypedStep == Typed /\ [Next]_vars => Typed'
<1> SUFFICES ASSUME Typed, [Next]_vars PROVE Typed'
  OBVIOUS
<1>1. CASE Exec
  BY <1>1, TypedExec
<1>2. CASE Scheduler
  BY <1>2, TypedScheduler
<1>3. CASE StallClock
  BY <1>3
  DEF StallClock, Typed, TypeOK, EntryInPool, InPool, LoadCount, PassSlot, QueueTarget,
      execVars, passVars, actVars, moveVars
<1>4. CASE Dio
  BY <1>4, TypedDio DEF Dio
<1>5. CASE MoveWorker
  BY <1>5, TypedCopy DEF MoveWorker
<1>6. CASE UNCHANGED vars
  BY <1>6
  DEF Typed, TypeOK, EntryInPool, InPool, LoadCount, PassSlot, QueueTarget,
      vars, execVars, passVars, actVars, moveVars
<1> QED
  BY <1>1, <1>2, <1>3, <1>4, <1>5, <1>6 DEF Next

\* Every reachable state is Typed (all actions of scheduler.cpp).
THEOREM TypedInvariant == Spec => []Typed
  BY TypedInit, TypedStep, PTL DEF Spec

\* Every variable keeps its type: no action of scheduler.cpp stores a slot
\* number, a count or a state outside its range.
THEOREM TypeCorrect == Spec => []TypeOK
<1>1. Typed => TypeOK
  BY DEF Typed
<1> QED
  BY <1>1, TypedInvariant, PTL

-----------------------------------------------------------------------------
(***************************************************************************)
(* Residency: an expert has one copy, a READY copy holds                   *)
(* its weights, and a pinned slot is left alone, for every size of model,  *)
(* pools and ring, with and without a device pool, and with I/O errors.    *)
(*                                                                         *)
(* None of the three is inductive.  The strengthening says what stands     *)
(* behind each entry of the directory that is not READY: a slot that is    *)
(* IO_INFLIGHT (ComingSlots), whose load or move is under way and is the   *)
(* only one of its key and slot (LoadsPublished, LoadsApart,               *)
(* MovesPublished, MovesApart); that a pinned slot is READY (PinsReady);   *)
(* and, inside accept_requests, that the slot just claimed belongs to no   *)
(* load yet (PassPublished) and that the item alloc_or_evict works for has *)
(* no copy anywhere (ItemAbsent).                                          *)
(*                                                                         *)
(* The three ways a slot changes hands are one lemma each: nothing but     *)
(* refcounts changes (Quiet), a free or unpinned slot is given to a key    *)
(* (Claim), a transfer ends (Land).                                        *)
(***************************************************************************)

\* An entry that is on its way names a slot that is being filled.
ComingSlots ==
  \A p \in Pools, k \in Keys :
    dir[p][k].st \in {"LOADING", "MOVING_IN"} => slot[dir[p][k].slot].st = "IO_INFLIGHT"

\* The entry of a load in the ring is LOADING and names its slot ...
LoadsPublished ==
  \A i \in Elems : load[i] # None =>
    dir[PoolOf(load[i].slot)][load[i].key] = [st |-> "LOADING", slot |-> load[i].slot]

\* ... and no other load fills that slot.
LoadsApart ==
  \A i, j \in Elems :
    i # j /\ load[i] # None /\ load[j] # None => load[i].slot # load[j].slot

\* The RAM entry of a demoted key is MOVING_IN; its device slot is out of use
\* and keeps the weights, and a copied move has them in RAM too.
MovesPublished ==
  \A m \in Moves :
    /\ dir["ram"][m.key] = [st |-> "MOVING_IN", slot |-> m.dst]
    /\ slot[m.src].st = "EVICTING" /\ content[m.src] = m.key
    /\ m \in movedone => content[m.dst] = m.key

\* A key is demoted, and a device slot vacated, by one move at a time.
MovesApart ==
  /\ moveq \cap movedone = {}
  /\ \A m, n \in Moves : m.key = n.key \/ m.src = n.src => m = n

\* Only READY slots are pinned.
PinsReady == \A s \in Slots : slot[s].rc > 0 => slot[s].st = "READY"

\* Between alloc_or_evict and start_async_load the claimed slot is published.
PassPublished ==
  spc = "load" =>
    /\ dir[PoolOf(pass.slot)][Item] = [st |-> "LOADING", slot |-> pass.slot]
    /\ \A i \in Elems : load[i] # None => load[i].slot # pass.slot

\* alloc_or_evict works for an item that has no copy in any pool.
ItemAbsent == spc \in {"device", "ram"} => \A p \in Pools : dir[p][Item].st = "ABSENT"

Core == /\ OneCopyOneSlot /\ ReadyIsResident /\ ComingSlots /\ LoadsPublished
        /\ LoadsApart /\ MovesPublished /\ MovesApart /\ PinsReady
Residency == Core /\ PassPublished /\ ItemAbsent

\* What a step does to pinned slots.
Kept == \A s \in Slots : slot[s].rc > 0 =>
          slot'[s].st = slot[s].st /\ content'[s] = content[s]

-----------------------------------------------------------------------------
\* With every slot EMPTY and every entry ABSENT there is nothing to show.
LEMMA ResidencyInit == Init => Residency
  BY ConstantWords
  DEF Init, Residency, Core, OneCopyOneSlot, ReadyIsResident, ComingSlots, LoadsPublished,
      LoadsApart, MovesPublished, MovesApart, PinsReady, PassPublished, ItemAbsent,
      Absent, Moves, Loads

\* Steps that leave the directory, the contents, the moves and the states of
\* the slots alone.
LEMMA Quiet ==
  ASSUME Typed, Core, SlotStep(slot), UNCHANGED <<dir, content, moveq, movedone>>,
         \A i \in Elems : load'[i] # None =>
           load[i] # None /\ load'[i].key = load[i].key /\ load'[i].slot = load[i].slot
  PROVE  Core'
<1> USE DEF Core
<1>1. OneCopyOneSlot'
  BY DEF OneCopyOneSlot
<1>2. \A s \in Slots : slot'[s].st = slot[s].st
  BY DEF SlotStep
<1>3. \A p \in Pools, k \in Keys : dir[p][k].st # "ABSENT" => dir[p][k].slot \in Slots
  BY ConstantFacts DEF Typed, EntryInPool, InPool
<1>4. ReadyIsResident' /\ ComingSlots'
  BY <1>2, <1>3 DEF ReadyIsResident, ComingSlots
<1>5. LoadsPublished' /\ LoadsApart'
  BY DEF LoadsPublished, LoadsApart
<1>6. \A m \in Moves : m.src \in Slots
  BY ConstantFacts DEF Typed, TypeOK, Moves, Move
<1>7. MovesPublished' /\ MovesApart'
  BY <1>2, <1>6 DEF MovesPublished, MovesApart, Moves
<1>8. PinsReady'
  <2>1. ASSUME NEW s \in Slots, slot'[s].rc > 0 PROVE slot'[s].st = "READY"
    <3>1. slot[s].rc \in Nat /\ slot'[s].rc \in Nat
      BY DEF Typed, TypeOK, SlotStep, Word
    <3> QED
      BY <1>2, <2>1, <3>1 DEF SlotStep, PinsReady
  <2> QED
    BY <2>1 DEF PinsReady
<1> QED
  BY <1>1, <1>4, <1>5, <1>7, <1>8

-----------------------------------------------------------------------------
\* d is the directory with some READY entries dropped, and no entry of d names
\* the free or resident slot s.
Claimable(d, s) ==
  /\ slot[s].st \in {"EMPTY", "READY"} /\ slot[s].rc = 0
  /\ \A q \in Pools, j \in Keys :
       /\ d[q][j] = dir[q][j] \/ (dir[q][j].st = "READY" /\ d[q][j].st = "ABSENT")
       /\ d[q][j].st # "ABSENT" => d[q][j].slot # s

\* transition leaves the entries of other keys alone.
LEMMA TransitionElsewhere ==
  ASSUME NEW d \in [Pools -> [Keys -> Entry]], NEW p, NEW k, NEW st, NEW s,
         NEW q \in Pools, NEW j \in Keys, k # j
  PROVE  transition(d, p, k, st, s)[q][j] = d[q][j]
  BY DEF transition

\* No entry names an EMPTY slot.
LEMMA EmptyClaimable ==
  ASSUME Typed, Core, NEW p \in Pools, NEW s \in EmptySlots(p)
  PROVE  Claimable(dir, s)
<1>1. slot[s].st = "EMPTY" /\ slot[s].rc = 0
  <2>1. slot[s].st = "EMPTY" /\ slot[s] \in Word
    BY ConstantFacts DEF EmptySlots, Typed, TypeOK
  <2> QED
    BY <2>1, ConstantFacts DEF Core, PinsReady, Word, EmptySlots
<1>2. ASSUME NEW q \in Pools, NEW j \in Keys, dir[q][j].st # "ABSENT", dir[q][j].slot = s
      PROVE  FALSE
  <2>1. dir[q][j].st \in {"READY", "LOADING", "MOVING_IN"}
    BY <1>2 DEF Typed, TypeOK, Entry
  <2> QED
    BY <1>1, <1>2, <2>1 DEF Core, ReadyIsResident, ComingSlots
<1> QED
  BY <1>1, <1>2 DEF Claimable

\* Once the entry of the victim is cleared, no entry names its slot.
LEMMA VictimClaimable ==
  ASSUME Typed, Core, NEW p \in Pools, NEW l, NEW v \in Victims(l, p)
  PROVE  Claimable(transition(dir, p, v, "ABSENT", None), dir[p][v].slot)
<1> DEFINE d == transition(dir, p, v, "ABSENT", None)
           s == dir[p][v].slot
<1>1. v \in Keys /\ dir[p][v].st = "READY" /\ slot[s].st = "READY" /\ slot[s].rc = 0
  BY VictimFacts
<1>2. /\ d[p][v].st = "ABSENT"
      /\ \A q \in Pools, j \in Keys : p # q \/ v # j => d[q][j] = dir[q][j]
  <2>1. dir \in [Pools -> [Keys -> Entry]]
    BY DEF Typed, TypeOK
  <2>2. /\ d[p][v] = [st |-> "ABSENT", slot |-> None]
        /\ \A q \in Pools, j \in Keys : p # q \/ v # j => d[q][j] = dir[q][j]
    BY <1>1, <2>1, TransitionFacts
  <2> HIDE DEF d
  <2> QED
    BY <2>2
<1> HIDE DEF d
<1>3. ASSUME NEW q \in Pools, NEW j \in Keys, d[q][j].st # "ABSENT", d[q][j].slot = s
      PROVE  FALSE
  BY <1>1, <1>2, <1>3 DEF Core, OneCopyOneSlot
<1> QED
  BY <1>1, <1>2, <1>3 DEF Claimable, d

\* Slot s is given to key k, which d does not name: for a load, or as the
\* destination of a move.
LEMMA Claim ==
  ASSUME Typed, Core,
         NEW d \in [Pools -> [Keys -> Entry]], InPool(d),
         NEW p \in Pools, NEW s \in PoolSlots(p), NEW k \in Keys,
         NEW st \in {"LOADING", "MOVING_IN"},
         Claimable(d, s), \A q \in Pools : d[q][k].st = "ABSENT",
         dir' = transition(d, p, k, st, s),
         slot' \in [Slots -> Word], slot'[s] = begin_reload,
         \A t \in Slots : \/ t = s \/ slot'[t] = slot[t]
                          \/ Claimable(d, t) /\ slot'[t].rc = 0,
         content' = [content EXCEPT ![s] = None],
         load' = load
  PROVE  /\ OneCopyOneSlot' /\ ReadyIsResident' /\ ComingSlots'
         /\ LoadsPublished' /\ LoadsApart' /\ PinsReady' /\ Kept
         /\ \A i \in Elems : load[i] # None => load[i].slot # s
         /\ \A m \in Moves : /\ dir'["ram"][m.key] = dir["ram"][m.key]
                             /\ slot'[m.src] = slot[m.src]
                             /\ content'[m.src] = content[m.src]
                             /\ content'[m.dst] = content[m.dst]
<1> USE DEF Core
<1>1. s \in Slots
  BY ConstantFacts
<1>2. /\ dir' \in [Pools -> [Keys -> Entry]]
      /\ dir'[p][k] = [st |-> st, slot |-> s]
      /\ \A q \in Pools, j \in Keys : p # q \/ k # j => dir'[q][j] = d[q][j]
  BY <1>1, TransitionFacts
<1>3. \A q \in Pools, j \in Keys :
        d[q][j].st # "ABSENT" => d[q][j] = dir[q][j] /\ d[q][j].slot # s /\ j # k
  BY DEF Claimable
<1>4. \A q \in Pools, j \in Keys :
        dir[q][j].st \in {"LOADING", "MOVING_IN"} => d[q][j] = dir[q][j]
  BY DEF Claimable
<1>5. OneCopyOneSlot'
  <2>1. ASSUME NEW q \in Pools, NEW r \in Pools, NEW i \in Keys, NEW j \in Keys,
               dir'[q][i].st # "ABSENT", dir'[r][j].st # "ABSENT"
        PROVE  /\ dir'[q][i].slot \in PoolSlots(q)
               /\ (i = j \/ dir'[q][i].slot = dir'[r][j].slot) => q = r /\ i = j
    <3>1. CASE q = p /\ i = k
      BY <1>2, <1>3, <2>1, <3>1
    <3>2. CASE ~(q = p /\ i = k) /\ r = p /\ j = k
      <4>1. dir'[q][i] = d[q][i] /\ dir'[r][j].slot = s
        BY <1>2, <3>2
      <4> QED
        BY <1>3, <2>1, <3>2, <4>1 DEF OneCopyOneSlot
    <3>3. CASE ~(q = p /\ i = k) /\ ~(r = p /\ j = k)
      <4>1. dir'[q][i] = d[q][i] /\ dir'[r][j] = d[r][j]
        BY <1>2, <3>3
      <4>2. dir'[q][i] = dir[q][i] /\ dir'[r][j] = dir[r][j]
        BY <1>3, <2>1, <4>1
      <4> QED
        BY <2>1, <4>2 DEF OneCopyOneSlot
    <3> QED
      BY <3>1, <3>2, <3>3
  <2> QED
    BY <2>1 DEF OneCopyOneSlot
<1>6. ASSUME NEW q \in Pools, NEW j \in Keys, dir'[q][j].st # "ABSENT", ~(q = p /\ j = k)
      PROVE  /\ dir'[q][j] = dir[q][j] /\ dir[q][j].slot \in Slots
             /\ slot'[dir[q][j].slot] = slot[dir[q][j].slot]
             /\ content'[dir[q][j].slot] = content[dir[q][j].slot]
  <2>1. dir'[q][j] = d[q][j] /\ d[q][j] = dir[q][j] /\ d[q][j].slot # s
    BY <1>2, <1>3, <1>6
  <2>2. dir[q][j].slot \in Slots
    BY <1>6, <2>1, ConstantFacts DEF InPool
  <2>3. ~Claimable(d, dir[q][j].slot)
    BY <1>6, <2>1 DEF Claimable
  <2>4. content'[dir[q][j].slot] = content[dir[q][j].slot]
    BY <2>1, <2>2 DEF Typed, TypeOK
  <2>5. dir[q][j].slot # s
    BY <2>1
  <2>6. slot'[dir[q][j].slot] = slot[dir[q][j].slot]
    <3>1. \A t \in Slots : t # s /\ ~Claimable(d, t) => slot'[t] = slot[t]
      OBVIOUS
    <3> QED
      BY <2>2, <2>3, <2>5, <3>1, ZenonT(20)
  <2>7. dir'[q][j] = dir[q][j]
    BY <2>1
  <2> QED
    BY <2>2, <2>4, <2>6, <2>7
<1>7. ReadyIsResident'
  <2>1. ASSUME NEW q \in Pools, NEW j \in Keys, dir'[q][j].st = "READY"
        PROVE  slot'[dir'[q][j].slot].st = "READY" /\ content'[dir'[q][j].slot] = j
    <3>1. ~(q = p /\ j = k) /\ dir'[q][j].st # "ABSENT"
      BY <1>2, <2>1
    <3>2. /\ dir'[q][j] = dir[q][j]
          /\ slot'[dir[q][j].slot] = slot[dir[q][j].slot]
          /\ content'[dir[q][j].slot] = content[dir[q][j].slot]
      BY <1>6, <3>1
    <3>3. slot[dir[q][j].slot].st = "READY" /\ content[dir[q][j].slot] = j
      BY <2>1, <3>2 DEF ReadyIsResident
    <3> QED
      BY <3>2, <3>3
  <2> QED
    BY <2>1 DEF ReadyIsResident
<1>8. ComingSlots'
  <2>1. ASSUME NEW q \in Pools, NEW j \in Keys, dir'[q][j].st \in {"LOADING", "MOVING_IN"}
        PROVE  slot'[dir'[q][j].slot].st = "IO_INFLIGHT"
    <3>1. CASE q = p /\ j = k
      BY <1>2, <3>1, ConstantWords
    <3>2. CASE ~(q = p /\ j = k)
      <4>1. /\ dir'[q][j] = dir[q][j]
            /\ slot'[dir[q][j].slot] = slot[dir[q][j].slot]
        BY <1>6, <2>1, <3>2
      <4> QED
        BY <2>1, <4>1 DEF ComingSlots
    <3> QED
      BY <3>1, <3>2
  <2> QED
    BY <2>1 DEF ComingSlots
<1>9. \A i \in Elems : load[i] # None =>
        /\ dir'[PoolOf(load[i].slot)][load[i].key]
             = dir[PoolOf(load[i].slot)][load[i].key]
        /\ load[i].slot # s
  <2>1. ASSUME NEW i \in Elems, load[i] # None
        PROVE  /\ dir'[PoolOf(load[i].slot)][load[i].key]
                    = dir[PoolOf(load[i].slot)][load[i].key]
               /\ load[i].slot # s
    <3>1. load[i].slot \in Slots /\ load[i].key \in Keys /\ PoolOf(load[i].slot) \in Pools
      BY <2>1, ConstantFacts DEF Typed, LoadCount, Load
    <3>2. dir[PoolOf(load[i].slot)][load[i].key]
            = [st |-> "LOADING", slot |-> load[i].slot]
      BY <2>1 DEF LoadsPublished
    <3> DEFINE q == PoolOf(load[i].slot)
               j == load[i].key
    <3> HIDE DEF q, j
    <3>a. dir[q][j].st = "LOADING" /\ dir[q][j].slot = load[i].slot
      BY <3>2 DEF q, j
    <3>3. d[q][j] = dir[q][j] /\ d[q][j].st # "ABSENT" /\ d[q][j].slot = load[i].slot
      BY <1>4, <3>1, <3>a DEF q, j
    <3>4. j # k /\ load[i].slot # s
      BY <1>3, <3>1, <3>3 DEF q, j
    <3>5. dir'[q][j] = d[q][j]
      BY <1>2, <3>1, <3>4 DEF q, j
    <3> QED
      BY <3>3, <3>4, <3>5 DEF q, j
  <2> QED
    BY <2>1
<1>10. LoadsPublished' /\ LoadsApart'
  BY <1>9 DEF LoadsPublished, LoadsApart
<1>11. PinsReady'
  <2>1. ASSUME NEW t \in Slots, slot'[t].rc > 0 PROVE slot'[t].st = "READY"
    BY <2>1, ConstantWords DEF PinsReady
  <2> QED
    BY <2>1 DEF PinsReady
<1>12. ASSUME NEW m \in Moves
       PROVE  /\ dir'["ram"][m.key] = dir["ram"][m.key]
              /\ slot'[m.src] = slot[m.src]
              /\ content'[m.src] = content[m.src]
              /\ content'[m.dst] = content[m.dst]
  <2>1. m.key \in Keys /\ m.src \in Slots /\ m.dst \in Slots /\ "ram" \in Pools
    BY ConstantFacts DEF Typed, TypeOK, Moves, Move, Pools
  <2>2. /\ dir["ram"][m.key] = [st |-> "MOVING_IN", slot |-> m.dst]
        /\ slot[m.src].st = "EVICTING"
    BY DEF MovesPublished
  <2>3. dir'["ram"][m.key] = dir["ram"][m.key] /\ m.dst # s
    <3>1. /\ d["ram"][m.key] = dir["ram"][m.key] /\ d["ram"][m.key].st # "ABSENT"
          /\ d["ram"][m.key].slot = m.dst
      <4>1. dir["ram"][m.key].st = "MOVING_IN" /\ dir["ram"][m.key].slot = m.dst
        BY <2>2
      <4> QED
        BY <1>4, <2>1, <4>1
    <3>2. m.key # k /\ m.dst # s
      BY <1>3, <2>1, <3>1
    <3> QED
      BY <1>2, <2>1, <3>1, <3>2
  <2>4. ~Claimable(d, m.src) /\ m.src # s
    BY <2>2 DEF Claimable
  <2>5. content'[m.src] = content[m.src] /\ content'[m.dst] = content[m.dst]
    BY <2>1, <2>3, <2>4 DEF Typed, TypeOK
  <2> QED
    BY <2>1, <2>3, <2>4, <2>5
<1>13. Kept
  <2>1. slot[s].rc = 0 /\ \A t \in Slots : t # s => content'[t] = content[t]
    BY <1>1 DEF Claimable, Typed, TypeOK
  <2>2. ASSUME NEW t \in Slots, slot[t].rc > 0
        PROVE  slot'[t] = slot[t] /\ content'[t] = content[t]
    BY <2>1, <2>2 DEF Claimable
  <2> QED
    BY <2>2 DEF Kept
<1> QED
  BY <1>5, <1>7, <1>8, <1>9, <1>10, <1>11, <1>12, <1>13
-----------------------------------------------------------------------------
\* Moves are undisturbed when their entry, slots and contents are.
LEMMA MovesKept ==
  ASSUME Core, UNCHANGED <<moveq, movedone>>,
         \A m \in Moves : /\ dir'["ram"][m.key] = dir["ram"][m.key]
                         /\ slot'[m.src] = slot[m.src]
                         /\ content'[m.src] = content[m.src]
                         /\ content'[m.dst] = content[m.dst]
  PROVE  MovesPublished' /\ MovesApart'
  BY DEF Core, MovesPublished, MovesApart, Moves

\* The item's slot is claimed; start_async_load comes next.
LEMMA AllocCore ==
  ASSUME Typed, Residency, spc \in {"device", "ram"},
         NEW d \in [Pools -> [Keys -> Entry]], InPool(d),
         NEW p \in Pools, NEW s \in PoolSlots(p), Claimable(d, s),
         dir' = transition(d, p, Item, "LOADING", s),
         slot' = [slot EXCEPT ![s] = begin_reload],
         content' = [content EXCEPT ![s] = None],
         pass' = [pass EXCEPT !.slot = s],
         spc' = "load",
         UNCHANGED <<active, load, moveVars>>
  PROVE  Residency' /\ Kept
<1>1. s \in Slots /\ Item \in Keys
  BY ConstantFacts, ItemInKeys DEF Typed
<1>2. \A q \in Pools : d[q][Item].st = "ABSENT"
  BY <1>1 DEF Claimable, Residency, ItemAbsent
<1>3. slot' \in [Slots -> Word] /\ slot'[s] = begin_reload
  BY <1>1, ConstantWords DEF Typed, TypeOK
<1>4. \A t \in Slots : t = s \/ slot'[t] = slot[t]
  BY DEF Typed, TypeOK
<1>5. /\ OneCopyOneSlot' /\ ReadyIsResident' /\ ComingSlots'
      /\ LoadsPublished' /\ LoadsApart' /\ PinsReady' /\ Kept
      /\ \A i \in Elems : load[i] # None => load[i].slot # s
      /\ \A m \in Moves : /\ dir'["ram"][m.key] = dir["ram"][m.key]
                          /\ slot'[m.src] = slot[m.src]
                          /\ content'[m.src] = content[m.src]
                          /\ content'[m.dst] = content[m.dst]
  BY <1>1, <1>2, <1>3, <1>4, Claim DEF Residency
<1>6. MovesPublished' /\ MovesApart'
  BY <1>5, MovesKept DEF Residency, moveVars
<1>7. PassPublished'
  <2>1. pass'.slot = s /\ pass'.cur = pass.cur
    BY DEF Typed, TypeOK, Pass
  <2>2. Item' = Item
    BY <2>1 DEF Item
  <2>3. p = PoolOf(s)
    BY SlotAssumption DEF PoolOf, PoolSlots, Pools
  <2>4. dir'[p][Item] = [st |-> "LOADING", slot |-> s]
    BY <1>1, TransitionFacts
  <2> QED
    BY <1>5, <2>1, <2>2, <2>3, <2>4 DEF PassPublished
<1> QED
  BY <1>5, <1>6, <1>7 DEF Residency, Core, ItemAbsent

\* Taking a free slot for the item keeps Residency.
LEMMA AllocFreeStep ==
  ASSUME Typed, Residency, spc \in {"device", "ram"}, NEW p \in Pools, NEW s, AllocFree(p, s)
  PROVE  Residency' /\ Kept
<1>1. s \in PoolSlots(p) /\ Claimable(dir, s)
  BY EmptyClaimable DEF AllocFree, EmptySlots, Residency
<1>2. dir \in [Pools -> [Keys -> Entry]] /\ InPool(dir)
  BY DEF Typed, TypeOK, EntryInPool
<1> QED
  BY <1>1, <1>2, AllocCore DEF AllocFree, actVars

\* Evicting a victim and reloading its slot for the item keeps Residency.
LEMMA AllocEvictStep ==
  ASSUME Typed, Residency, spc \in {"device", "ram"}, NEW p \in Pools, NEW v, AllocEvict(p, v)
  PROVE  Residency' /\ Kept
<1> DEFINE s == dir[p][v].slot
           d == transition(dir, p, v, "ABSENT", None)
<1>1. v \in Keys /\ s \in PoolSlots(p)
  BY VictimFacts DEF AllocEvict
<1>2. d \in [Pools -> [Keys -> Entry]] /\ InPool(d)
  BY <1>1, TransitionInPool DEF Typed, TypeOK, EntryInPool
<1>3. Claimable(d, s)
  BY VictimClaimable DEF AllocEvict, Residency
<1>4. /\ dir' = transition(d, p, Item, "LOADING", s)
      /\ slot' = [slot EXCEPT ![s] = begin_reload]
      /\ content' = [content EXCEPT ![s] = None]
      /\ pass' = [pass EXCEPT !.slot = s]
      /\ spc' = "load"
      /\ UNCHANGED <<active, load, moveVars>>
  BY DEF AllocEvict, actVars
<1> HIDE DEF s, d
<1> QED
  BY <1>1, <1>2, <1>3, <1>4, AllocCore

-----------------------------------------------------------------------------
\* The device copy of v is dropped, and v gets RAM slot t as the destination of
\* its move.
LEMMA DemoteCore ==
  ASSUME Typed, Residency, spc = "device",
         NEW v \in Victims(active.layer, "dev"), NEW t \in RamSlots,
         NEW b \in [Pools -> [Keys -> Entry]], InPool(b),
         Claimable(b, t), Claimable(b, dir["dev"][v].slot), b["dev"][v].st = "ABSENT",
         dir' = transition(b, "ram", v, "MOVING_IN", t),
         slot' = [slot EXCEPT ![dir["dev"][v].slot] = begin_evict(@), ![t] = begin_reload],
         content' = [content EXCEPT ![t] = None],
         moveq' = moveq \cup {[key |-> v, src |-> dir["dev"][v].slot, dst |-> t]},
         spc' = "ram",
         UNCHANGED <<pass, active, load, movedone>>
  PROVE  Residency' /\ Kept
<1> DEFINE s == dir["dev"][v].slot
           m == [key |-> v, src |-> s, dst |-> t]
<1>1. /\ v \in Keys /\ s \in DevSlots /\ s \in Slots /\ t \in Slots /\ t # s
      /\ dir["dev"][v].st = "READY" /\ slot[s].st = "READY" /\ slot[s].rc = 0
      /\ "ram" \in Pools /\ "dev" \in Pools /\ PoolSlots("ram") = RamSlots
  BY VictimFacts, ConstantFacts, SlotAssumption DEF Pools, PoolSlots
<1>2. \A q \in Pools : b[q][v].st = "ABSENT"
  <2>1. dir["ram"][v].st = "ABSENT"
    BY <1>1 DEF Residency, Core, OneCopyOneSlot
  <2>2. b["ram"][v].st = "ABSENT"
    BY <1>1, <2>1 DEF Claimable
  <2> QED
    BY <2>2 DEF Pools
<1>3. /\ slot' \in [Slots -> Word] /\ slot'[t] = begin_reload
      /\ slot'[s].st = "EVICTING" /\ slot'[s].rc = 0
      /\ \A u \in Slots : u = t \/ u = s \/ slot'[u] = slot[u]
  <2>1. slot[s] \in Word /\ slot \in [Slots -> Word]
    BY <1>1 DEF Typed, TypeOK
  <2> HIDE DEF s
  <2>2. slot' = [[slot EXCEPT ![s] = begin_evict(slot[s])] EXCEPT ![t] = begin_reload]
    BY <1>1 DEF s
  <2>3. /\ begin_evict(slot[s]) \in Word
        /\ begin_evict(slot[s]).st = "EVICTING" /\ begin_evict(slot[s]).rc = 0
    BY <1>1, <2>1, WordFacts DEF s
  <2>4. s \in Slots /\ t \in Slots /\ s # t
    BY <1>1 DEF s
  <2>5. /\ slot' \in [Slots -> Word] /\ slot'[t] = begin_reload
        /\ slot'[s] = begin_evict(slot[s])
        /\ \A u \in Slots : u = t \/ u = s \/ slot'[u] = slot[u]
    BY <2>1, <2>2, <2>3, <2>4, ConstantWords
  <2> QED
    BY <2>3, <2>5 DEF s
<1>4. \A u \in Slots : u = t \/ slot'[u] = slot[u] \/ (Claimable(b, u) /\ slot'[u].rc = 0)
  BY <1>3
<1>5. /\ OneCopyOneSlot' /\ ReadyIsResident' /\ ComingSlots'
      /\ LoadsPublished' /\ LoadsApart' /\ PinsReady' /\ Kept
      /\ \A n \in Moves : /\ dir'["ram"][n.key] = dir["ram"][n.key]
                          /\ slot'[n.src] = slot[n.src]
                          /\ content'[n.src] = content[n.src]
                          /\ content'[n.dst] = content[n.dst]
  <2>1. "ram" \in Pools /\ t \in PoolSlots("ram") /\ v \in Keys
        /\ "MOVING_IN" \in {"LOADING", "MOVING_IN"} /\ Core /\ load' = load
    BY <1>1 DEF Residency
  <2>2. /\ slot' \in [Slots -> Word] /\ slot'[t] = begin_reload
        /\ \A u \in Slots : \/ u = t \/ slot'[u] = slot[u]
                            \/ Claimable(b, u) /\ slot'[u].rc = 0
        /\ dir' = transition(b, "ram", v, "MOVING_IN", t)
        /\ content' = [content EXCEPT ![t] = None]
    BY <1>3, <1>4
  <2> QED
    BY ONLY <1>2, <2>1, <2>2, Typed, InPool(b), Claimable(b, t),
            b \in [Pools -> [Keys -> Entry]], Claim
<1>6. dir'["ram"][v] = [st |-> "MOVING_IN", slot |-> t]
  BY <1>1, TransitionFacts
<1>7. content'[s] = v
  BY <1>1 DEF Typed, TypeOK, Residency, Core, ReadyIsResident
<1>8. \A n \in Moves : /\ slot[n.src].st = "EVICTING" /\ n.key # v
                      /\ dir["ram"][n.key] = [st |-> "MOVING_IN", slot |-> n.dst]
  <2>1. ASSUME NEW n \in Moves
        PROVE  /\ slot[n.src].st = "EVICTING" /\ n.key # v
               /\ dir["ram"][n.key] = [st |-> "MOVING_IN", slot |-> n.dst]
    <3>1. /\ slot[n.src].st = "EVICTING"
          /\ dir["ram"][n.key] = [st |-> "MOVING_IN", slot |-> n.dst]
      BY DEF Residency, Core, MovesPublished
    <3>2. dir["ram"][v].st = "ABSENT"
      BY <1>1 DEF Residency, Core, OneCopyOneSlot
    <3> QED
      BY <3>1, <3>2
  <2> QED
    BY <2>1
<1>9. Moves' = Moves \cup {m} /\ m \notin Moves
  <2>1. Moves' = Moves \cup {m}
    BY DEF Moves
  <2>2. m.key = v
    OBVIOUS
  <2> HIDE DEF m
  <2> QED
    BY <1>8, <2>1, <2>2
<1>10. MovesPublished'
  <2>1. ASSUME NEW n \in Moves
        PROVE  /\ dir'["ram"][n.key] = [st |-> "MOVING_IN", slot |-> n.dst]
               /\ slot'[n.src].st = "EVICTING" /\ content'[n.src] = n.key
               /\ n \in movedone' => content'[n.dst] = n.key
    BY <1>5 DEF Residency, Core, MovesPublished
  <2>2. /\ dir'["ram"][m.key] = [st |-> "MOVING_IN", slot |-> m.dst]
        /\ slot'[m.src].st = "EVICTING" /\ content'[m.src] = m.key
        /\ m \notin movedone'
    BY <1>3, <1>6, <1>7, <1>9 DEF Moves
  <2> HIDE DEF m
  <2> QED
    BY <1>9, <2>1, <2>2 DEF MovesPublished
<1>11. MovesApart'
  <2>1. m.key = v /\ m.src = s
    OBVIOUS
  <2>2. moveq' = moveq \cup {m} /\ movedone' = movedone
    OBVIOUS
  <2> HIDE DEF m, s
  <2>3. \A n \in Moves : n.key # m.key /\ n.src # m.src
    BY <1>1, <1>8, <2>1
  <2>4. moveq' \cap movedone' = {}
    BY <1>9, <2>2 DEF Residency, Core, MovesApart, Moves
  <2>5. \A n, o \in Moves' : n.key = o.key \/ n.src = o.src => n = o
    BY <1>9, <2>3 DEF Residency, Core, MovesApart
  <2> QED
    BY <2>4, <2>5 DEF MovesApart
<1>12. ItemAbsent'
  <2>1. Item' = Item /\ Item \in Keys
    BY ItemInKeys DEF Item, Typed
  <2>2. \A q \in Pools : dir[q][Item].st = "ABSENT"
    BY DEF Residency, ItemAbsent
  <2>3. Item # v
    BY <1>1, <2>2
  <2>4. \A q \in Pools : dir'[q][Item] = b[q][Item]
    <3>1. ASSUME NEW q \in Pools PROVE dir'[q][Item] = b[q][Item]
      <4> HIDE DEF s, m
      <4> QED
        BY <1>1, <2>1, <2>3, TransitionElsewhere
    <3> QED
      BY <3>1
  <2>5. \A q \in Pools : b[q][Item].st = "ABSENT"
    BY <2>1, <2>2 DEF Claimable
  <2> QED
    BY <2>1, <2>4, <2>5 DEF ItemAbsent
<1> QED
  BY <1>5, <1>10, <1>11, <1>12 DEF Residency, Core, PassPublished

\* A demotion to a free RAM slot keeps Residency.
LEMMA DemoteToFreeStep ==
  ASSUME Typed, Residency, NEW v \in Keys, NEW t \in RamSlots, DemoteToFree(v, t)
  PROVE  Residency' /\ Kept
<1> DEFINE b == transition(dir, "dev", v, "ABSENT", None)
<1>1. b \in [Pools -> [Keys -> Entry]] /\ InPool(b)
  BY TransitionInPool DEF Typed, TypeOK, EntryInPool, Pools
<1>2. Claimable(b, dir["dev"][v].slot)
  BY VictimClaimable DEF DemoteToFree, Residency, Pools
<1>3. b["dev"][v].st = "ABSENT"
  <2>1. dir \in [Pools -> [Keys -> Entry]] /\ "dev" \in Pools
    BY DEF Typed, TypeOK, Pools
  <2> QED
    BY <2>1 DEF transition
<1>4. Claimable(b, t)
  <2>1. Claimable(dir, t)
    BY EmptyClaimable DEF DemoteToFree, Residency, Pools
  <2>2. \A q \in Pools, j \in Keys : b[q][j].st # "ABSENT" => b[q][j] = dir[q][j]
    BY <1>2 DEF Claimable
  <2> HIDE DEF b
  <2> QED
    BY <1>2, <2>1, <2>2 DEF Claimable
<1> QED
  BY <1>1, <1>2, <1>3, <1>4, DemoteCore DEF DemoteToFree, actVars

\* A demotion that evicts a RAM copy first keeps Residency.
LEMMA DemoteEvictingStep ==
  ASSUME Typed, Residency, NEW v \in Keys, NEW w \in Keys, DemoteEvicting(v, w)
  PROVE  Residency' /\ Kept
<1> DEFINE a == transition(dir, "dev", v, "ABSENT", None)
           b == transition(a, "ram", w, "ABSENT", None)
           c == transition(dir, "ram", w, "ABSENT", None)
           t == dir["ram"][w].slot
<1>0. /\ "ram" \in Pools /\ "dev" \in Pools /\ Core
      /\ dir \in [Pools -> [Keys -> Entry]] /\ InPool(dir)
      /\ v \in Victims(active.layer, "dev") /\ w \in Victims(v[1], "ram")
  BY DEF DemoteEvicting, Typed, TypeOK, EntryInPool, Pools, Residency
<1>1. a \in [Pools -> [Keys -> Entry]] /\ InPool(a)
  BY <1>0, TransitionInPool
<1>2. Claimable(a, dir["dev"][v].slot) /\ Claimable(c, t)
  BY <1>0, VictimClaimable
<1>3. /\ a["dev"][v].st = "ABSENT" /\ c["ram"][w].st = "ABSENT"
      /\ \A q \in Pools, j \in Keys : "dev" # q \/ v # j => a[q][j] = dir[q][j]
      /\ \A q \in Pools, j \in Keys : "ram" # q \/ w # j => c[q][j] = dir[q][j]
  BY <1>0 DEF transition
<1> HIDE DEF a, c
<1>4. b \in [Pools -> [Keys -> Entry]] /\ InPool(b)
  BY <1>0, <1>1, TransitionInPool
<1>5. /\ b["ram"][w].st = "ABSENT"
      /\ \A q \in Pools, j \in Keys : "ram" # q \/ w # j => b[q][j] = a[q][j]
  BY <1>0, <1>1 DEF transition
<1>6. t \in RamSlots
  BY <1>0, VictimFacts DEF PoolSlots
<1>7. /\ v \in Victims(active.layer, "dev")
      /\ dir' = transition(b, "ram", v, "MOVING_IN", t)
      /\ slot' = [slot EXCEPT ![dir["dev"][v].slot] = begin_evict(@), ![t] = begin_reload]
      /\ content' = [content EXCEPT ![t] = None]
      /\ moveq' = moveq \cup {[key |-> v, src |-> dir["dev"][v].slot, dst |-> t]}
      /\ spc = "device" /\ spc' = "ram"
      /\ UNCHANGED <<pass, active, load, movedone>>
  BY DEF DemoteEvicting, a, actVars
<1> HIDE DEF b, t
<1>8. b["dev"][v].st = "ABSENT"
  BY <1>0, <1>3, <1>5
<1>9. \A q \in Pools, j \in Keys :
        /\ b[q][j] = dir[q][j] \/ (dir[q][j].st = "READY" /\ b[q][j].st = "ABSENT")
        /\ b[q][j].st # "ABSENT" => b[q][j] = a[q][j] /\ b[q][j] = c[q][j]
  <2>1. dir["ram"][w].st = "READY"
    BY <1>0, VictimFacts
  <2>2. ASSUME NEW q \in Pools, NEW j \in Keys
        PROVE  /\ b[q][j] = dir[q][j] \/ (dir[q][j].st = "READY" /\ b[q][j].st = "ABSENT")
               /\ b[q][j].st # "ABSENT" => b[q][j] = a[q][j] /\ b[q][j] = c[q][j]
    <3>1. a[q][j] = dir[q][j] \/ (dir[q][j].st = "READY" /\ a[q][j].st = "ABSENT")
      BY <1>2 DEF Claimable
    <3>2. CASE q = "ram" /\ j = w
      BY <1>5, <2>1, <3>2
    <3>3. CASE "ram" # q \/ w # j
      BY <1>3, <1>5, <3>1, <3>3
    <3> QED
      BY <3>2, <3>3
  <2> QED
    BY <2>2
<1>10. Claimable(b, dir["dev"][v].slot) /\ Claimable(b, t)
  BY <1>2, <1>9 DEF Claimable
<1> QED
  BY <1>4, <1>6, <1>7, <1>8, <1>10, DemoteCore

-----------------------------------------------------------------------------
\* start_async_load turns the claimed slot into a load.
LEMMA StartLoadStep ==
  ASSUME Typed, Residency, NEW i \in Elems, NEW n \in 0 .. NSlices, start_async_load(i, n)
  PROVE  Residency' /\ Kept
<1> DEFINE x == [key |-> Item, slot |-> pass.slot, io |-> n, ok |-> 0, bad |-> 0,
                 failed |-> n < NSlices]
<1>1. /\ x.key = Item /\ x.slot = pass.slot /\ load[i] = None
      /\ load' = [load EXCEPT ![i] = x] /\ load \in [Elems -> Load \cup {None}]
      /\ UNCHANGED <<dir, slot, content, moveq, movedone>> /\ spc' = "serve"
      /\ spc = "load"
  BY DEF start_async_load, Typed, TypeOK, moveVars
<1> HIDE DEF x
<1>2. /\ dir[PoolOf(pass.slot)][Item] = [st |-> "LOADING", slot |-> pass.slot]
      /\ \A j \in Elems : load[j] # None => load[j].slot # pass.slot
  BY <1>1 DEF Residency, PassPublished
<1>3. load'[i] = x /\ \A j \in Elems : j # i => load'[j] = load[j]
  BY <1>1
<1>4. LoadsPublished'
  BY <1>1, <1>2, <1>3 DEF Residency, Core, LoadsPublished
<1>5. LoadsApart'
  BY <1>1, <1>2, <1>3 DEF Residency, Core, LoadsApart
<1> QED
  BY <1>1, <1>4, <1>5
  DEF Residency, Core, OneCopyOneSlot, ReadyIsResident, ComingSlots, MovesPublished,
      MovesApart, Moves, PinsReady, PassPublished, ItemAbsent, Kept

\* A refused load reverts its entry and disturbs no other.
LEMMA RefusedStep == ASSUME Typed, Residency, LoadRefused PROVE Residency' /\ Kept
<1> DEFINE p == PoolOf(pass.slot)
<1>1. /\ spc = "load" /\ spc' = "serve" /\ dir' = transition(dir, p, Item, "ABSENT", None)
      /\ UNCHANGED <<slot, content, load, moveq, movedone>>
  BY DEF LoadRefused, moveVars
<1>2. p \in Pools /\ Item \in Keys /\ dir \in [Pools -> [Keys -> Entry]]
  BY <1>1, ConstantFacts, ItemInKeys DEF Typed, TypeOK, PassSlot
<1>3. /\ dir[p][Item] = [st |-> "LOADING", slot |-> pass.slot]
      /\ \A j \in Elems : load[j] # None => load[j].slot # pass.slot
  BY <1>1 DEF Residency, PassPublished
<1> HIDE DEF p
<1>4. /\ dir'[p][Item].st = "ABSENT"
      /\ \A q \in Pools, j \in Keys : p # q \/ Item # j => dir'[q][j] = dir[q][j]
  BY <1>1, <1>2 DEF transition
<1>5. \A q \in Pools, j \in Keys : dir'[q][j].st # "ABSENT" => dir'[q][j] = dir[q][j]
  BY <1>4
<1>6. OneCopyOneSlot' /\ ReadyIsResident' /\ ComingSlots'
  BY <1>1, <1>5 DEF Residency, Core, OneCopyOneSlot, ReadyIsResident, ComingSlots
<1>7. LoadsPublished' /\ LoadsApart'
  <2>1. ASSUME NEW i \in Elems, load[i] # None
        PROVE  dir'[PoolOf(load[i].slot)][load[i].key]
                 = dir[PoolOf(load[i].slot)][load[i].key]
    <3>1. load[i].key \in Keys /\ PoolOf(load[i].slot) \in Pools
      BY <2>1, ConstantFacts DEF Typed, LoadCount, Load
    <3>2. dir[PoolOf(load[i].slot)][load[i].key].slot = load[i].slot
      <4>1. dir[PoolOf(load[i].slot)][load[i].key]
              = [st |-> "LOADING", slot |-> load[i].slot]
        BY <2>1 DEF Residency, Core, LoadsPublished
      <4> QED
        BY <4>1
    <3>3. load[i].slot # pass.slot /\ dir[p][Item].slot = pass.slot
      BY <1>3, <2>1
    <3> QED
      BY <1>4, <3>1, <3>2, <3>3
  <2> QED
    BY <1>1, <2>1 DEF Residency, Core, LoadsPublished, LoadsApart
<1>8. MovesPublished' /\ MovesApart'
  <2>1. ASSUME NEW m \in Moves PROVE dir'["ram"][m.key] = dir["ram"][m.key]
    <3>1. m.key \in Keys /\ "ram" \in Pools
      BY DEF Typed, TypeOK, Moves, Move, Pools
    <3>2. dir["ram"][m.key].st = "MOVING_IN" /\ dir[p][Item].st = "LOADING"
      <4>1. dir["ram"][m.key] = [st |-> "MOVING_IN", slot |-> m.dst]
        BY DEF Residency, Core, MovesPublished
      <4> QED
        BY <1>3, <4>1
    <3> QED
      BY <1>4, <3>1, <3>2
  <2> QED
    BY <1>1, <2>1, MovesKept DEF Residency
<1> QED
  BY <1>1, <1>6, <1>7, <1>8
  DEF Residency, Core, PinsReady, PassPublished, ItemAbsent, Kept

-----------------------------------------------------------------------------
\* A quiet step keeps Residency, wherever worker_loop stands.
LEMMA QuietStep ==
  ASSUME Typed, Residency, SlotStep(slot), UNCHANGED <<dir, content, moveq, movedone>>,
         \A i \in Elems : load'[i] # None =>
           load[i] # None /\ load'[i].key = load[i].key /\ load'[i].slot = load[i].slot,
         \/ spc' \notin {"load", "device", "ram"}
         \/ /\ spc' = "load" => spc = "load"
            /\ spc' \in {"device", "ram"} => spc \in {"device", "ram"}
            /\ UNCHANGED <<pass, active>>
  PROVE  Residency' /\ Kept
<1>1. Core'
  BY Quiet DEF Residency
<1>2. PassPublished' /\ ItemAbsent'
  <2>1. CASE spc' \notin {"load", "device", "ram"}
    BY <2>1 DEF PassPublished, ItemAbsent
  <2>2. CASE /\ spc' = "load" => spc = "load"
             /\ spc' \in {"device", "ram"} => spc \in {"device", "ram"}
             /\ UNCHANGED <<pass, active>>
    BY <2>2 DEF Residency, PassPublished, ItemAbsent, Item
  <2> QED
    BY <2>1, <2>2
<1>3. Kept
  BY DEF SlotStep, Kept
<1> QED
  BY <1>1, <1>2, <1>3 DEF Residency

\* Leaving the slots alone is a special case of a slot step.
LEMMA SameSlots == ASSUME Typed, slot' = slot PROVE SlotStep(slot)
  BY DEF Typed, TypeOK, SlotStep, Word

\* Every step of pin_layer and of the unpins keeps Residency.
LEMMA ResidencyExec == ASSUME Typed, Residency, Exec PROVE Residency' /\ Kept
<1> USE DEF execVars, passVars, actVars, moveVars
<1>1. CASE slot' = slot
  <2>1. UNCHANGED <<dir, content, load, moveq, movedone, spc, pass, active>>
    BY Zenon DEF Exec, PinBegin, PinScan, PinHit, PinSubmit, PinFailed, PinWake, PinCollect, PinReturn,
           Unpin
  <2> QED
    BY <1>1, <2>1, SameSlots, QuietStep
<1>2. CASE PinFailed \/ Unpin \/ (PinCollect /\ slot' = unpin_all(handle))
  <2>1. UNCHANGED <<dir, content, load, moveq, movedone, spc, pass, active>>
    BY <1>2 DEF PinFailed, Unpin, PinCollect
  <2>2. slot' = unpin_all(handle)
    BY <1>2 DEF PinFailed, Unpin
  <2>3. SlotStep(slot)
    BY <2>2, UnpinAllFacts DEF Typed, TypeOK, SlotStep
  <2> QED
    BY <2>1, <2>3, QuietStep
<1>3. CASE PinScan /\ slot' # slot
  <2> DEFINE s == scan(<<elayer, Least(visit)>>)
  <2>1. UNCHANGED <<dir, content, load, moveq, movedone, spc, pass, active>>
    BY <1>3 DEF PinScan
  <2>2. CanPin(slot[s]) /\ slot' = [slot EXCEPT ![s] = pinned(@)]
    BY <1>3 DEF PinScan
  <2>3. slot \in [Slots -> Word]
    BY DEF Typed, TypeOK
  <2> HIDE DEF s
  <2>4. CASE s \in Slots
    <3>1. pinned(slot[s]) \in Word /\ pinned(slot[s]).st = "READY" /\ slot[s].st = "READY"
      BY <2>2, <2>3, <2>4, WordFacts DEF CanPin
    <3>2. SlotStep(slot)
      BY <2>2, <2>3, <2>4, <3>1 DEF SlotStep, Word
    <3> QED
      BY <2>1, <3>2, QuietStep
  <2>5. CASE s \notin Slots
    BY <1>3, <2>2, <2>3, <2>5
  <2> QED
    BY <2>4, <2>5
<1>4. ASSUME NEW l \in Layers, NEW E \in SUBSET Experts, PinBegin(l, E)
      PROVE  slot' = slot
  BY <1>4 DEF PinBegin
<1>5. CASE PinHit \/ PinSubmit \/ PinWake \/ PinReturn
  <2>1. slot' = slot
    BY <1>5 DEF PinHit, PinSubmit, PinWake, PinReturn
  <2> QED
    BY <1>1, <2>1
<1>6. CASE PinCollect
  <2>1. slot' = slot \/ slot' = unpin_all(handle)
    BY <1>6 DEF PinCollect
  <2> QED
    BY <1>1, <1>2, <1>6, <2>1
<1> QED
  BY <1>1, <1>2, <1>3, <1>4, <1>5, <1>6 DEF Exec
-----------------------------------------------------------------------------
\* A load or a move of key k ends: its entry becomes READY with the weights in
\* place, or is reverted to ABSENT.  Only slots no READY entry names change.
LEMMA Land ==
  ASSUME Typed, Core, NEW p \in Pools, NEW k \in Keys, NEW s \in Slots,
         dir[p][k].st \in {"LOADING", "MOVING_IN"}, dir[p][k].slot = s,
         NEW st \in {"READY", "ABSENT"}, NEW u \in Slots \cup {None},
         dir' = transition(dir, p, k, st, u),
         NEW sl \in [Slots -> Word], SlotStep(sl), sl[s].rc = 0,
         st = "READY" => u = s /\ sl[s].st = "READY" /\ content'[s] = k,
         \A t \in Slots : \/ t = s \/ sl[t] = slot[t]
                          \/ /\ sl[t].rc = 0 /\ slot[t].st = "EVICTING",
         \A t \in Slots : t # s => content'[t] = content[t]
  PROVE  /\ OneCopyOneSlot' /\ ReadyIsResident' /\ ComingSlots' /\ PinsReady' /\ Kept
         /\ \A q \in Pools, j \in Keys : p # q \/ k # j => dir'[q][j] = dir[q][j]
<1>1. /\ dir'[p][k] = [st |-> st, slot |-> u]
      /\ \A q \in Pools, j \in Keys : p # q \/ k # j => dir'[q][j] = dir[q][j]
  BY TransitionFacts DEF Typed, TypeOK
<1>2. dir'[p][k].st = st /\ dir'[p][k].slot = u
  BY <1>1
<1>3. ASSUME NEW q \in Pools, NEW j \in Keys, dir'[q][j].st # "ABSENT"
      PROVE  dir[q][j].st # "ABSENT" /\ dir'[q][j].slot = dir[q][j].slot
  BY <1>1, <1>2, <1>3
<1>4. OneCopyOneSlot'
  BY <1>3 DEF Core, OneCopyOneSlot
<1>5. ASSUME NEW q \in Pools, NEW j \in Keys, dir[q][j].st # "ABSENT", p # q \/ k # j
      PROVE  /\ dir[q][j].slot \in Slots
             /\ slot'[dir[q][j].slot].st = slot[dir[q][j].slot].st
             /\ content'[dir[q][j].slot] = content[dir[q][j].slot]
  <2>1. dir[q][j].slot \in Slots /\ dir[q][j].slot # s
    BY <1>5, ConstantFacts DEF Core, OneCopyOneSlot
  <2>2. slot[dir[q][j].slot].st # "EVICTING"
    <3>1. dir[q][j].st \in {"READY", "LOADING", "MOVING_IN"}
      BY <1>5 DEF Typed, TypeOK, Entry
    <3> QED
      BY <3>1 DEF Core, ReadyIsResident, ComingSlots
  <2>3. sl[dir[q][j].slot] = slot[dir[q][j].slot]
    BY <2>1, <2>2
  <2> QED
    BY <2>1, <2>3 DEF SlotStep
<1>6. ReadyIsResident'
  <2>1. ASSUME NEW q \in Pools, NEW j \in Keys, dir'[q][j].st = "READY"
        PROVE  slot'[dir'[q][j].slot].st = "READY" /\ content'[dir'[q][j].slot] = j
    <3>1. CASE q = p /\ j = k
      BY <1>2, <2>1, <3>1 DEF SlotStep
    <3>2. CASE p # q \/ k # j
      BY <1>1, <1>5, <2>1, <3>2 DEF Core, ReadyIsResident
    <3> QED
      BY <3>1, <3>2
  <2> QED
    BY <2>1 DEF ReadyIsResident
<1>7. ComingSlots'
  <2>1. ASSUME NEW q \in Pools, NEW j \in Keys, dir'[q][j].st \in {"LOADING", "MOVING_IN"}
        PROVE  slot'[dir'[q][j].slot].st = "IO_INFLIGHT"
    <3>1. p # q \/ k # j
      BY <1>2, <2>1
    <3>2. dir'[q][j] = dir[q][j]
      BY <1>1, <3>1
    <3> QED
      BY <1>5, <2>1, <3>1, <3>2 DEF Core, ComingSlots
  <2> QED
    BY <2>1 DEF ComingSlots
<1>8. PinsReady'
  <2>1. ASSUME NEW t \in Slots, slot'[t].rc > 0 PROVE slot'[t].st = "READY"
    <3>1. slot'[t].rc \in Nat /\ sl[t].rc \in Nat
      BY DEF SlotStep, Word
    <3>2. sl[t].st = "READY"
      BY <2>1, <3>1 DEF SlotStep, Core, PinsReady
    <3> QED
      BY <3>2 DEF SlotStep
  <2> QED
    BY <2>1 DEF PinsReady
<1>9. Kept
  <2>1. slot[s].st = "IO_INFLIGHT"
    BY DEF Core, ComingSlots
  <2>2. ASSUME NEW t \in Slots, slot[t].rc > 0
        PROVE  slot'[t].st = slot[t].st /\ content'[t] = content[t]
    <3>1. slot[t].st = "READY"
      BY <2>2 DEF Core, PinsReady
    <3>2. t # s /\ sl[t] = slot[t]
      BY <2>1, <3>1
    <3> QED
      BY <3>2 DEF SlotStep
  <2> QED
    BY <2>2 DEF Kept
<1> QED
  BY <1>1, <1>4, <1>6, <1>7, <1>8, <1>9

\* Load i settles: its element is free again and its entry lands or is reverted.
LEMMA SettleStep ==
  ASSUME Typed, Residency, NEW i \in Elems, load[i] # None,
         NEW st \in {"READY", "ABSENT"}, NEW u \in Slots \cup {None},
         dir' = transition(dir, PoolOf(load[i].slot), load[i].key, st, u),
         NEW sl \in [Slots -> Word], SlotStep(sl), sl[load[i].slot].rc = 0,
         st = "READY" => /\ u = load[i].slot /\ sl[load[i].slot].st = "READY"
                         /\ content'[load[i].slot] = load[i].key,
         \A t \in Slots : t # load[i].slot => sl[t] = slot[t] /\ content'[t] = content[t],
         load' = [load EXCEPT ![i] = None], UNCHANGED moveVars, spc' = "drain"
  PROVE  Residency' /\ Kept
<1> DEFINE s == load[i].slot
           k == load[i].key
           p == PoolOf(s)
<1>1. s \in Slots /\ k \in Keys /\ p \in Pools
  BY ConstantFacts DEF Typed, LoadCount, Load
<1>2. dir[p][k] = [st |-> "LOADING", slot |-> s]
  BY DEF Residency, Core, LoadsPublished
<1>3. dir[p][k].st = "LOADING" /\ dir[p][k].slot = s
  BY <1>2
<1>4. \A j \in Elems : load'[j] # None =>
        /\ load'[j] = load[j] /\ load[j] # None /\ load[j].slot # s
  BY DEF Typed, TypeOK, Residency, Core, LoadsApart
<1>5. /\ dir' = transition(dir, p, k, st, u)
      /\ sl[s].rc = 0
      /\ st = "READY" => u = s /\ sl[s].st = "READY" /\ content'[s] = k
      /\ \A t \in Slots : t # s => sl[t] = slot[t] /\ content'[t] = content[t]
      /\ moveq' = moveq /\ movedone' = movedone
  BY DEF moveVars
<1> HIDE DEF s, k, p
<1>6. /\ OneCopyOneSlot' /\ ReadyIsResident' /\ ComingSlots' /\ PinsReady' /\ Kept
      /\ \A q \in Pools, j \in Keys : p # q \/ k # j => dir'[q][j] = dir[q][j]
  BY <1>1, <1>3, <1>5, Land DEF Residency
<1>7. LoadsPublished' /\ LoadsApart'
  <2>1. ASSUME NEW j \in Elems, load'[j] # None
        PROVE  dir'[PoolOf(load'[j].slot)][load'[j].key]
                 = [st |-> "LOADING", slot |-> load'[j].slot]
    <3> DEFINE q == PoolOf(load[j].slot)
               l == load[j].key
    <3>1. load'[j] = load[j] /\ load[j].slot # s /\ load[j] # None
      BY <1>4, <2>1
    <3>2. l \in Keys /\ q \in Pools
      BY <3>1, ConstantFacts DEF Typed, LoadCount, Load
    <3>3. dir[q][l] = [st |-> "LOADING", slot |-> load[j].slot]
      BY <3>1 DEF Residency, Core, LoadsPublished
    <3> HIDE DEF q, l
    <3>4. dir[q][l].slot = load[j].slot
      BY <3>3
    <3>5. dir'[q][l] = dir[q][l]
      BY <1>3, <1>6, <3>1, <3>2, <3>4
    <3> QED
      BY <3>1, <3>3, <3>5 DEF q, l
  <2> QED
    BY <1>4, <2>1 DEF LoadsPublished, LoadsApart, Residency, Core
<1>8. ASSUME NEW m \in Moves
      PROVE  /\ dir'["ram"][m.key] = dir["ram"][m.key]
             /\ slot'[m.src].st = slot[m.src].st
             /\ content'[m.src] = content[m.src]
             /\ content'[m.dst] = content[m.dst]
  <2>1. m.key \in Keys /\ "ram" \in Pools /\ m.src \in Slots /\ m.dst \in Slots
    BY ConstantFacts DEF Typed, TypeOK, Moves, Move, Pools
  <2>2. dir["ram"][m.key] = [st |-> "MOVING_IN", slot |-> m.dst] /\ slot[m.src].st = "EVICTING"
    BY DEF Residency, Core, MovesPublished
  <2>3. dir["ram"][m.key].st = "MOVING_IN" /\ dir["ram"][m.key].slot = m.dst
    BY <2>2
  <2>4. p # "ram" \/ k # m.key
    BY <1>3, <2>3
  <2>5. m.dst # s
    BY <1>1, <1>3, <2>1, <2>3, <2>4 DEF Residency, Core, OneCopyOneSlot
  <2>6. m.src # s
    BY <1>1, <1>3, <2>2 DEF Residency, Core, ComingSlots
  <2> QED
    BY <1>5, <1>6, <2>1, <2>4, <2>5, <2>6 DEF SlotStep
<1>9. MovesPublished' /\ MovesApart'
  BY <1>5, <1>8 DEF Residency, Core, MovesPublished, MovesApart, Moves
<1> QED
  BY <1>6, <1>7, <1>9 DEF Residency, Core, PassPublished, ItemAbsent

\* drain_completions keeps Residency, also when the load failed or comes too
\* late for its request.
LEMMA DrainStep ==
  ASSUME Typed, Residency, NEW i \in Elems, NEW r \in {"ok", "error"},
         drain_completions(i, r)
  PROVE  Residency' /\ Kept
<1> DEFINE x == Drained(load[i], r)
<1> USE DEF execVars, passVars, actVars, moveVars
<1>1. /\ load[i] \in Load /\ load[i] # None /\ spc = "drain" /\ spc' = "drain"
      /\ IF r = "ok" THEN load[i].ok > 0 ELSE load[i].bad > 0
  BY DEF drain_completions, Typed, LoadCount
<1>2. x \in Load /\ x.key = load[i].key /\ x.slot = load[i].slot
  BY <1>1, DrainedFacts
<1>3. /\ UNCHANGED <<execVars, touched, queue, passVars, moveVars>>
      /\ IF x.io + x.ok + x.bad > 0
         THEN /\ load' = [load EXCEPT ![i] = x]
              /\ UNCHANGED <<slot, content, dir, await, actVars>>
         ELSE /\ load' = [load EXCEPT ![i] = None]
              /\ IF x.failed THEN SettleFailed(x) ELSE SettleLoaded(x)
  BY DEF drain_completions
<1> HIDE DEF x
<1>4. x.slot \in Slots /\ x.key \in Keys /\ slot \in [Slots -> Word] /\ slot[x.slot] \in Word
  BY <1>2 DEF Load, Typed, TypeOK
<1>5. slot[x.slot].st = "IO_INFLIGHT" /\ slot[x.slot].rc = 0
  <2>1. dir[PoolOf(x.slot)][x.key] = [st |-> "LOADING", slot |-> x.slot]
    BY <1>1, <1>2 DEF Residency, Core, LoadsPublished
  <2>2. /\ dir[PoolOf(x.slot)][x.key].st = "LOADING"
        /\ dir[PoolOf(x.slot)][x.key].slot = x.slot
    BY <2>1
  <2>3. slot[x.slot].st = "IO_INFLIGHT"
    BY <1>4, <2>2, ConstantFacts DEF Residency, Core, ComingSlots
  <2> QED
    BY <1>4, <2>3 DEF Residency, Core, PinsReady, Word
<1>6. CASE x.io + x.ok + x.bad > 0
  <2>1. \A j \in Elems : load'[j] # None =>
          load[j] # None /\ load'[j].key = load[j].key /\ load'[j].slot = load[j].slot
    BY <1>1, <1>2, <1>3, <1>6 DEF Typed, TypeOK
  <2> QED
    BY <1>1, <1>3, <1>6, <2>1, SameSlots, QuietStep
<1>7. CASE ~(x.io + x.ok + x.bad > 0) /\ x.failed
  <2> DEFINE sl == [slot EXCEPT ![x.slot] = mark_failed(@)]
  <2>1. /\ sl \in [Slots -> Word] /\ sl[x.slot].rc = 0
        /\ \A t \in Slots : t # x.slot => sl[t] = slot[t]
    BY <1>4, <1>5, WordFacts
  <2>2. /\ dir' = transition(dir, PoolOf(x.slot), x.key, "ABSENT", None)
        /\ content' = content
        /\ active_fail(sl) \/ slot' = sl
    BY <1>3, <1>7 DEF SettleFailed
  <2> HIDE DEF sl
  <2>3. SlotStep(sl)
    BY <2>1, <2>2, ActiveFailFacts DEF Typed, SlotStep, Word
  <2> QED
    BY <1>1, <1>2, <1>3, <1>7, <2>1, <2>2, <2>3, SettleStep
<1>8. CASE ~(x.io + x.ok + x.bad > 0) /\ ~x.failed
  <2> DEFINE sl == [slot EXCEPT ![x.slot] = mark_ready(@)]
  <2>1. /\ sl \in [Slots -> Word] /\ sl[x.slot].rc = 0 /\ sl[x.slot].st = "READY"
        /\ \A t \in Slots : t # x.slot => sl[t] = slot[t]
    BY <1>4, <1>5, WordFacts
  <2>2. /\ dir' = transition(dir, PoolOf(x.slot), x.key, "READY", x.slot)
        /\ content' = [content EXCEPT ![x.slot] = x.key]
        /\ active_settle(x.key, x.slot, sl)
    BY <1>3, <1>8 DEF SettleLoaded
  <2> HIDE DEF sl
  <2>3. SlotStep(sl)
    BY <1>4, <2>1, <2>2, ActiveSettleFacts DEF Typed
  <2>4. /\ content'[x.slot] = x.key
        /\ \A t \in Slots : t # x.slot => content'[t] = content[t]
    BY <1>4, <2>2 DEF Typed, TypeOK
  <2> QED
    BY <1>1, <1>2, <1>3, <1>4, <1>8, <2>1, <2>2, <2>3, <2>4, SettleStep
<1> QED
  BY <1>6, <1>7, <1>8

\* drain_moves keeps Residency.
LEMMA DrainMovesStep ==
  ASSUME Typed, Residency, NEW m \in movedone, drain_moves(m)
  PROVE  Residency' /\ Kept
<1> DEFINE sl == [slot EXCEPT ![m.dst] = mark_ready(@), ![m.src] = release_to_empty]
<1>1. /\ m \in Moves /\ m \in Move /\ m.key \in Keys /\ m.dst \in RamSlots /\ m.dst \in Slots
      /\ m.src \in Slots /\ m.src # m.dst /\ "ram" \in Pools
  BY ConstantFacts, SlotAssumption DEF Typed, TypeOK, Moves, Move, Pools
<1>2. /\ dir["ram"][m.key].st = "MOVING_IN" /\ dir["ram"][m.key].slot = m.dst
      /\ slot[m.src].st = "EVICTING" /\ content[m.dst] = m.key
  <2>1. /\ dir["ram"][m.key] = [st |-> "MOVING_IN", slot |-> m.dst]
        /\ slot[m.src].st = "EVICTING" /\ content[m.dst] = m.key
    BY <1>1 DEF Residency, Core, MovesPublished
  <2> QED
    BY <2>1
<1>3. slot \in [Slots -> Word] /\ slot[m.dst] \in Word
  BY <1>1 DEF Typed, TypeOK
<1>4. slot[m.dst].st = "IO_INFLIGHT" /\ slot[m.dst].rc = 0
  BY <1>1, <1>2, <1>3 DEF Residency, Core, ComingSlots, PinsReady, Word
<1>5. /\ sl \in [Slots -> Word] /\ sl[m.dst] = mark_ready(slot[m.dst])
      /\ sl[m.src] = release_to_empty
      /\ \A t \in Slots : t # m.dst /\ t # m.src => sl[t] = slot[t]
  BY <1>1, <1>3, WordFacts, ConstantWords
<1>6. /\ active_settle(m.key, m.dst, sl)
      /\ dir' = transition(dir, "ram", m.key, "READY", m.dst)
      /\ movedone' = movedone \ {m} /\ moveq' = moveq
      /\ content' = content /\ load' = load /\ spc' = "moves"
  BY DEF drain_moves, passVars
<1> HIDE DEF sl
<1>7. SlotStep(sl)
  BY <1>1, <1>5, <1>6, ActiveSettleFacts DEF Typed
<1>8. sl[m.dst].st = "READY" /\ sl[m.dst].rc = 0 /\ sl[m.src].rc = 0
  BY <1>3, <1>4, <1>5, WordFacts, ConstantWords
<1>9. /\ OneCopyOneSlot' /\ ReadyIsResident' /\ ComingSlots' /\ PinsReady' /\ Kept
      /\ \A q \in Pools, j \in Keys : "ram" # q \/ m.key # j => dir'[q][j] = dir[q][j]
  <2>1. \A t \in Slots : \/ t = m.dst \/ sl[t] = slot[t]
                         \/ /\ sl[t].rc = 0 /\ slot[t].st = "EVICTING"
    BY <1>2, <1>5, <1>8
  <2>2. Core /\ content'[m.dst] = m.key /\ \A t \in Slots : content'[t] = content[t]
    BY <1>2, <1>6 DEF Residency
  <2> QED
    BY <1>1, <1>2, <1>5, <1>6, <1>7, <1>8, <2>1, <2>2, Land
<1>10. LoadsPublished' /\ LoadsApart'
  <2>1. ASSUME NEW j \in Elems, load[j] # None
        PROVE  dir'[PoolOf(load[j].slot)][load[j].key]
                 = [st |-> "LOADING", slot |-> load[j].slot]
    <3> DEFINE q == PoolOf(load[j].slot)
               l == load[j].key
    <3>1. l \in Keys /\ q \in Pools
      BY <2>1, ConstantFacts DEF Typed, LoadCount, Load
    <3>2. dir[q][l] = [st |-> "LOADING", slot |-> load[j].slot]
      BY <2>1 DEF Residency, Core, LoadsPublished
    <3> HIDE DEF q, l
    <3>3. dir[q][l].st = "LOADING"
      BY <3>2
    <3> QED
      BY <1>2, <1>9, <3>1, <3>2, <3>3 DEF q, l
  <2> QED
    BY <1>6, <2>1 DEF LoadsPublished, LoadsApart, Residency, Core
<1>11. Moves' = Moves \ {m}
  BY <1>6 DEF Moves, Residency, Core, MovesApart
<1>12. ASSUME NEW n \in Moves, n # m
       PROVE  /\ dir'["ram"][n.key] = dir["ram"][n.key]
              /\ slot'[n.src].st = slot[n.src].st
  <2>1. n.key # m.key /\ n.src # m.src
    BY <1>1, <1>12 DEF Residency, Core, MovesApart
  <2>2. n.key \in Keys /\ n.src \in Slots /\ slot[n.src].st = "EVICTING"
    BY ConstantFacts DEF Typed, TypeOK, Moves, Move, Residency, Core, MovesPublished
  <2>3. sl[n.src] = slot[n.src]
    BY <1>4, <1>5, <2>1, <2>2
  <2> QED
    BY <1>1, <1>7, <1>9, <2>1, <2>2, <2>3 DEF SlotStep
<1>13. MovesPublished' /\ MovesApart'
  BY <1>6, <1>11, <1>12 DEF Residency, Core, MovesPublished, MovesApart
<1> QED
  BY <1>6, <1>9, <1>10, <1>13 DEF Residency, Core, PassPublished, ItemAbsent

\* The copy of the move worker writes to a slot nobody can have pinned.
LEMMA CopyStep == ASSUME Typed, Residency, NEW m \in moveq, MoveCopy(m) PROVE Residency' /\ Kept
<1>1. /\ m \in Moves /\ m.key \in Keys /\ m.dst \in Slots /\ m.src \in Slots
      /\ "ram" \in Pools
  BY ConstantFacts DEF Typed, TypeOK, Moves, Move, Pools
<1>2. /\ content' = [content EXCEPT ![m.dst] = content[m.src]]
      /\ moveq' = moveq \ {m} /\ movedone' = movedone \cup {m}
      /\ UNCHANGED <<slot, dir, load, spc, pass, active>>
  BY DEF MoveCopy, passVars, actVars
<1>3. /\ dir["ram"][m.key].st = "MOVING_IN" /\ dir["ram"][m.key].slot = m.dst
      /\ content[m.src] = m.key
  <2>1. dir["ram"][m.key] = [st |-> "MOVING_IN", slot |-> m.dst] /\ content[m.src] = m.key
    BY <1>1 DEF Residency, Core, MovesPublished
  <2> QED
    BY <2>1
<1>4. content'[m.dst] = m.key /\ \A t \in Slots : t # m.dst => content'[t] = content[t]
  BY <1>1, <1>2, <1>3 DEF Typed, TypeOK
<1>5. slot[m.dst].st = "IO_INFLIGHT"
  BY <1>1, <1>3 DEF Residency, Core, ComingSlots
<1>6. ReadyIsResident'
  <2>1. ASSUME NEW q \in Pools, NEW j \in Keys, dir[q][j].st = "READY"
        PROVE  content'[dir[q][j].slot] = content[dir[q][j].slot]
    <3>1. dir[q][j].slot \in Slots
      BY <2>1, ConstantFacts DEF Typed, EntryInPool, InPool
    <3>2. dir[q][j].slot # m.dst
      BY <1>5, <2>1 DEF Residency, Core, ReadyIsResident
    <3> QED
      BY <1>4, <3>1, <3>2
  <2> QED
    BY <1>2, <2>1 DEF Residency, Core, ReadyIsResident
<1>7. Moves' = Moves
  BY <1>2 DEF Moves
<1>8. MovesPublished'
  <2>1. ASSUME NEW n \in Moves
        PROVE  /\ content'[n.src] = content[n.src]
               /\ n \in movedone' => content'[n.dst] = n.key
    <3>1. n.key \in Keys /\ n.dst \in Slots /\ n.src \in Slots /\ slot[n.src].st = "EVICTING"
      BY ConstantFacts DEF Typed, TypeOK, Moves, Move, Residency, Core, MovesPublished
    <3>2. content'[n.src] = content[n.src]
      BY <1>4, <1>5, <3>1
    <3>3. CASE n = m
      BY <1>4, <3>2, <3>3
    <3>4. CASE n # m
      <4>1. dir["ram"][n.key] = [st |-> "MOVING_IN", slot |-> n.dst] /\ n.key # m.key
        BY <1>1, <3>4 DEF Residency, Core, MovesPublished, MovesApart
      <4>2. dir["ram"][n.key].st = "MOVING_IN" /\ dir["ram"][n.key].slot = n.dst
        BY <4>1
      <4>3. n.dst # m.dst
        BY <1>1, <1>3, <3>1, <4>1, <4>2 DEF Residency, Core, OneCopyOneSlot
      <4>4. content'[n.dst] = content[n.dst]
        BY <1>4, <3>1, <4>3
      <4> QED
        BY <1>2, <3>2, <3>4, <4>4 DEF Residency, Core, MovesPublished
    <3> QED
      BY <3>3, <3>4
  <2> QED
    BY <1>2, <1>7, <2>1 DEF Residency, Core, MovesPublished
<1>9. MovesApart'
  BY <1>2, <1>7 DEF Residency, Core, MovesApart
<1>10. Kept
  BY <1>2, <1>4, <1>5 DEF Residency, Core, PinsReady, Kept
<1> QED
  BY <1>2, <1>6, <1>8, <1>9, <1>10
  DEF Residency, Core, OneCopyOneSlot, ComingSlots, LoadsPublished, LoadsApart, PinsReady,
      PassPublished, ItemAbsent, Item

\* A turn of the serve loop keeps Residency: alloc_or_evict is entered only
\* for an item without a copy.
LEMMA ServeItemStep == ASSUME Typed, Residency, ServeItem PROVE Residency' /\ Kept
<1> DEFINE e == Least(Todo)
           k == <<active.layer, e>>
<1> USE DEF execVars, passVars, actVars, moveVars
<1>1. e \in Experts
  <2>1. Todo \subseteq Experts /\ Todo # {}
    BY DEF ServeItem, Typed, TypeOK, Todo, Pass
  <2> QED
    BY <2>1, LeastInSet, ConstantFacts
<1>2. k \in Keys /\ scan(k) \in Slots \cup {None}
  BY <1>1, ConstantFacts, ScanType DEF Typed, TypeOK, Active
<1>3. /\ UNCHANGED <<dir, content, load, moveq, movedone>> /\ spc = "serve"
      /\ pass' = [pass EXCEPT !.visit = @ \ {e}, !.cur = e, !.slot = None]
  BY DEF ServeItem
<1>4. CASE scan(k) # None
  <2>1. active_settle(k, scan(k), slot) /\ spc' = "serve"
    BY <1>4 DEF ServeItem
  <2>2. SlotStep(slot)
    BY <1>2, <1>4, <2>1, ActiveSettleFacts DEF Typed, TypeOK
  <2> QED
    BY <1>3, <2>1, <2>2, QuietStep
<1>5. CASE scan(k) = None
  <2>1. /\ UNCHANGED <<slot, active>>
        /\ spc' = IF \E p \in Pools : dir[p][k].st # "ABSENT" THEN "serve"
                  ELSE IF DevSlots # {} THEN "device" ELSE "ram"
    BY <1>5 DEF ServeItem
  <2>2. Item' = k
    <3>1. pass'.cur = e
      BY <1>3 DEF Typed, TypeOK, Pass
    <3> QED
      BY <2>1, <3>1 DEF Item
  <2>3. ItemAbsent' /\ PassPublished'
    BY <1>3, <2>1, <2>2 DEF ItemAbsent, PassPublished
  <2>4. Core'
    BY <1>3, <2>1, SameSlots, Quiet DEF Residency
  <2> QED
    BY <1>3, <2>1, <2>3, <2>4 DEF Residency, Kept
<1> QED
  BY <1>4, <1>5

\* active_register pins READY slots only.
LEMMA RegisterStep == ASSUME Typed, Residency, active_register PROVE Residency' /\ Kept
<1>1. ASSUME NEW t \in ReadySlots PROVE slot[t].st = "READY"
  BY <1>1 DEF ReadySlots, ReadyItems, CanPin
<1>2. SlotStep(slot)
  <2>1. ASSUME NEW t \in Slots
        PROVE  /\ slot[t] \in Word /\ pinned(slot[t]) \in Word
               /\ pinned(slot[t]).st = slot[t].st /\ slot[t].rc <= slot[t].rc
    BY WordFacts DEF Typed, TypeOK, Word
  <2>2. slot' = [t \in Slots |-> IF t \in ReadySlots THEN pinned(slot[t]) ELSE slot[t]]
    BY DEF active_register
  <2> QED
    BY <1>1, <2>1, <2>2 DEF SlotStep
<1> QED
  BY <1>2, QuietStep DEF active_register, moveVars

\* Every step of worker_loop keeps Residency.
LEMMA ResidencyScheduler == ASSUME Typed, Residency, Scheduler PROVE Residency' /\ Kept
<1> USE DEF passVars, actVars, moveVars
<1>1. ASSUME NEW i \in Elems, NEW r \in {"ok", "error"}, drain_completions(i, r)
      PROVE  Residency' /\ Kept
  BY <1>1, DrainStep
<1>2. CASE DrainEnd \/ AcceptActive \/ AcceptNothing \/ MovesEnd \/ ServeEnd \/ RamNone
  <2>1. /\ UNCHANGED <<slot, dir, content, load, moveq, movedone>>
        /\ spc' \notin {"load", "device", "ram"}
    BY <1>2 DEF DrainEnd, AcceptActive, AcceptNothing, MovesEnd, ServeEnd, RamNone
  <2> QED
    BY <2>1, SameSlots, QuietStep
<1>3. CASE active_register
  BY <1>3, RegisterStep
<1>4. CASE ServeItem
  BY <1>4, ServeItemStep
<1>5. ASSUME NEW v \in Keys, NEW d \in RamSlots, DemoteToFree(v, d) PROVE Residency' /\ Kept
  BY <1>5, DemoteToFreeStep
<1>6. ASSUME NEW v \in Keys, NEW w \in Keys, DemoteEvicting(v, w) PROVE Residency' /\ Kept
  BY <1>6, DemoteEvictingStep
<1>7. ASSUME NEW v \in Keys, DemoteDrop(v) PROVE Residency' /\ Kept
  BY <1>7, AllocEvictStep DEF DemoteDrop, Pools
<1>8. ASSUME NEW s \in DevSlots, DeviceFree(s) PROVE Residency' /\ Kept
  BY <1>8, AllocFreeStep DEF DeviceFree, Pools
<1>9. CASE DeviceNone
  BY <1>9, SameSlots, QuietStep DEF DeviceNone
<1>10. ASSUME NEW s \in RamSlots, RamFree(s) PROVE Residency' /\ Kept
  BY <1>10, AllocFreeStep DEF RamFree, Pools
<1>11. ASSUME NEW v \in Keys, RamEvict(v) PROVE Residency' /\ Kept
  BY <1>11, AllocEvictStep DEF RamEvict, Pools
<1>12. ASSUME NEW i \in Elems, NEW n \in 0 .. NSlices, start_async_load(i, n)
       PROVE  Residency' /\ Kept
  BY <1>12, StartLoadStep
<1>13. CASE LoadRefused
  BY <1>13, RefusedStep
<1>14. CASE StallFail
  <2>1. SlotStep(slot)
    BY <1>14, ActiveFailFacts DEF StallFail, Typed, TypeOK
  <2>2. /\ UNCHANGED <<dir, content, load, moveq, movedone>>
        /\ spc' = "moves"
    BY <1>14 DEF StallFail
  <2> QED
    BY <2>1, <2>2, QuietStep
<1>15. ASSUME NEW m \in movedone, drain_moves(m) PROVE Residency' /\ Kept
  BY <1>15, DrainMovesStep
<1> QED
  BY <1>1, <1>2, <1>3, <1>4, <1>5, <1>6, <1>7, <1>8, <1>9, <1>10, <1>11, <1>12, <1>13,
     <1>14, <1>15
  DEF Scheduler

\* The completion of a single read keeps Residency.
LEMMA DioStep ==
  ASSUME Typed, Residency, NEW i \in Elems, NEW r \in {"ok", "error"}, DioComplete(i, r)
  PROVE  Residency' /\ Kept
<1>1. /\ UNCHANGED <<slot, dir, content, moveq, movedone, spc, pass, active>>
      /\ load' = [load EXCEPT ![i] = Completed(load[i], r)]
      /\ load[i] \in Load /\ load[i] # None
  BY DEF DioComplete, passVars, actVars, moveVars, Typed, LoadCount
<1>2. Completed(load[i], r).key = load[i].key /\ Completed(load[i], r).slot = load[i].slot
  BY <1>1 DEF Completed, Load
<1>3. \A j \in Elems : load'[j] # None =>
        load[j] # None /\ load'[j].key = load[j].key /\ load'[j].slot = load[j].slot
  BY <1>1, <1>2 DEF Typed, TypeOK
<1> QED
  BY <1>1, <1>3, SameSlots, QuietStep

\* Residency is inductive relative to Typed, and no step touches a pinned slot.
LEMMA ResidencyStep == Typed /\ Residency /\ [Next]_vars => Residency' /\ Kept
<1> SUFFICES ASSUME Typed, Residency, [Next]_vars PROVE Residency' /\ Kept
  OBVIOUS
<1>1. CASE Exec
  BY <1>1, ResidencyExec
<1>2. CASE Scheduler
  BY <1>2, ResidencyScheduler
<1>3. CASE StallClock
  BY <1>3, SameSlots, QuietStep DEF StallClock, passVars, moveVars
<1>4. CASE Dio
  BY <1>4, DioStep DEF Dio
<1>5. CASE MoveWorker
  BY <1>5, CopyStep DEF MoveWorker
<1>6. CASE UNCHANGED vars
  BY <1>6, SameSlots, QuietStep DEF vars, passVars, actVars, moveVars
<1> QED
  BY <1>1, <1>2, <1>3, <1>4, <1>5, <1>6 DEF Next

\* Residency holds in every reachable state (all actions of scheduler.cpp).
THEOREM ResidencyInvariant == Spec => []Residency
  BY ResidencyInit, ResidencyStep, TypedInvariant, PTL DEF Spec

\* No expert is loaded or moved twice at once, and no slot serves two experts
\* (alloc_or_evict, drain_completions, drain_moves).
THEOREM OneCopy == Spec => []OneCopyOneSlot
<1>1. Residency => OneCopyOneSlot
  BY DEF Residency, Core
<1> QED
  BY <1>1, ResidencyInvariant, PTL

\* An entry that scan finds READY names a READY slot with the weights of that
\* very expert (drain_completions publishes the bytes before the entry).
THEOREM ReadyResident == Spec => []ReadyIsResident
<1>1. Residency => ReadyIsResident
  BY DEF Residency, Core
<1> QED
  BY <1>1, ResidencyInvariant, PTL

\* Between a pin and its unpin no eviction, reload, move or late completion
\* changes the state or the bytes of the slot.
THEOREM PinnedKept == Spec => PinnedSlotKept
<1>1. Typed /\ Residency /\ [Next]_vars => [Kept]_<<slot, content>>
  BY ResidencyStep
<1>2. PinnedSlotKept <=> [][Kept]_<<slot, content>>
  BY DEF PinnedSlotKept, Kept
<1> QED
  BY <1>1, <1>2, TypedInvariant, ResidencyInvariant, PTL DEF Spec
=============================================================================
