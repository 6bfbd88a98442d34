----------------------------- MODULE SlotProofs -----------------------------
(***************************************************************************)
(* Every slot comes back: for every size of model, pools and ring, what    *)
(* takes a slot of ExpertScheduler out of use is one load or one move that *)
(* is under way, or an I/O error; and a pass that finds no slot for an     *)
(* item waits for such a transfer, or errors have left fewer slots than a  *)
(* layer has experts.                                                      *)
(*                                                                         *)
(* Residency says that a transfer under way has its directory entry and    *)
(* its slot.  What is missing for both results is the converse, Backed: a  *)
(* slot or an entry that is in transit has its transfer, and a READY slot  *)
(* has its entry.                                                          *)
(***************************************************************************)
EXTENDS AccountingProofs

\* A slot that is being vacated is the source of a move ...
EvictingMoved == \A s \in Slots : slot[s].st = "EVICTING" => \E m \in Moves : m.src = s

\* ... and a READY slot is named by a READY entry.
ReadyNamed ==
  \A s \in Slots : slot[s].st = "READY" =>
    \E p \in Pools, k \in Keys : dir[p][k].st = "READY" /\ dir[p][k].slot = s

\* A LOADING entry has a load, or start_async_load is about to begin it.
LoadingBacked ==
  \A p \in Pools, k \in Keys : dir[p][k].st = "LOADING" =>
    \/ \E i \in Elems : load[i] # None /\ load[i].slot = dir[p][k].slot
    \/ spc = "load" /\ pass.slot = dir[p][k].slot

\* A MOVING_IN entry has a move.
MovingBacked ==
  \A p \in Pools, k \in Keys : dir[p][k].st = "MOVING_IN" =>
    \E m \in Moves : m.dst = dir[p][k].slot

\* accept_requests holds a slot between alloc_or_evict and start_async_load
\* only, and calls alloc_or_evict for an item the active request still needs.
PassHolds ==
  /\ spc # "load" => pass.slot = None
  /\ spc \in {"device", "ram"} => active.on /\ pass.cur \in active.still

SlotBacked == EvictingMoved /\ ReadyNamed /\ LoadingBacked /\ MovingBacked
Backed == SlotBacked /\ PassHolds

-----------------------------------------------------------------------------
\* Nothing is in transit and no slot is READY.
LEMMA BackedInit == Init => Backed
  BY ConstantWords
  DEF Init, Backed, SlotBacked, EvictingMoved, ReadyNamed, LoadingBacked, MovingBacked,
      PassHolds, Absent, NoPass

\* Steps that change neither the directory nor the state of a slot, and end no
\* transfer.
LEMMA StillBacked ==
  ASSUME SlotBacked, \A s \in Slots : slot'[s].st = slot[s].st, dir' = dir, Moves' = Moves,
         \A i \in Elems : load[i] # None => load'[i] # None /\ load'[i].slot = load[i].slot,
         spc = "load" => \/ spc' = "load" /\ pass' = pass
                         \/ \E i \in Elems : load'[i] # None /\ load'[i].slot = pass.slot
  PROVE  SlotBacked'
<1>1. EvictingMoved' /\ ReadyNamed' /\ MovingBacked'
  BY DEF SlotBacked, EvictingMoved, ReadyNamed, MovingBacked
<1>2. LoadingBacked'
  <2>1. ASSUME NEW p \in Pools, NEW k \in Keys, dir[p][k].st = "LOADING"
        PROVE  \/ \E i \in Elems : load'[i] # None /\ load'[i].slot = dir[p][k].slot
               \/ spc' = "load" /\ pass'.slot = dir[p][k].slot
    <3>1. \/ \E i \in Elems : load[i] # None /\ load[i].slot = dir[p][k].slot
          \/ spc = "load" /\ pass.slot = dir[p][k].slot
      BY <2>1 DEF SlotBacked, LoadingBacked
    <3> QED
      BY <3>1
  <2> QED
    BY <2>1 DEF LoadingBacked
<1> QED
  BY <1>1, <1>2 DEF SlotBacked

\* d is the directory without the READY copies in the slots S.
DroppedFrom(d, S) ==
  \A q \in Pools, j \in Keys :
    \/ d[q][j] = dir[q][j]
    \/ d[q][j].st = "ABSENT" /\ dir[q][j].st = "READY" /\ dir[q][j].slot \in S

\* alloc_or_evict gives slot s to key k, whose copies and whose victims' copies
\* were in the slots S: each of them is in transit now.
LEMMA TakeBacked ==
  ASSUME SlotBacked, spc # "load", NEW S, NEW s \in S,
         NEW d \in [Pools -> [Keys -> Entry]], DroppedFrom(d, S), s \in Slots,
         NEW p \in Pools, NEW k \in Keys, NEW st \in {"LOADING", "MOVING_IN"},
         d[p][k].st = "ABSENT", dir' = transition(d, p, k, st, s),
         \A t \in Slots : \/ t \notin S /\ slot'[t].st = slot[t].st
                          \/ slot'[t].st = "IO_INFLIGHT"
                          \/ slot'[t].st = "EVICTING" /\ \E m \in Moves' : m.src = t,
         load' = load, Moves \subseteq Moves',
         st = "LOADING" => spc' = "load" /\ pass'.slot = s,
         st = "MOVING_IN" => \E m \in Moves' : m.dst = s
  PROVE  SlotBacked'
<1>1. /\ dir'[p][k].st = st /\ dir'[p][k].slot = s
      /\ \A q \in Pools, j \in Keys : p # q \/ k # j => dir'[q][j] = d[q][j]
  <2>1. /\ dir'[p][k] = [st |-> st, slot |-> s]
        /\ \A q \in Pools, j \in Keys : p # q \/ k # j => dir'[q][j] = d[q][j]
    BY TransitionFacts
  <2> QED
    BY <2>1
<1>2. EvictingMoved'
  BY DEF SlotBacked, EvictingMoved
<1>3. ReadyNamed'
  <2>1. ASSUME NEW t \in Slots, slot'[t].st = "READY"
        PROVE  \E q \in Pools, j \in Keys : dir'[q][j].st = "READY" /\ dir'[q][j].slot = t
    <3>1. t \notin S /\ slot[t].st = "READY"
      BY <2>1
    <3>2. PICK q \in Pools, j \in Keys : dir[q][j].st = "READY" /\ dir[q][j].slot = t
      BY <3>1 DEF SlotBacked, ReadyNamed
    <3>3. d[q][j] = dir[q][j]
      BY <3>1, <3>2 DEF DroppedFrom
    <3>4. dir'[q][j] = dir[q][j]
      BY <1>1, <3>2, <3>3
    <3> QED
      BY <3>2, <3>4
  <2> QED
    BY <2>1 DEF ReadyNamed
<1>4. \A q \in Pools, j \in Keys :
        p # q \/ k # j => dir'[q][j] = dir[q][j] \/ dir'[q][j].st = "ABSENT"
  BY <1>1 DEF DroppedFrom
<1>5. LoadingBacked'
  <2>1. ASSUME NEW q \in Pools, NEW j \in Keys, dir'[q][j].st = "LOADING"
        PROVE  \/ \E i \in Elems : load[i] # None /\ load[i].slot = dir'[q][j].slot
               \/ spc' = "load" /\ pass'.slot = dir'[q][j].slot
    <3>1. CASE q = p /\ j = k
      BY <1>1, <2>1, <3>1
    <3>2. CASE ~(q = p /\ j = k)
      <4>1. dir'[q][j] = dir[q][j]
        BY <1>4, <2>1, <3>2
      <4> QED
        BY <2>1, <4>1 DEF SlotBacked, LoadingBacked
    <3> QED
      BY <3>1, <3>2
  <2> QED
    BY <2>1 DEF LoadingBacked
<1>6. MovingBacked'
  <2>1. ASSUME NEW q \in Pools, NEW j \in Keys, dir'[q][j].st = "MOVING_IN"
        PROVE  \E m \in Moves' : m.dst = dir'[q][j].slot
    <3>1. CASE q = p /\ j = k
      BY <1>1, <2>1, <3>1
    <3>2. CASE ~(q = p /\ j = k)
      <4>1. dir'[q][j] = dir[q][j]
        BY <1>4, <2>1, <3>2
      <4> QED
        BY <2>1, <4>1 DEF SlotBacked, MovingBacked
    <3> QED
      BY <3>1, <3>2
  <2> QED
    BY <2>1 DEF MovingBacked
<1> QED
  BY <1>2, <1>3, <1>5, <1>6 DEF SlotBacked

\* The transfer into slot s ends: its entry becomes READY, or is dropped.
LEMMA LandBacked ==
  ASSUME Sound, SlotBacked, NEW p \in Pools, NEW k \in Keys, NEW s \in Slots,
         dir[p][k].st \in {"LOADING", "MOVING_IN"}, dir[p][k].slot = s,
         NEW st \in {"READY", "ABSENT"}, NEW u \in Slots \cup {None},
         dir' = transition(dir, p, k, st, u), st = "READY" => u = s,
         \A t \in Slots : t # s => slot'[t].st = slot[t].st \/ slot'[t].st = "EMPTY",
         slot'[s].st # "EVICTING", slot'[s].st = "READY" => st = "READY",
         \A t \in Slots : slot'[t].st = "EVICTING" => \A m \in Moves : m.src = t => m \in Moves',
         \A i \in Elems : load[i] # None /\ load[i].slot # s =>
           load'[i] # None /\ load'[i].slot = load[i].slot,
         \A m \in Moves : m.dst # s => m \in Moves',
         spc = "load" => pass.slot = s
  PROVE  SlotBacked'
<1>1. /\ dir'[p][k].st = st /\ dir'[p][k].slot = u
      /\ \A q \in Pools, j \in Keys : p # q \/ k # j => dir'[q][j] = dir[q][j]
  <2>1. dir \in [Pools -> [Keys -> Entry]]
    BY DEF Sound, Typed, TypeOK
  <2>2. /\ dir'[p][k] = [st |-> st, slot |-> u]
        /\ \A q \in Pools, j \in Keys : p # q \/ k # j => dir'[q][j] = dir[q][j]
    BY <2>1, TransitionFacts
  <2> QED
    BY <2>2
<1>2. ASSUME NEW q \in Pools, NEW j \in Keys, dir'[q][j].st \in {"LOADING", "MOVING_IN"}
      PROVE  dir'[q][j] = dir[q][j] /\ dir[q][j].slot # s
  BY <1>1, <1>2 DEF Sound, Residency, Core, OneCopyOneSlot
<1>3. EvictingMoved'
  BY DEF SlotBacked, EvictingMoved
<1>4. ReadyNamed'
  <2>1. ASSUME NEW t \in Slots, slot'[t].st = "READY"
        PROVE  \E q \in Pools, j \in Keys : dir'[q][j].st = "READY" /\ dir'[q][j].slot = t
    <3>1. CASE t = s
      BY <1>1, <2>1, <3>1
    <3>2. CASE t # s
      <4>1. slot[t].st = "READY"
        BY <2>1, <3>2
      <4>2. PICK q \in Pools, j \in Keys : dir[q][j].st = "READY" /\ dir[q][j].slot = t
        BY <4>1 DEF SlotBacked, ReadyNamed
      <4>3. dir'[q][j] = dir[q][j]
        BY <1>1, <4>2
      <4> QED
        BY <4>2, <4>3
    <3> QED
      BY <3>1, <3>2
  <2> QED
    BY <2>1 DEF ReadyNamed
<1>5. LoadingBacked'
  <2>1. ASSUME NEW q \in Pools, NEW j \in Keys, dir'[q][j].st = "LOADING"
        PROVE  \E i \in Elems : load'[i] # None /\ load'[i].slot = dir'[q][j].slot
    <3>1. dir'[q][j] = dir[q][j] /\ dir[q][j].slot # s
      BY <1>2, <2>1
    <3>2. PICK i \in Elems : load[i] # None /\ load[i].slot = dir[q][j].slot
      BY <2>1, <3>1 DEF SlotBacked, LoadingBacked
    <3> QED
      BY <3>1, <3>2
  <2> QED
    BY <2>1 DEF LoadingBacked
<1>6. MovingBacked'
  <2>1. ASSUME NEW q \in Pools, NEW j \in Keys, dir'[q][j].st = "MOVING_IN"
        PROVE  \E m \in Moves' : m.dst = dir'[q][j].slot
    <3>1. dir'[q][j] = dir[q][j] /\ dir[q][j].slot # s
      BY <1>2, <2>1
    <3>2. PICK m \in Moves : m.dst = dir[q][j].slot
      BY <2>1, <3>1 DEF SlotBacked, MovingBacked
    <3> QED
      BY <3>1, <3>2
  <2> QED
    BY <2>1 DEF MovingBacked
<1> QED
  BY <1>3, <1>4, <1>5, <1>6 DEF SlotBacked

-----------------------------------------------------------------------------
\* Clearing the entry of a READY copy in S.
LEMMA DropFrom ==
  ASSUME NEW S, NEW d \in [Pools -> [Keys -> Entry]], DroppedFrom(d, S),
         NEW p \in Pools, NEW v \in Keys, dir[p][v].st = "READY", dir[p][v].slot \in S
  PROVE  DroppedFrom(transition(d, p, v, "ABSENT", None), S)
<1> DEFINE c == transition(d, p, v, "ABSENT", None)
<1>1. /\ c[p][v] = [st |-> "ABSENT", slot |-> None]
      /\ \A q \in Pools, j \in Keys : p # q \/ v # j => c[q][j] = d[q][j]
  BY TransitionFacts
<1> HIDE DEF c
<1>2. ASSUME NEW q \in Pools, NEW j \in Keys
      PROVE  \/ c[q][j] = dir[q][j]
             \/ c[q][j].st = "ABSENT" /\ dir[q][j].st = "READY" /\ dir[q][j].slot \in S
  <2>1. CASE q = p /\ j = v
    BY <1>1, <2>1
  <2>2. CASE ~(q = p /\ j = v)
    <3>1. c[q][j] = d[q][j]
      BY <1>1, <2>2
    <3> QED
      BY <3>1 DEF DroppedFrom
  <2> QED
    BY <2>1, <2>2
<1> QED
  BY <1>2 DEF DroppedFrom, c

\* A free slot taken for the item is on its way.
LEMMA FreeBacked ==
  ASSUME Sound, SlotBacked, spc \in {"device", "ram"}, NEW p \in Pools, NEW s, AllocFree(p, s)
  PROVE  SlotBacked'
<1>1. /\ s \in Slots /\ Item \in Keys /\ slot \in [Slots -> Word]
      /\ dir \in [Pools -> [Keys -> Entry]] /\ dir[p][Item].st = "ABSENT"
      /\ dir' = transition(dir, p, Item, "LOADING", s) /\ spc' = "load"
      /\ slot' = [slot EXCEPT ![s] = begin_reload]
      /\ pass' = [pass EXCEPT !.slot = s]
      /\ UNCHANGED <<load, moveq, movedone>>
  BY ConstantFacts, ItemInKeys
  DEF AllocFree, EmptySlots, Sound, Typed, TypeOK, Residency, ItemAbsent, moveVars
<1>2. pass'.slot = s /\ Moves' = Moves
  BY <1>1 DEF Sound, Typed, TypeOK, Pass, Moves
<1>3. \A t \in Slots : \/ t \notin {s} /\ slot'[t].st = slot[t].st
                       \/ slot'[t].st = "IO_INFLIGHT"
  BY <1>1, ConstantWords
<1>4. DroppedFrom(dir, {s})
  BY DEF DroppedFrom
<1> QED
  BY <1>1, <1>2, <1>3, <1>4, TakeBacked

\* So is the slot of an evicted copy.
LEMMA EvictBacked ==
  ASSUME Sound, SlotBacked, spc \in {"device", "ram"}, NEW p \in Pools, NEW v, AllocEvict(p, v)
  PROVE  SlotBacked'
<1> DEFINE d == transition(dir, p, v, "ABSENT", None)
           s == dir[p][v].slot
<1>1. /\ v \in Keys /\ s \in Slots /\ dir[p][v].st = "READY"
      /\ Item \in Keys /\ slot \in [Slots -> Word]
      /\ dir \in [Pools -> [Keys -> Entry]] /\ dir[p][Item].st = "ABSENT"
  BY VictimFacts, ItemInKeys DEF AllocEvict, Sound, Typed, TypeOK, Residency, ItemAbsent
<1>2. /\ dir' = transition(d, p, Item, "LOADING", s) /\ spc' = "load"
      /\ slot' = [slot EXCEPT ![s] = begin_reload]
      /\ pass' = [pass EXCEPT !.slot = s]
      /\ UNCHANGED <<load, moveq, movedone>>
  BY DEF AllocEvict, moveVars
<1>3. pass'.slot = s /\ Moves' = Moves
  BY <1>2 DEF Sound, Typed, TypeOK, Pass, Moves
<1>4. \A t \in Slots : \/ t \notin {s} /\ slot'[t].st = slot[t].st
                       \/ slot'[t].st = "IO_INFLIGHT"
  BY <1>1, <1>2, ConstantWords
<1>5. DroppedFrom(d, {s})
  <2>1. DroppedFrom(dir, {s})
    BY DEF DroppedFrom
  <2> QED
    BY <1>1, <2>1, DropFrom
<1>6. d \in [Pools -> [Keys -> Entry]]
  BY <1>1, TransitionFacts
<1> HIDE DEF d, s
<1>7. d[p][Item].st = "ABSENT" /\ spc # "load" /\ s \in {s}
  BY <1>1, <1>5 DEF DroppedFrom
<1> QED
  BY <1>1, <1>2, <1>3, <1>4, <1>5, <1>6, <1>7, TakeBacked

\* A demotion empties a device slot and fills a RAM slot, by the move it
\* submits.
LEMMA DemoteBacked ==
  ASSUME Sound, SlotBacked, spc = "device", NEW v \in Victims(active.layer, "dev"),
         NEW t \in RamSlots, NEW b \in [Pools -> [Keys -> Entry]],
         DroppedFrom(b, {dir["dev"][v].slot, t}),
         dir' = transition(b, "ram", v, "MOVING_IN", t),
         slot' = [slot EXCEPT ![dir["dev"][v].slot] = begin_evict(@), ![t] = begin_reload],
         moveq' = moveq \cup {[key |-> v, src |-> dir["dev"][v].slot, dst |-> t]},
         UNCHANGED <<load, movedone>>
  PROVE  SlotBacked'
<1> DEFINE s == dir["dev"][v].slot
           m == [key |-> v, src |-> s, dst |-> t]
<1>1. /\ v \in Keys /\ s \in Slots /\ s \in DevSlots /\ t \in Slots /\ t # s
      /\ "ram" \in Pools /\ "dev" \in Pools /\ dir["dev"][v].st = "READY"
  BY VictimFacts, ConstantFacts, SlotAssumption DEF Pools, PoolSlots, Sound
<1>2. b["ram"][v].st = "ABSENT"
  <2>1. dir["ram"][v].st = "ABSENT"
    BY <1>1 DEF Sound, Residency, Core, OneCopyOneSlot
  <2> QED
    BY <1>1, <2>1 DEF DroppedFrom
<1>3. m \in Moves' /\ m.src = s /\ m.dst = t /\ Moves \subseteq Moves'
  BY DEF Moves
<1>4. \A u \in Slots : \/ u \notin {s, t} /\ slot'[u].st = slot[u].st
                       \/ slot'[u].st = "IO_INFLIGHT"
                       \/ slot'[u].st = "EVICTING" /\ \E n \in Moves' : n.src = u
  <2>1. slot[s] \in Word /\ slot \in [Slots -> Word]
    BY <1>1 DEF Sound, Typed, TypeOK
  <2> HIDE DEF s, m
  <2>2. slot' = [[slot EXCEPT ![s] = begin_evict(slot[s])] EXCEPT ![t] = begin_reload]
    BY <1>1 DEF s
  <2>3. begin_evict(slot[s]).st = "EVICTING"
    BY <1>1, <2>1, WordFacts
  <2>4. /\ slot'[t].st = "IO_INFLIGHT" /\ slot'[s].st = "EVICTING"
        /\ \A u \in Slots : u # t /\ u # s => slot'[u] = slot[u]
    BY <1>1, <2>1, <2>2, <2>3, ConstantWords
  <2> QED
    BY <1>3, <2>4
<1> HIDE DEF s, m
<1>5. DroppedFrom(b, {s, t})
  BY DEF s
<1>6. "MOVING_IN" \in {"LOADING", "MOVING_IN"} /\ t \in {s, t} /\ spc # "load"
  OBVIOUS
<1> QED
  BY <1>1, <1>2, <1>3, <1>4, <1>5, <1>6, TakeBacked

\* Both ways to demote.
LEMMA DemotionsBacked ==
  ASSUME Sound, SlotBacked, NEW v \in Keys,
         (\E t \in RamSlots : DemoteToFree(v, t)) \/ (\E w \in Keys : DemoteEvicting(v, w))
  PROVE  SlotBacked'
<1> DEFINE a == transition(dir, "dev", v, "ABSENT", None)
           s == dir["dev"][v].slot
<1>1. /\ "ram" \in Pools /\ "dev" \in Pools /\ dir \in [Pools -> [Keys -> Entry]]
      /\ v \in Victims(active.layer, "dev") /\ dir["dev"][v].st = "READY"
  BY VictimFacts DEF DemoteToFree, DemoteEvicting, Sound, Typed, TypeOK, Pools
<1>2. ASSUME NEW t PROVE a \in [Pools -> [Keys -> Entry]] /\ DroppedFrom(a, {s, t})
  <2>1. DroppedFrom(dir, {s, t}) /\ s \in {s, t}
    BY DEF DroppedFrom
  <2>2. a \in [Pools -> [Keys -> Entry]]
    BY <1>1, TransitionFacts
  <2>3. DroppedFrom(a, {s, t})
    BY <1>1, <2>1, DropFrom
  <2> QED
    BY <2>2, <2>3
<1>3. ASSUME NEW t \in RamSlots, DemoteToFree(v, t) PROVE SlotBacked'
  BY <1>1, <1>2, <1>3, DemoteBacked DEF DemoteToFree
<1>4. ASSUME NEW w \in Keys, DemoteEvicting(v, w) PROVE SlotBacked'
  <2> DEFINE b == transition(a, "ram", w, "ABSENT", None)
             t == dir["ram"][w].slot
  <2>1. t \in RamSlots /\ dir["ram"][w].st = "READY"
    BY <1>1, <1>4, VictimFacts DEF DemoteEvicting, PoolSlots, Sound
  <2> HIDE DEF a
  <2>2. b \in [Pools -> [Keys -> Entry]] /\ DroppedFrom(b, {s, t})
    <3>1. a \in [Pools -> [Keys -> Entry]] /\ DroppedFrom(a, {s, t}) /\ t \in {s, t}
      BY <1>2
    <3>2. b \in [Pools -> [Keys -> Entry]]
      BY <1>1, <3>1, TransitionFacts
    <3>3. DroppedFrom(b, {s, t})
      BY <1>1, <2>1, <3>1, DropFrom
    <3> QED
      BY <3>2, <3>3
  <2>3. /\ dir' = transition(b, "ram", v, "MOVING_IN", t) /\ spc = "device"
        /\ slot' = [slot EXCEPT ![dir["dev"][v].slot] = begin_evict(@), ![t] = begin_reload]
        /\ moveq' = moveq \cup {[key |-> v, src |-> dir["dev"][v].slot, dst |-> t]}
        /\ UNCHANGED <<load, movedone>>
    BY <1>4 DEF DemoteEvicting, a
  <2> HIDE DEF b, t
  <2> QED
    BY <1>1, <2>1, <2>2, <2>3, DemoteBacked
<1> QED
  BY <1>3, <1>4

-----------------------------------------------------------------------------
\* A read is drained: nothing lands unless it was the last one of its load.
LEMMA DrainBacked ==
  ASSUME Sound, SlotBacked, NEW i \in Elems, NEW r \in {"ok", "error"},
         drain_completions(i, r)
  PROVE  SlotBacked'
<1> DEFINE x == Drained(load[i], r)
<1> USE DEF execVars, passVars, actVars, moveVars, Sound
<1>1. /\ load[i] \in Load /\ load[i] # None /\ spc = "drain" /\ spc' = "drain"
      /\ IF r = "ok" THEN load[i].ok > 0 ELSE load[i].bad > 0
  BY DEF drain_completions, Typed, LoadCount
<1>2. x \in Load /\ x.key = load[i].key /\ x.slot = load[i].slot
  BY <1>1, DrainedFacts
<1>3. /\ UNCHANGED <<moveq, movedone>>
      /\ IF x.io + x.ok + x.bad > 0
         THEN /\ load' = [load EXCEPT ![i] = x]
              /\ UNCHANGED <<slot, content, dir, await, actVars>>
         ELSE /\ load' = [load EXCEPT ![i] = None]
              /\ IF x.failed THEN SettleFailed(x) ELSE SettleLoaded(x)
  BY DEF drain_completions
<1>4. x # None
  BY <1>2, EmptyAssumption
<1> HIDE DEF x
<1> DEFINE p == PoolOf(x.slot)
           s == x.slot
<1>5. /\ s \in Slots /\ x.key \in Keys /\ p \in Pools
      /\ slot \in [Slots -> Word] /\ slot[s] \in Word
  BY <1>2, ConstantFacts DEF Load, Typed, TypeOK
<1>6. dir[p][x.key].st = "LOADING" /\ dir[p][x.key].slot = s
  <2>1. dir[p][x.key] = [st |-> "LOADING", slot |-> s]
    BY <1>1, <1>2 DEF Residency, Core, LoadsPublished
  <2> QED
    BY <2>1
<1>7. slot[s].st = "IO_INFLIGHT"
  BY <1>5, <1>6 DEF Residency, Core, ComingSlots
<1>8. Moves' = Moves
  BY <1>3 DEF Moves
<1>9. \A j \in Elems : load[j] # None /\ load[j].slot # s => j # i
  BY <1>2
<1>10. CASE x.io + x.ok + x.bad > 0
  <2>1. /\ load' = [load EXCEPT ![i] = x] /\ UNCHANGED <<slot, dir>>
        /\ load \in [Elems -> Load \cup {None}]
    BY <1>3, <1>10 DEF Typed, TypeOK
  <2>2. \A j \in Elems : load[j] # None => load'[j] # None /\ load'[j].slot = load[j].slot
    BY <1>2, <1>4, <2>1
  <2> QED
    BY <1>1, <1>8, <2>1, <2>2, StillBacked
<1>11. CASE ~(x.io + x.ok + x.bad > 0)
  <2>1. load' = [load EXCEPT ![i] = None] /\ load \in [Elems -> Load \cup {None}]
    BY <1>3, <1>11 DEF Typed, TypeOK
  <2>2. \A j \in Elems : load[j] # None /\ load[j].slot # s =>
          load'[j] # None /\ load'[j].slot = load[j].slot
    BY <1>9, <2>1
  <2>3. CASE x.failed
    <3> DEFINE sl == [slot EXCEPT ![s] = mark_failed(@)]
    <3>1. /\ sl \in [Slots -> Word] /\ sl[s].st = "FAILED"
          /\ \A t \in Slots : t # s => sl[t] = slot[t]
      BY <1>5, WordFacts
    <3>2. dir' = transition(dir, p, x.key, "ABSENT", None)
      BY <1>3, <1>11, <2>3 DEF SettleFailed
    <3>3. active_fail(sl) \/ slot' = sl
      BY <1>3, <1>11, <2>3 DEF SettleFailed
    <3> HIDE DEF sl
    <3>4. \A t \in Slots : slot'[t].st = sl[t].st
      BY <3>1, <3>3, ActiveFailFacts DEF Typed, SlotStep
    <3> HIDE DEF p, s
    <3> QED
      BY <1>1, <1>5, <1>6, <1>8, <2>2, <3>1, <3>2, <3>4, LandBacked
  <2>4. CASE ~x.failed
    <3> DEFINE sl == [slot EXCEPT ![s] = mark_ready(@)]
    <3>1. /\ sl \in [Slots -> Word] /\ sl[s].st = "READY"
          /\ \A t \in Slots : t # s => sl[t] = slot[t]
      BY <1>5, <1>7, WordFacts
    <3>2. dir' = transition(dir, p, x.key, "READY", s) /\ active_settle(x.key, s, sl)
      BY <1>3, <1>11, <2>4 DEF SettleLoaded
    <3> HIDE DEF sl
    <3>3. \A t \in Slots : slot'[t].st = sl[t].st
      BY <1>5, <3>1, <3>2, ActiveSettleFacts DEF Typed, SlotStep
    <3> HIDE DEF p, s
    <3> QED
      BY <1>1, <1>5, <1>6, <1>8, <2>2, <3>1, <3>2, <3>3, LandBacked
  <2> QED
    BY <2>3, <2>4
<1> QED
  BY <1>10, <1>11

\* A move ends: its copy lands in RAM, its source is EMPTY.
LEMMA MovedBacked ==
  ASSUME Sound, SlotBacked, NEW m \in movedone, drain_moves(m)
  PROVE  SlotBacked'
<1> USE DEF Sound
<1> DEFINE sl == [slot EXCEPT ![m.dst] = mark_ready(@), ![m.src] = release_to_empty]
<1>1. /\ m \in Moves /\ m \in Move /\ m.key \in Keys /\ m.dst \in RamSlots /\ m.dst \in Slots
      /\ m.src \in Slots /\ m.src # m.dst /\ "ram" \in Pools
  BY ConstantFacts, SlotAssumption DEF Typed, TypeOK, Moves, Move, Pools
<1>2. dir["ram"][m.key].st = "MOVING_IN" /\ dir["ram"][m.key].slot = m.dst
  <2>1. dir["ram"][m.key] = [st |-> "MOVING_IN", slot |-> m.dst]
    BY <1>1 DEF Residency, Core, MovesPublished
  <2> QED
    BY <2>1
<1>3. slot \in [Slots -> Word] /\ slot[m.dst] \in Word /\ slot[m.dst].st = "IO_INFLIGHT"
  BY <1>1, <1>2 DEF Typed, TypeOK, Residency, Core, ComingSlots
<1>4. /\ sl \in [Slots -> Word] /\ sl[m.dst].st = "READY" /\ sl[m.src].st = "EMPTY"
      /\ \A t \in Slots : t # m.dst /\ t # m.src => sl[t] = slot[t]
  <2>1. /\ sl \in [Slots -> Word] /\ sl[m.dst] = mark_ready(slot[m.dst])
        /\ sl[m.src] = release_to_empty
        /\ \A t \in Slots : t # m.dst /\ t # m.src => sl[t] = slot[t]
    BY <1>1, <1>3, WordFacts, ConstantWords
  <2>2. sl[m.dst].st = "READY" /\ sl[m.src].st = "EMPTY"
    BY <1>3, <2>1, WordFacts, ConstantWords
  <2> QED
    BY <2>1, <2>2
<1>5. /\ active_settle(m.key, m.dst, sl)
      /\ dir' = transition(dir, "ram", m.key, "READY", m.dst)
      /\ movedone' = movedone \ {m} /\ moveq' = moveq
      /\ load' = load /\ spc = "moves"
  BY DEF drain_moves, passVars
<1> HIDE DEF sl
<1>6. \A t \in Slots : slot'[t].st = sl[t].st
  BY <1>1, <1>4, <1>5, ActiveSettleFacts DEF Typed, SlotStep
<1>7. /\ \A t \in Slots : t # m.dst => slot'[t].st = slot[t].st \/ slot'[t].st = "EMPTY"
      /\ slot'[m.dst].st = "READY" /\ slot'[m.src].st = "EMPTY"
  BY <1>1, <1>4, <1>6
<1>8. \A n \in Moves : n # m => n \in Moves'
  BY <1>5 DEF Moves
<1>9. \A n \in Moves : n.dst # m.dst => n \in Moves'
  BY <1>8
<1>10. \A t \in Slots : slot'[t].st = "EVICTING" => \A n \in Moves : n.src = t => n \in Moves'
  BY <1>7, <1>8
<1> QED
  BY <1>1, <1>2, <1>5, <1>7, <1>9, <1>10, LandBacked

\* submit_batch accepted nothing: the entry of the claimed slot is dropped.
LEMMA RefusedBacked ==
  ASSUME Sound, SlotBacked, LoadRefused
  PROVE  SlotBacked'
<1> USE DEF Sound
<1> DEFINE p == PoolOf(pass.slot)
           s == pass.slot
<1>1. Item \in Keys /\ s \in Slots /\ p \in Pools
  BY ItemInKeys, ConstantFacts DEF LoadRefused, Typed, PassSlot
<1>2. dir[p][Item].st = "LOADING" /\ dir[p][Item].slot = s
  <2>1. dir[p][Item] = [st |-> "LOADING", slot |-> s]
    BY DEF LoadRefused, Residency, PassPublished
  <2> QED
    BY <2>1
<1>3. slot[s].st = "IO_INFLIGHT"
  BY <1>1, <1>2 DEF Residency, Core, ComingSlots
<1>4. /\ dir' = transition(dir, p, Item, "ABSENT", None)
      /\ UNCHANGED <<slot, load, moveq, movedone>>
  BY DEF LoadRefused, moveVars
<1>5. Moves' = Moves
  BY <1>4 DEF Moves
<1> HIDE DEF p
<1> QED
  BY <1>1, <1>2, <1>3, <1>4, <1>5, LandBacked

-----------------------------------------------------------------------------
\* pin_layer and unpin change refcounts of the slots, and nothing of the
\* scheduler or of what is in flight.
LEMMA ExecQuiet ==
  ASSUME Sound, Exec
  PROVE  /\ UNCHANGED <<dir, load, moveq, movedone, spc, pass, active>>
         /\ \A s \in Slots : slot'[s].st = slot[s].st
<1> USE DEF execVars, passVars, actVars, moveVars, Sound
<1>1. UNCHANGED <<dir, load, moveq, movedone, spc, pass, active>>
  BY Zenon DEF Exec, PinBegin, PinScan, PinHit, PinSubmit, PinFailed, PinWake, PinCollect,
               PinReturn, Unpin
<1>2. slot \in [Slots -> Word]
  BY DEF Typed, TypeOK
<1>3. CASE PinScan /\ slot' # slot
  <2> DEFINE s == scan(<<elayer, Least(visit)>>)
  <2>1. slot' = [slot EXCEPT ![s] = pinned(@)]
    BY <1>3 DEF PinScan
  <2> HIDE DEF s
  <2>2. s \in Slots => pinned(slot[s]).st = slot[s].st
    BY <1>2, WordFacts
  <2>3. \A t \in Slots : slot'[t].st = slot[t].st
    BY <1>2, <2>1, <2>2
  <2> QED
    BY <1>1, <2>3
<1>4. CASE slot' = unpin_all(handle)
  BY <1>1, <1>2, <1>4, UnpinAllFacts
<1>5. slot' = slot \/ PinScan \/ slot' = unpin_all(handle)
  BY Zenon DEF Exec, PinBegin, PinHit, PinSubmit, PinFailed, PinWake, PinCollect, PinReturn, Unpin
<1> QED
  BY <1>1, <1>3, <1>4, <1>5

\* Steps that leave the slots, the directory and everything in flight alone,
\* and do not leave the claimed slot of a pass behind.
LEMMA IdleBacked ==
  ASSUME SlotBacked, \A s \in Slots : slot'[s].st = slot[s].st,
         UNCHANGED <<dir, load, moveq, movedone>>,
         spc = "load" => spc' = "load" /\ pass' = pass
  PROVE  SlotBacked'
<1>1. Moves' = Moves
  BY DEF Moves
<1> QED
  BY <1>1, StillBacked

\* pin_layer and unpin keep Backed.
LEMMA ExecBacked == ASSUME Sound, Backed, Exec PROVE Backed'
<1>1. SlotBacked'
  BY ExecQuiet, IdleBacked DEF Backed
<1>2. PassHolds'
  BY ExecQuiet DEF Backed, PassHolds
<1> QED
  BY <1>1, <1>2 DEF Backed

\* The active items may shrink only outside alloc_or_evict.
LEMMA OutsideHolds ==
  ASSUME PassHolds, spc' \notin {"device", "ram", "load"}, pass'.slot = None
  PROVE  PassHolds'
  BY DEF PassHolds

\* One turn of the serve loop.
LEMMA ServeBacked == ASSUME Sound, Accounted, Backed, ServeItem PROVE Backed'
<1> USE DEF Sound, execVars, passVars, actVars, moveVars
<1> DEFINE e == Least(Todo)
           k == <<active.layer, e>>
<1>1. e \in Todo /\ e \in active.still /\ e \in Experts
  <2>1. Todo \subseteq Experts /\ Todo # {} /\ Todo \subseteq active.still
    BY DEF ServeItem, Typed, TypeOK, Todo, Pass
  <2> QED
    BY <2>1, LeastInSet, ConstantFacts
<1>2. active.on
  <2>1. ~active.on => active = NoActive
    BY DEF Accounted, CallStage
  <2>2. NoActive.still = {}
    BY DEF NoActive
  <2> QED
    BY <1>1, <2>1, <2>2
<1>3. k \in Keys /\ scan(k) \in Slots \cup {None}
  BY <1>1, ConstantFacts, ScanType DEF Typed, TypeOK, Active
<1>4. /\ UNCHANGED <<dir, load, moveq, movedone>> /\ spc = "serve"
      /\ pass' = [pass EXCEPT !.visit = @ \ {e}, !.cur = e, !.slot = None]
  BY DEF ServeItem
<1>5. pass'.cur = e /\ pass'.slot = None
  BY <1>4 DEF Typed, TypeOK, Pass
<1>6. CASE scan(k) # None
  <2>1. active_settle(k, scan(k), slot) /\ spc' = "serve"
    BY <1>6 DEF ServeItem
  <2>2. \A s \in Slots : slot'[s].st = slot[s].st
    BY <1>3, <1>6, <2>1, ActiveSettleFacts DEF Typed, TypeOK, SlotStep
  <2> QED
    BY <1>4, <1>5, <2>1, <2>2, IdleBacked, OutsideHolds DEF Backed
<1>7. CASE scan(k) = None
  <2>1. /\ UNCHANGED <<slot, active>>
        /\ spc' = IF \E p \in Pools : dir[p][k].st # "ABSENT" THEN "serve"
                  ELSE IF DevSlots # {} THEN "device" ELSE "ram"
    BY <1>7 DEF ServeItem
  <2>2. PassHolds'
    BY <1>1, <1>2, <1>5, <2>1 DEF PassHolds
  <2> QED
    BY <1>4, <2>1, <2>2, IdleBacked DEF Backed
<1> QED
  BY <1>6, <1>7

\* A popped request: READY slots are pinned, a pass begins.
LEMMA RegisterBacked == ASSUME Sound, Backed, active_register PROVE Backed'
<1>1. \A s \in Slots : slot'[s].st = slot[s].st
  <2>1. ASSUME NEW s \in Slots PROVE pinned(slot[s]).st = slot[s].st
    BY WordFacts DEF Sound, Typed, TypeOK
  <2> QED
    BY <2>1 DEF active_register
<1>2. /\ UNCHANGED <<dir, load, moveq, movedone>> /\ spc = "accept" /\ spc' = "serve"
      /\ pass'.slot = None
  BY DEF active_register, moveVars, NoPass
<1> QED
  BY <1>1, <1>2, IdleBacked, OutsideHolds DEF Backed

\* The load of the claimed slot begins.
LEMMA StartBacked ==
  ASSUME Sound, Backed, NEW i \in Elems, NEW n \in 0 .. NSlices, start_async_load(i, n)
  PROVE  Backed'
<1> DEFINE x == [key |-> Item, slot |-> pass.slot, io |-> n, ok |-> 0, bad |-> 0,
                 failed |-> n < NSlices]
<1>1. /\ load[i] = None /\ load' = [load EXCEPT ![i] = x] /\ spc' = "serve"
      /\ UNCHANGED <<slot, dir, moveq, movedone>>
      /\ pass' = [pass EXCEPT !.slot = None, !.started = TRUE]
  BY DEF start_async_load, moveVars
<1>2. x \in Load /\ x.slot = pass.slot
  BY ItemInKeys, SizeAssumption DEF start_async_load, Sound, Typed, TypeOK, PassSlot, Load
<1>3. x # None
  BY <1>2, EmptyAssumption
<1> HIDE DEF x
<1>4. /\ load'[i] # None /\ load'[i].slot = pass.slot /\ pass'.slot = None
      /\ \A j \in Elems : load[j] # None => load'[j] # None /\ load'[j].slot = load[j].slot
  BY <1>1, <1>2, <1>3 DEF Sound, Typed, TypeOK, Pass
<1>5. Moves' = Moves
  BY <1>1 DEF Moves
<1>6. SlotBacked'
  BY <1>1, <1>4, <1>5, StillBacked DEF Backed
<1> QED
  BY <1>1, <1>4, <1>6, OutsideHolds DEF Backed

\* A read completes.
LEMMA DioBacked ==
  ASSUME Sound, Backed, NEW i \in Elems, NEW r \in {"ok", "error"}, DioComplete(i, r)
  PROVE  Backed'
<1> DEFINE y == Completed(load[i], r)
<1>1. /\ UNCHANGED <<slot, dir, moveq, movedone, spc, pass, active>>
      /\ load' = [load EXCEPT ![i] = y] /\ load \in [Elems -> Load \cup {None}]
      /\ load[i] \in Load /\ load[i].io > 0
      /\ load[i].io + load[i].ok + load[i].bad \in 1 .. NSlices
  BY DEF DioComplete, passVars, actVars, moveVars, Sound, Typed, TypeOK, LoadCount
<1>2. y \in Load /\ y.slot = load[i].slot
  BY <1>1, CompletedFacts
<1>3. y # None
  BY <1>2, EmptyAssumption
<1> HIDE DEF y
<1>4. \A j \in Elems : load[j] # None => load'[j] # None /\ load'[j].slot = load[j].slot
  BY <1>1, <1>2, <1>3
<1>5. Moves' = Moves
  BY <1>1 DEF Moves
<1>6. SlotBacked'
  BY <1>1, <1>4, <1>5, StillBacked DEF Backed
<1>7. PassHolds'
  BY <1>1 DEF Backed, PassHolds
<1> QED
  BY <1>6, <1>7 DEF Backed

\* Every step of worker_loop keeps Backed.
LEMMA BackedScheduler == ASSUME Sound, Accounted, Backed, Scheduler PROVE Backed'
<1> USE DEF passVars, moveVars
<1>1. pass \in Pass /\ NoPass.slot = None /\ (spc # "load" => pass.slot = None)
  BY DEF Sound, Typed, TypeOK, Backed, PassHolds, NoPass
<1>2. ASSUME NEW i \in Elems, NEW r \in {"ok", "error"}, drain_completions(i, r)
      PROVE  Backed'
  <2>1. spc = "drain" /\ spc' = "drain" /\ pass' = pass
    BY <1>2 DEF drain_completions
  <2> QED
    BY <1>1, <1>2, <2>1, DrainBacked, OutsideHolds DEF Backed
<1>3. CASE DrainEnd \/ AcceptActive \/ AcceptNothing \/ MovesEnd \/ ServeEnd \/ RamNone
  <2>1. /\ UNCHANGED <<slot, dir, load, moveq, movedone>>
        /\ spc' \notin {"load", "device", "ram"} /\ spc # "load"
    BY <1>3
    DEF DrainEnd, AcceptActive, AcceptNothing, MovesEnd, ServeEnd, PassOver, RamNone
  <2>2. pass'.slot = None
    BY <1>1, <1>3
    DEF DrainEnd, AcceptActive, AcceptNothing, MovesEnd, ServeEnd, PassOver, RamNone,
        NoPass, Pass
  <2> QED
    BY <2>1, <2>2, IdleBacked, OutsideHolds DEF Backed
<1>4. CASE active_register
  BY <1>4, RegisterBacked
<1>5. CASE ServeItem
  BY <1>5, ServeBacked
<1>6. ASSUME NEW v \in Keys,
             (\E t \in RamSlots : DemoteToFree(v, t)) \/ (\E w \in Keys : DemoteEvicting(v, w))
      PROVE  Backed'
  <2>1. spc = "device" /\ spc' = "ram" /\ pass' = pass /\ active' = active
    BY <1>6 DEF DemoteToFree, DemoteEvicting, actVars
  <2>2. PassHolds'
    BY <2>1 DEF Backed, PassHolds
  <2>3. SlotBacked'
    BY <1>6, DemotionsBacked DEF Backed
  <2> QED
    BY <2>2, <2>3 DEF Backed
<1>7. ASSUME NEW p \in Pools, spc \in {"device", "ram"},
             (\E s \in PoolSlots(p) : AllocFree(p, s)) \/ (\E v \in Keys : AllocEvict(p, v))
      PROVE  Backed'
  <2>1. spc' = "load"
    BY <1>7 DEF AllocFree, AllocEvict
  <2>2. SlotBacked'
    BY <1>7, FreeBacked, EvictBacked DEF Backed
  <2> QED
    BY <2>1, <2>2 DEF Backed, PassHolds
<1>8. CASE \/ \E v \in Keys : DemoteDrop(v)
           \/ \E s \in DevSlots : DeviceFree(s)
           \/ \E s \in RamSlots : RamFree(s)
           \/ \E v \in Keys : RamEvict(v)
  BY <1>7, <1>8 DEF DemoteDrop, DeviceFree, RamFree, RamEvict, Pools, PoolSlots
<1>9. CASE DeviceNone
  <2>1. /\ UNCHANGED <<slot, dir, load, moveq, movedone, pass, active>>
        /\ spc = "device" /\ spc' = "ram"
    BY <1>9 DEF DeviceNone, actVars
  <2>2. PassHolds'
    BY <2>1 DEF Backed, PassHolds
  <2> QED
    BY <2>1, <2>2, IdleBacked DEF Backed
<1>10. ASSUME NEW i \in Elems, NEW n \in 0 .. NSlices, start_async_load(i, n)
       PROVE  Backed'
  BY <1>10, StartBacked
<1>11. CASE LoadRefused
  <2>1. spc' = "serve" /\ pass'.slot = None
    BY <1>1, <1>11 DEF LoadRefused, Pass
  <2> QED
    BY <1>11, <2>1, RefusedBacked, OutsideHolds DEF Backed
<1>12. CASE StallFail
  <2>1. \A s \in Slots : slot'[s].st = slot[s].st
    BY <1>12, ActiveFailFacts DEF StallFail, Sound, Typed, TypeOK, SlotStep
  <2>2. /\ UNCHANGED <<dir, load, moveq, movedone>> /\ spc = "serve" /\ spc' = "moves"
        /\ pass'.slot = None
    BY <1>12 DEF StallFail, PassOver, NoPass
  <2> QED
    BY <2>1, <2>2, IdleBacked, OutsideHolds DEF Backed
<1>13. ASSUME NEW m \in movedone, drain_moves(m) PROVE Backed'
  <2>1. spc = "moves" /\ spc' = "moves" /\ pass' = pass
    BY <1>13 DEF drain_moves
  <2> QED
    BY <1>1, <1>13, <2>1, MovedBacked, OutsideHolds DEF Backed
<1> QED
  BY <1>2, <1>3, <1>4, <1>5, <1>6, <1>8, <1>9, <1>10, <1>11, <1>12, <1>13 DEF Scheduler

\* Backed is inductive relative to Sound and Accounted.
LEMMA BackedStep == Sound /\ Accounted /\ Backed /\ [Next]_vars => Backed'
<1> SUFFICES ASSUME Sound, Accounted, Backed, [Next]_vars PROVE Backed'
  OBVIOUS
<1>1. CASE Exec
  BY <1>1, ExecBacked
<1>2. CASE Scheduler
  BY <1>2, BackedScheduler
<1>3. CASE StallClock \/ UNCHANGED vars
  <2>1. UNCHANGED <<slot, dir, load, moveq, movedone, spc, pass, active>>
    BY <1>3 DEF StallClock, vars, passVars, actVars, moveVars
  <2>2. PassHolds'
    BY <2>1 DEF Backed, PassHolds
  <2> QED
    BY <2>1, <2>2, IdleBacked DEF Backed
<1>4. CASE Dio
  BY <1>4, DioBacked DEF Dio
<1>5. ASSUME NEW m \in moveq, MoveCopy(m) PROVE Backed'
  <2>1. /\ UNCHANGED <<slot, dir, load, spc, pass, active>> /\ Moves' = Moves
    BY <1>5 DEF MoveCopy, passVars, actVars, Moves
  <2>2. PassHolds'
    BY <2>1 DEF Backed, PassHolds
  <2> QED
    BY <2>1, <2>2, StillBacked DEF Backed
<1> QED
  BY <1>1, <1>2, <1>3, <1>4, <1>5 DEF Next, MoveWorker

\* Every slot and entry in transit has its transfer in every reachable state
\* (alloc_or_evict, start_async_load, drain_completions, drain_moves).
THEOREM BackedInvariant == Spec => []Backed
<1>1. Init => Backed
  BY BackedInit
<1>2. Sound /\ Accounted /\ Backed /\ [Next]_vars => Backed'
  BY BackedStep
<1> QED
  BY <1>1, <1>2, SoundInvariant, AccountedInvariant, PTL DEF Spec

-----------------------------------------------------------------------------
\* A load, a move or the pass itself is about to fill slot s.
Coming(s) == \/ \E i \in Elems : load[i] # None /\ load[i].slot = s
             \/ \E m \in Moves : m.dst = s
             \/ pass.slot = s

\* A set in which any two elements are the same.
LEMMA AtMostOne ==
  ASSUME NEW S, \A x, y \in S : x = y
  PROVE  Cardinality(S) = IF S = {} THEN 0 ELSE 1
<1>1. CASE S = {}
  BY <1>1, FS_EmptySet
<1>2. CASE S # {}
  <2>1. PICK x : x \in S
    BY <1>2
  <2>2. S = {x}
    BY <2>1
  <2> QED
    BY <1>2, <2>2, FS_Singleton
<1> QED
  BY <1>1, <1>2

\* A load and a move under way, and their directory entries.
LEMMA LoadEntry ==
  ASSUME Sound, NEW i \in Elems, load[i] # None
  PROVE  LET p == PoolOf(load[i].slot)
         IN  /\ load[i].key \in Keys /\ load[i].slot \in Slots /\ p \in Pools
             /\ dir[p][load[i].key].st = "LOADING" /\ dir[p][load[i].key].slot = load[i].slot
<1> DEFINE p == PoolOf(load[i].slot)
<1>1. load[i].key \in Keys /\ load[i].slot \in Slots
  BY DEF Sound, Typed, LoadCount, Load
<1>2. p \in Pools
  BY <1>1, ConstantFacts
<1>3. dir[p][load[i].key] = [st |-> "LOADING", slot |-> load[i].slot]
  BY DEF Sound, Residency, Core, LoadsPublished
<1>4. dir[p][load[i].key].st = "LOADING" /\ dir[p][load[i].key].slot = load[i].slot
  BY <1>3
<1> QED
  BY <1>1, <1>2, <1>4

\* The same for a move.
LEMMA MoveEntry ==
  ASSUME Sound, NEW m \in Moves
  PROVE  /\ m.key \in Keys /\ m.dst \in RamSlots /\ m.dst \in Slots /\ m.src \in Slots
         /\ dir["ram"][m.key].st = "MOVING_IN" /\ dir["ram"][m.key].slot = m.dst
         /\ slot[m.src].st = "EVICTING"
<1>1. m.key \in Keys /\ m.dst \in RamSlots /\ m.dst \in Slots /\ m.src \in Slots
  BY ConstantFacts DEF Sound, Typed, TypeOK, Moves, Move
<1>2. dir["ram"][m.key] = [st |-> "MOVING_IN", slot |-> m.dst] /\ slot[m.src].st = "EVICTING"
  BY DEF Sound, Residency, Core, MovesPublished
<1>3. dir["ram"][m.key].st = "MOVING_IN" /\ dir["ram"][m.key].slot = m.dst
  BY <1>2
<1> QED
  BY <1>1, <1>2, <1>3

\* The slot of the pass is claimed, and published.
LEMMA PassEntry ==
  ASSUME Sound, Backed, pass.slot \in Slots
  PROVE  /\ spc = "load" /\ Item \in Keys /\ PoolOf(pass.slot) \in Pools
         /\ dir[PoolOf(pass.slot)][Item].st = "LOADING"
         /\ dir[PoolOf(pass.slot)][Item].slot = pass.slot
<1>1. spc = "load"
  BY SlotAssumption DEF Backed, PassHolds
<1>2. dir[PoolOf(pass.slot)][Item] = [st |-> "LOADING", slot |-> pass.slot]
  BY <1>1 DEF Sound, Residency, PassPublished
<1>3. /\ dir[PoolOf(pass.slot)][Item].st = "LOADING"
      /\ dir[PoolOf(pass.slot)][Item].slot = pass.slot
  BY <1>2
<1> QED
  BY <1>1, <1>3, ItemInKeys, ConstantFacts DEF Sound, Typed

\* How many transfers go into a slot and out of it.
LEMMA TransferFacts ==
  ASSUME Sound, Backed, NEW s \in Slots
  PROVE  /\ Inbound(s) = IF Coming(s) THEN 1 ELSE 0
         /\ Coming(s) => slot[s].st = "IO_INFLIGHT"
         /\ Outbound(s) = IF slot[s].st = "EVICTING" THEN 1 ELSE 0
<1> DEFINE A == {i \in Elems : load[i] # None /\ load[i].slot = s}
           B == {m \in Moves : m.dst = s}
           C == {m \in Moves : m.src = s}
<1>1. Cardinality(A) = IF A = {} THEN 0 ELSE 1
  <2>1. \A i, j \in A : i = j
    BY DEF Sound, Residency, Core, LoadsApart
  <2> HIDE DEF A
  <2> QED
    BY <2>1, AtMostOne
<1>2. ASSUME NEW m \in B, NEW n \in B PROVE m = n
  <2>1. m.key = n.key
    BY <1>2, MoveEntry DEF Pools, Sound, Residency, Core, OneCopyOneSlot
  <2> QED
    BY <1>2, <2>1 DEF Sound, Residency, Core, MovesApart
<1>3. Cardinality(B) = IF B = {} THEN 0 ELSE 1
  <2> HIDE DEF B
  <2> QED
    BY <1>2, AtMostOne
<1>4. Cardinality(C) = IF C = {} THEN 0 ELSE 1
  <2>1. \A m, n \in C : m = n
    BY DEF Sound, Residency, Core, MovesApart
  <2> HIDE DEF C
  <2> QED
    BY <2>1, AtMostOne
<1>5. ASSUME NEW p \in Pools, NEW k \in Keys, dir[p][k].st = "LOADING", dir[p][k].slot = s
      PROVE  B = {}
  <2>1. ASSUME NEW m \in B PROVE FALSE
    BY <1>5, <2>1, MoveEntry DEF Pools, Sound, Residency, Core, OneCopyOneSlot
  <2> QED
    BY <2>1
<1>6. A # {} => B = {} /\ pass.slot # s
  <2>1. ASSUME NEW i \in A PROVE B = {} /\ pass.slot # s
    <3>1. B = {}
      BY <1>5, <2>1, LoadEntry
    <3>2. pass.slot # s
      BY <2>1, PassEntry DEF Sound, Residency, PassPublished
    <3> QED
      BY <3>1, <3>2
  <2> QED
    BY <2>1
<1>7. pass.slot = s => B = {}
  BY <1>5, PassEntry
<1>8. Coming(s) <=> A # {} \/ B # {} \/ pass.slot = s
  BY DEF Coming
<1>9. Inbound(s) = Cardinality(A) + Cardinality(B) + (IF pass.slot = s THEN 1 ELSE 0)
  BY DEF Inbound
<1>10. Inbound(s) = IF Coming(s) THEN 1 ELSE 0
  <2> HIDE DEF A, B
  <2> QED
    BY <1>1, <1>3, <1>6, <1>7, <1>8, <1>9
<1>11. Coming(s) => slot[s].st = "IO_INFLIGHT"
  BY LoadEntry, MoveEntry, PassEntry DEF Coming, Pools, Sound, Residency, Core, ComingSlots
<1>12. C # {} <=> slot[s].st = "EVICTING"
  BY MoveEntry DEF Backed, SlotBacked, EvictingMoved
<1>13. Outbound(s) = IF slot[s].st = "EVICTING" THEN 1 ELSE 0
  <2>1. Outbound(s) = Cardinality(C)
    BY DEF Outbound
  <2> HIDE DEF C
  <2> QED
    BY <1>4, <1>12, <2>1
<1> QED
  BY <1>10, <1>11, <1>13

\* An entry that is not ABSENT names a slot that is not lost.
LEMMA LostUnnamed ==
  ASSUME Sound, Backed, NEW s \in Slots, Lost(s), NEW p \in Pools, NEW k \in Keys,
         dir[p][k].st # "ABSENT", dir[p][k].slot = s
  PROVE  FALSE
<1>1. slot[s].st \in {"FAILED", "IO_INFLIGHT"} /\ (slot[s].st = "IO_INFLIGHT" => ~Coming(s))
  BY TransferFacts DEF Lost
<1>2. dir[p][k].st \in {"LOADING", "READY", "MOVING_IN"}
  BY DEF Sound, Typed, TypeOK, Entry
<1>3. CASE dir[p][k].st = "READY"
  BY <1>1, <1>3 DEF Sound, Residency, Core, ReadyIsResident
<1>4. CASE dir[p][k].st \in {"LOADING", "MOVING_IN"}
  <2>1. slot[s].st = "IO_INFLIGHT"
    BY <1>4 DEF Sound, Residency, Core, ComingSlots
  <2>2. Coming(s)
    BY <1>4 DEF Coming, Backed, SlotBacked, LoadingBacked, MovingBacked
  <2> QED
    BY <1>1, <2>1, <2>2
<1> QED
  BY <1>2, <1>3, <1>4

\* A slot out of use is the end of exactly one load or move, or lost to an I/O
\* error and named by no entry (alloc_or_evict, drain_completions,
\* drain_moves, start_async_load).
THEOREM SlotsComeBack == Spec => []EverySlotComesBack
<1>1. Sound /\ Backed => EverySlotComesBack
  <2> SUFFICES ASSUME Sound, Backed, NEW s \in Slots
               PROVE  /\ Inbound(s) + Outbound(s) <= 1
                      /\ Inbound(s) = 1 => slot[s].st = "IO_INFLIGHT"
                      /\ slot[s].st = "EVICTING" <=> Outbound(s) = 1
                      /\ Lost(s) => \A p \in Pools, k \in Keys :
                                      dir[p][k].st # "ABSENT" => dir[p][k].slot # s
    BY DEF EverySlotComesBack
  <2>1. Lost(s) => \A p \in Pools, k \in Keys :
                     dir[p][k].st # "ABSENT" => dir[p][k].slot # s
    BY LostUnnamed
  <2>2. /\ Inbound(s) + Outbound(s) <= 1
        /\ Inbound(s) = 1 => slot[s].st = "IO_INFLIGHT"
        /\ slot[s].st = "EVICTING" <=> Outbound(s) = 1
    BY TransferFacts
  <2> QED
    BY <2>1, <2>2
<1> QED
  BY <1>1, SoundInvariant, BackedInvariant, PTL

-----------------------------------------------------------------------------
\* Some candidate is nearest: the class of candidates find_victim prefers has
\* a member whenever it has a candidate.
LEMMA NearestExists ==
  ASSUME NEW l \in Layers, NEW C, C \subseteq Keys, C # {}
  PROVE  Nearest(l, C) # {}
<1> DEFINE D == {RingDistance(l, k) : k \in C}
<1>1. ASSUME NEW k \in Keys PROVE RingDistance(l, k) \in Nat
  <2>1. k[1] \in Layers
    BY DEF Keys
  <2>2. l - k[1] + NLayer \in Int /\ NLayer \in Nat \ {0}
    BY <2>1, SizeAssumption DEF Layers
  <2>3. (l - k[1] + NLayer) % NLayer \in 0 .. NLayer - 1
    BY <2>2
  <2> QED
    BY <2>3, SizeAssumption DEF RingDistance
<1>2. D \subseteq Nat /\ D # {}
  BY <1>1
<1>3. Least(D) \in D /\ \A d \in D : Least(D) <= d
  <2> HIDE DEF D
  <2> QED
    BY <1>2, LeastInSet
<1>4. PICK k \in C : RingDistance(l, k) = Least(D)
  BY <1>3
<1>5. \A j \in C : RingDistance(l, k) <= RingDistance(l, j)
  BY <1>3, <1>4
<1> QED
  BY <1>4, <1>5 DEF Nearest

\* A pool without a victim has no READY copy that is not pinned.
LEMMA NoVictim ==
  ASSUME Sound, Victims(active.layer, "ram") = {}
  PROVE  Evictable("ram", TRUE) = {}
<1>1. active.layer \in Layers
  BY DEF Sound, Typed, TypeOK, Active
<1>2. \A b \in BOOLEAN : Evictable("ram", b) \subseteq Keys
  BY DEF Evictable
<1>3. Evictable("ram", FALSE) = {}
  BY <1>1, <1>2, NearestExists DEF Victims
<1>4. Nearest(active.layer, Evictable("ram", TRUE)) = {}
  BY <1>3 DEF Victims
<1> QED
  BY <1>1, <1>2, <1>4, NearestExists

\* The only step that reports that no slot was found.
LEMMA NoslotStep ==
  ASSUME Sound, [Next]_vars, ~pass.noslot, pass'.noslot
  PROVE  RamNone
<1> USE DEF passVars
<1>1. pass \in Pass /\ ~NoPass.noslot
  BY DEF Sound, Typed, TypeOK, NoPass
<1>2. CASE Exec \/ StallClock \/ Dio \/ MoveWorker \/ UNCHANGED vars
  <2>1. pass' = pass
    BY <1>2, Zenon
    DEF Exec, PinBegin, PinScan, PinHit, PinSubmit, PinFailed, PinWake, PinCollect, PinReturn,
        Unpin, StallClock, Dio, DioComplete, MoveWorker, MoveCopy, vars
  <2> QED
    BY <2>1
<1>3. CASE Scheduler /\ ~RamNone
  <2>1. CASE pass' = pass
    BY <2>1
  <2>2. CASE AcceptActive \/ active_register \/ ServeEnd \/ StallFail
    <3>1. CASE AcceptActive
      BY <3>1 DEF AcceptActive, NoPass
    <3>2. CASE active_register
      <4>1. pass' = [NoPass EXCEPT !.visit = queue.needed \ ReadyItems, !.first = TRUE]
        BY <3>2 DEF active_register
      <4> QED
        BY <4>1 DEF NoPass
    <3>3. CASE ServeEnd \/ StallFail
      BY <3>3 DEF ServeEnd, StallFail, NoPass
    <3> QED
      BY <2>2, <3>1, <3>2, <3>3
  <2>3. CASE ServeItem
    BY <1>1, <2>3 DEF ServeItem, Pass
  <2>4. ASSUME NEW p, (\E s \in Slots : AllocFree(p, s)) \/ (\E v \in Keys : AllocEvict(p, v))
        PROVE  FALSE
    BY <1>1, <2>4 DEF AllocFree, AllocEvict, Pass
  <2>5. CASE \/ \E v \in Keys : DemoteDrop(v) \/ RamEvict(v)
             \/ \E s \in Slots : DeviceFree(s) \/ RamFree(s)
    BY <2>4, <2>5 DEF DemoteDrop, RamEvict, DeviceFree, RamFree
  <2>6. CASE LoadRefused \/ \E i \in Elems, n \in 0 .. NSlices : start_async_load(i, n)
    BY <1>1, <2>6 DEF LoadRefused, start_async_load, Pass
  <2>7. CASE \/ \E i \in Elems, r \in {"ok", "error"} : drain_completions(i, r)
             \/ DrainEnd \/ AcceptNothing \/ DeviceNone \/ MovesEnd
             \/ \E v \in Keys, d \in RamSlots : DemoteToFree(v, d)
             \/ \E v \in Keys, w \in Keys : DemoteEvicting(v, w)
             \/ \E m \in movedone : drain_moves(m)
    BY <2>7, <2>1, Zenon
    DEF drain_completions, DrainEnd, AcceptNothing, DeviceNone, MovesEnd, DemoteToFree,
        DemoteEvicting, drain_moves
  <2> QED
    BY <1>3, <2>2, <2>3, <2>5, <2>6, <2>7, ConstantFacts DEF Scheduler
<1> QED
  BY <1>2, <1>3 DEF Next

\* When nothing is under way and RAM has neither a free slot nor a victim, each
\* slot that I/O errors have left is pinned by an expert other than the item.
LEMMA PoolPinned ==
  ASSUME Sound, Accounted, Backed, RamNone, Loads = {}, Moves = {},
         NEW s \in RamSlots, ~Lost(s)
  PROVE  \E e \in Experts \ {pass.cur} : Mine(e) = s
<1>1. s \in Slots /\ slot[s] \in Word
  BY ConstantFacts DEF Sound, Typed, TypeOK
<1>2. /\ spc = "ram" /\ active.on /\ pass.cur \in active.still /\ pass.slot = None
      /\ slot[s].st # "EMPTY" /\ Victims(active.layer, "ram") = {}
  BY DEF RamNone, NothingToTake, EmptySlots, PoolSlots, Backed, PassHolds
<1>3. slot[s].st = "READY"
  <2>1. ~Coming(s)
    BY <1>1, <1>2, SlotAssumption DEF Coming, Loads
  <2>2. (Inbound(s) = 0 /\ Outbound(s) = 0) \/ slot[s].st = "EVICTING"
    BY <1>1, <2>1, TransferFacts
  <2>3. slot[s].st # "EVICTING"
    BY <1>1 DEF Backed, SlotBacked, EvictingMoved
  <2>4. slot[s].st \notin {"FAILED", "IO_INFLIGHT"}
    BY <2>2, <2>3 DEF Lost
  <2> QED
    BY <1>1, <1>2, <2>3, <2>4 DEF Word
<1>4. PICK p \in Pools, k \in Keys : dir[p][k].st = "READY" /\ dir[p][k].slot = s
  BY <1>1, <1>3 DEF Backed, SlotBacked, ReadyNamed
<1>5. p = "ram"
  BY <1>4, SlotAssumption
  DEF Sound, Typed, EntryInPool, InPool, Pools, PoolSlots
<1>6. slot[s].rc # 0
  BY <1>2, <1>3, <1>4, <1>5, NoVictim DEF Evictable
<1>7. PICK e \in Recorded \cup Given : Mine(e) = s
  BY <1>1, <1>6 DEF Accounted, PinsExact
<1>8. e \in Experts
  BY HeldApartFacts DEF Accounted
<1>9. Mine(pass.cur) = None
  BY <1>2 DEF Accounted, CallStage
<1> QED
  BY <1>1, <1>7, <1>8, <1>9, SlotAssumption

\* A pass finds no slot only while a transfer is under way, or I/O errors have
\* left fewer RAM slots than a layer has experts (find_victim and the pool
\* floor of init).
THEOREM SlotBehindTransfer == Spec => NoSlotOnlyBehindTransfer
<1>1. ASSUME Sound, Accounted, Backed, RamNone, Loads = {}, Moves = {}
      PROVE  Cardinality({s \in RamSlots : ~Lost(s)}) < NExpert
  <2> DEFINE R == {s \in RamSlots : ~Lost(s)}
             T == Experts \ {pass.cur}
             f == [s \in R |-> CHOOSE e \in T : Mine(e) = s]
  <2>1. \A s \in R : f[s] \in T /\ Mine(f[s]) = s
    BY <1>1, PoolPinned
  <2>2. f \in Injection(R, T)
    BY <2>1 DEF Injection, IsInjective
  <2>3. pass.cur \in Experts
    BY <1>1 DEF Sound, Typed, TypeOK, Pass
  <2>4. IsFiniteSet(Experts) /\ Cardinality(Experts) = NExpert
    BY SizeAssumption, FS_Interval DEF Experts
  <2>5. IsFiniteSet(T) /\ Cardinality(T) = NExpert - 1
    BY <2>3, <2>4, FS_RemoveElement
  <2> HIDE DEF R, T, f
  <2>6. IsFiniteSet(R) /\ Cardinality(R) <= NExpert - 1
    BY <2>2, <2>5, FS_Injection
  <2>7. Cardinality(R) \in Nat
    BY <2>6, FS_CardinalityType
  <2> QED
    BY <2>6, <2>7, SizeAssumption DEF R
<1>2. Sound /\ Accounted /\ Backed /\ [Next]_vars =>
        [~pass.noslot /\ pass'.noslot =>
           \/ Loads # {} \/ Moves # {}
           \/ Cardinality({s \in RamSlots : ~Lost(s)}) < NExpert]_pass
  BY <1>1, NoslotStep
<1> QED
  BY <1>2, SoundInvariant, AccountedInvariant, BackedInvariant, PTL
  DEF Spec, NoSlotOnlyBehindTransfer
=============================================================================
