-------------------------- MODULE ExpertLoadProofs --------------------------
(***************************************************************************)
(* The loads of ExpertLoad and their reads, for every number of models,    *)
(* every plan of reads, both engines, and errors and stops at any moment:  *)
(* the types, that the pending count of a load is the number of its reads  *)
(* that are still to be drained, that without an error none fails, that    *)
(* no step writes outside the slot of a load, and that a slot that is      *)
(* READY holds its expert.                                                 *)
(*                                                                         *)
(* A read is in flight, or in the line of what has completed: harvested    *)
(* first, then what is in the port.  The count of a load goes down by one  *)
(* with every completion that is drained, so it is exact as long as no     *)
(* read is there twice (Apart), none belongs to a free ring entry (Owned,  *)
(* part of the types), and the entry a load takes is free.                 *)
(*                                                                         *)
(* That no read is refused rests on the plans: their pieces are whole      *)
(* sectors (PiecesFit).  That a write stays in a slot rests on the pieces  *)
(* lying within it (PiecesInside), on the slot being that load's alone     *)
(* until its last read is drained (SlotsTaken), and on every read being of *)
(* a piece of its expert (SlicesPlanned).  A READY slot is exact because   *)
(* each piece of a load that has not failed is, at any moment, unread or   *)
(* where the load will look for it (Arrived).                              *)
(***************************************************************************)
EXTENDS ExpertLoad, Induction, FiniteSetTheorems, SequenceTheorems, TLAPS

\* Ring entries in use, with their schedulers, and the reads they may own.
Owners == UNION {{s} \X InUse(s) : s \in Up}
Reads  == [owner : Owners, slice : Nat, err : BOOLEAN]

\* What is completed and not drained, in the order in which it will be.
Line == worker.done \o port

LoadFields == {"key", "slot", "pending", "failed", "mask", "staging"}

\* A load of scheduler s is for one of its slots and experts.
IsLoad(s, x) ==
  /\ DOMAIN x = LoadFields
  /\ x.key \in DOMAIN topo[s].plan /\ x.slot \in DOMAIN slots[s]
  /\ x.mask \subseteq DOMAIN topo[s].plan[x.key]
  /\ x.pending \in Nat /\ x.failed \in BOOLEAN

SlotStates == {"EMPTY", "INFLIGHT", "READY", "FAILED"}

\* Schedulers are set up once, and have loads and slots from then on.
SetUp ==
  /\ os \in {"posix", "win", None}
  /\ Up \subseteq Scheds /\ running \subseteq Up /\ registered \in Seq(Up)
  /\ DOMAIN pool = Up /\ DOMAIN slots = Scheds /\ DOMAIN loads = Scheds
  /\ \A s \in Scheds \ Up : InUse(s) = {}
  /\ \A s \in Up : \A k \in DOMAIN topo[s].plan :
       Len(topo[s].plan[k]) \in Nat /\ DOMAIN topo[s].plan[k] = 1..Len(topo[s].plan[k])

\* Slots and loads have their types, and every read an entry that is in use.
LoadsTyped ==
  \A s \in Up :
    /\ slots[s] \in [Slots(pool[s]) -> [state : SlotStates, key : DOMAIN topo[s].plan \cup {None}]]
    /\ \A i \in InUse(s) : IsLoad(s, loads[s][i])

Owned ==
  /\ flight \subseteq Reads /\ IsFiniteSet(flight)
  /\ port \in Seq(Reads)
  /\ worker \in [pc : {"off", "idle", "poll", "dispatch", "accept"}, snap : Seq(Up), at : Nat,
                 done : Seq(Reads)]

\* The worker drains all it has harvested before it harvests again.
Drains == worker.pc = "dispatch" <=> worker.done # <<>>

Bounded == used \in [reads : Nat, errors : Nat, stops : Nat] /\ Spent <= MaxSpent

\* No read is there twice, among those in flight (F) and in line (L).
SameRead(q, r) == q.owner = r.owner /\ q.slice = r.slice
Distinct(F, L) ==
  /\ \A i, j \in DOMAIN L : SameRead(L[i], L[j]) => i = j
  /\ \A q, r \in F : SameRead(q, r) => q = r
  /\ \A r \in F, i \in DOMAIN L : ~SameRead(r, L[i])
Apart == Distinct(flight, Line)

\* The first half of PendingExact.
Counted == \A s \in running : \A i \in InUse(s) : loads[s][i].pending = Cardinality(OwnedBy(s, i))

LoadInv == SetUp /\ LoadsTyped /\ Owned /\ Drains /\ Bounded /\ Apart /\ Counted

-----------------------------------------------------------------------------
\* Nothing is set up, nothing is read.
LEMMA LoadInit == Init => LoadInv
<1> SUFFICES ASSUME Init PROVE LoadInv
  OBVIOUS
<1>1. Up = {} /\ Line = <<>>
  BY DEF Init, Up, Line
<1>2. SetUp /\ LoadsTyped
  BY <1>1 DEF Init, SetUp, LoadsTyped, InUse, Up
<1>3. Owned /\ Drains
  BY <1>1, FS_EmptySet DEF Init, Owned, Drains
<1>4. Bounded
  BY EngineAssumption DEF Init, Bounded, Spent
<1>5. Apart /\ Counted
  BY <1>1 DEF Init, Apart, Distinct, Counted
<1> QED
  BY <1>2, <1>3, <1>4, <1>5 DEF LoadInv

\* ReadPlan gives a sequence, whatever the pieces.
LEMMA ReadPlanFacts ==
  ASSUME NEW reqs
  PROVE  Len(ReadPlan(reqs)) \in Nat /\ DOMAIN ReadPlan(reqs) = 1..Len(ReadPlan(reqs))
<1> DEFINE p == ReadPlan(reqs)
           n == Len(reqs)
<1>1. CASE n \in 1..MaxSubTensors
  <2>1. n \in Nat
    BY <1>1, PlanAssumption
  <2>2. PICK v : p = [i \in 1..n |-> v[i]]
    <3>1. p = [i \in 1..n |-> p[i]]
      BY <1>1 DEF ReadPlan
    <3> QED
      BY <3>1
  <2>3. p \in Seq({v[i] : i \in 1..n}) /\ DOMAIN p = 1..n
    BY <2>1, <2>2
  <2> HIDE DEF p, n
  <2> QED
    BY <2>1, <2>3 DEF p
<1>2. CASE n \notin 1..MaxSubTensors
  BY <1>2 DEF ReadPlan
<1> QED
  BY <1>1, <1>2

\* The plans of a topology are sequences.
LEMMA TopologyFacts ==
  ASSUME NEW model, NEW k \in DOMAIN BuildTopology(model).plan
  PROVE  LET p == BuildTopology(model).plan[k] IN Len(p) \in Nat /\ DOMAIN p = 1..Len(p)
<1>1. PICK reqs : BuildTopology(model).plan[k] = ReadPlan(reqs)
  BY DEF BuildTopology
<1> QED
  BY <1>1, ReadPlanFacts

-----------------------------------------------------------------------------
(* Reads that are all different stay so.                                   *)

\* A sequence over a set is one over a larger set.
LEMMA SeqOver == ASSUME NEW A, NEW B, A \subseteq B, NEW L \in Seq(A) PROVE L \in Seq(B)
  OBVIOUS

\* A read that has completed moves from the kernel to the end of the line.
LEMMA DistinctAppend ==
  ASSUME NEW A, NEW F, NEW L \in Seq(A), Distinct(F, L), NEW r \in F, NEW q \in A, SameRead(r, q)
  PROVE  /\ Distinct(F \ {r}, Append(L, q))
         /\ ToSet(Append(L, q)) = ToSet(L) \cup {q}
<1>1. /\ DOMAIN Append(L, q) = 1..(Len(L) + 1) /\ DOMAIN L = 1..Len(L)
      /\ \A i \in 1..Len(L) : Append(L, q)[i] = L[i]
      /\ Append(L, q)[Len(L) + 1] = q /\ Len(L) \in Nat
  OBVIOUS
<1> DEFINE M == Append(L, q)
<1> HIDE DEF M
<1>2. ToSet(M) = ToSet(L) \cup {q}
  BY <1>1 DEF M, ToSet
<1>3. Distinct(F \ {r}, M)
  BY <1>1 DEF M, Distinct, SameRead
<1> QED
  BY <1>2, <1>3 DEF M

\* The first in line is nowhere else.
LEMMA DistinctTail ==
  ASSUME NEW A, NEW F, NEW L \in Seq(A), Distinct(F, L), L # <<>>
  PROVE  /\ Distinct(F, Tail(L)) /\ Head(L) \in ToSet(L)
         /\ \A x : x \in F \cup ToSet(Tail(L)) <=> x \in F \cup ToSet(L) /\ x # Head(L)
<1>1. /\ DOMAIN Tail(L) = 1..(Len(L) - 1) /\ DOMAIN L = 1..Len(L) /\ Len(L) \in Nat \ {0}
      /\ \A i \in 1..(Len(L) - 1) : Tail(L)[i] = L[i + 1]
      /\ Head(L) = L[1]
  OBVIOUS
<1> DEFINE M == Tail(L)
           h == Head(L)
<1> HIDE DEF M, h
<1>2. Distinct(F, M)
  BY <1>1 DEF M, Distinct
<1>3. h \in ToSet(L)
  BY <1>1 DEF h, ToSet
<1>4. ToSet(M) = ToSet(L) \ {h}
  <2>1. ASSUME NEW i \in 1..(Len(L) - 1) PROVE M[i] \in ToSet(L) \ {h}
    <3>1. M[i] = L[i + 1] /\ h = L[1] /\ i + 1 \in 1..Len(L) /\ 1 \in 1..Len(L) /\ i + 1 # 1
      BY <1>1 DEF M, h
    <3>2. L[i + 1] # L[1]
      BY <1>1, <3>1 DEF Distinct, SameRead
    <3> QED
      BY <1>1, <3>1, <3>2 DEF ToSet
  <2>2. ASSUME NEW x \in ToSet(L) \ {h} PROVE x \in ToSet(M)
    <3>1. PICK i \in 1..Len(L) : x = L[i]
      BY <1>1 DEF ToSet
    <3>2. i # 1 /\ i - 1 \in 1..(Len(L) - 1)
      BY <1>1, <2>2, <3>1 DEF h
    <3>3. M[i - 1] = x
      BY <1>1, <3>1, <3>2 DEF M
    <3> QED
      BY <1>1, <3>2, <3>3 DEF M, ToSet
  <2> QED
    BY <1>1, <2>1, <2>2 DEF M, ToSet
<1>5. h \notin F
  BY <1>1 DEF h, Distinct, SameRead
<1> QED
  BY <1>2, <1>3, <1>4, <1>5 DEF M, h

\* New reads join those in line, or those in flight.
LEMMA DistinctJoin ==
  ASSUME NEW A, NEW F, NEW L \in Seq(A), Distinct(F, L), NEW S \in Seq(A), Distinct({}, S),
         \A r \in F \cup ToSet(L), q \in ToSet(S) : ~SameRead(r, q)
  PROVE  /\ Distinct(F, L \o S) /\ ToSet(L \o S) = ToSet(L) \cup ToSet(S)
         /\ Distinct(F \cup ToSet(S), L)
<1>1. /\ DOMAIN (L \o S) = 1..(Len(L) + Len(S)) /\ DOMAIN L = 1..Len(L) /\ DOMAIN S = 1..Len(S)
      /\ \A i \in 1..Len(L) : (L \o S)[i] = L[i]
      /\ \A i \in 1..Len(S) : (L \o S)[Len(L) + i] = S[i]
      /\ Len(L) \in Nat /\ Len(S) \in Nat
  OBVIOUS
<1> DEFINE M == L \o S
<1> HIDE DEF M
<1>2. ASSUME NEW i \in DOMAIN M
      PROVE  \/ i \in DOMAIN L /\ M[i] = L[i]
             \/ i - Len(L) \in DOMAIN S /\ M[i] = S[i - Len(L)]
  <2>1. CASE i \in 1..Len(L)
    BY <1>1, <2>1 DEF M
  <2>2. CASE i \notin 1..Len(L)
    <3>1. i - Len(L) \in 1..Len(S) /\ i = Len(L) + (i - Len(L))
      BY <1>1, <2>2 DEF M
    <3> QED
      BY <1>1, <3>1 DEF M
  <2> QED
    BY <2>1, <2>2
<1>3. ToSet(M) = ToSet(L) \cup ToSet(S)
  <2>1. ToSet(M) \subseteq ToSet(L) \cup ToSet(S)
    BY <1>2 DEF ToSet
  <2>2. ASSUME NEW i \in DOMAIN L PROVE L[i] \in ToSet(M)
    BY <1>1 DEF ToSet, M
  <2>3. ASSUME NEW i \in DOMAIN S PROVE S[i] \in ToSet(M)
    <3>1. Len(L) + i \in 1..(Len(L) + Len(S)) /\ i \in 1..Len(S)
      BY <1>1
    <3>2. M[Len(L) + i] = S[i] /\ DOMAIN M = 1..(Len(L) + Len(S))
      BY <1>1, <3>1 DEF M
    <3> QED
      BY <3>1, <3>2 DEF ToSet
  <2> QED
    BY <2>1, <2>2, <2>3 DEF ToSet
<1>4. ASSUME NEW i \in DOMAIN M, NEW j \in DOMAIN M, SameRead(M[i], M[j]) PROVE i = j
  <2>1. \A x \in DOMAIN L, y \in DOMAIN S : ~SameRead(L[x], S[y]) /\ ~SameRead(S[y], L[x])
    BY DEF ToSet, SameRead
  <2>2. \/ i \in DOMAIN L /\ M[i] = L[i] /\ j \in DOMAIN L /\ M[j] = L[j]
        \/ /\ i - Len(L) \in DOMAIN S /\ M[i] = S[i - Len(L)]
           /\ j - Len(L) \in DOMAIN S /\ M[j] = S[j - Len(L)]
    BY <1>2, <1>4, <2>1
  <2>3. CASE i \in DOMAIN L /\ M[i] = L[i] /\ j \in DOMAIN L /\ M[j] = L[j]
    BY <1>4, <2>3 DEF Distinct
  <2>4. CASE /\ i - Len(L) \in DOMAIN S /\ M[i] = S[i - Len(L)]
             /\ j - Len(L) \in DOMAIN S /\ M[j] = S[j - Len(L)]
    <3>1. i - Len(L) = j - Len(L)
      BY <1>4, <2>4 DEF Distinct
    <3> QED
      BY <1>1, <3>1 DEF M
  <2> QED
    BY <2>2, <2>3, <2>4
<1>5. Distinct(F, M)
  <2>1. ASSUME NEW r \in F, NEW i \in DOMAIN M PROVE ~SameRead(r, M[i])
    BY <1>2 DEF ToSet, Distinct
  <2> QED
    BY <1>4, <2>1 DEF Distinct
<1>6. Distinct(F \cup ToSet(S), L)
  BY DEF Distinct, ToSet, SameRead
<1> QED
  BY <1>3, <1>5, <1>6 DEF M

-----------------------------------------------------------------------------
\* A sequence has finitely many members.
LEMMA FiniteRange == ASSUME NEW A, NEW L \in Seq(A) PROVE IsFiniteSet(ToSet(L)) /\ ToSet(L) \subseteq A
<1>1. DOMAIN L = 1..Len(L) /\ Len(L) \in Nat /\ L \in [1..Len(L) -> A]
  OBVIOUS
<1>2. IsFiniteSet(1..Len(L))
  BY <1>1, FS_Interval
<1>3. L \in Surjection(1..Len(L), ToSet(L))
  BY <1>1 DEF Surjection, ToSet
<1> QED
  BY <1>1, <1>2, <1>3, FS_Surjection DEF ToSet

\* The line holds what is harvested and what is in the port; there are finitely
\* many reads.
LEMMA QueueFacts ==
  ASSUME Owned
  PROVE  /\ Line \in Seq(Reads) /\ Queued = flight \cup ToSet(Line) /\ Queued \subseteq Reads
         /\ IsFiniteSet(Queued) /\ \A s, i : IsFiniteSet(OwnedBy(s, i)) /\ Cardinality(OwnedBy(s, i)) \in Nat
<1>1. worker.done \in Seq(Reads) /\ port \in Seq(Reads) /\ flight \subseteq Reads /\ IsFiniteSet(flight)
  BY DEF Owned
<1> DEFINE D == worker.done
<1> HIDE DEF D
<1>2. /\ D \o port \in Seq(Reads) /\ DOMAIN (D \o port) = 1..(Len(D) + Len(port))
      /\ Len(D) \in Nat /\ Len(port) \in Nat /\ DOMAIN D = 1..Len(D) /\ DOMAIN port = 1..Len(port)
      /\ \A i \in 1..Len(D) : (D \o port)[i] = D[i]
      /\ \A i \in 1..Len(port) : (D \o port)[Len(D) + i] = port[i]
  BY <1>1 DEF D
<1> DEFINE M == D \o port
<1> HIDE DEF M
<1>3. ToSet(M) = ToSet(D) \cup ToSet(port)
  <2>1. ASSUME NEW i \in DOMAIN M PROVE M[i] \in ToSet(D) \cup ToSet(port)
    <3>1. CASE i \in 1..Len(D)
      BY <1>2, <3>1 DEF M, ToSet
    <3>2. CASE i \notin 1..Len(D)
      <4>1. i - Len(D) \in 1..Len(port) /\ i = Len(D) + (i - Len(D))
        BY <1>2, <3>2 DEF M
      <4>2. M[i] = port[i - Len(D)]
        BY <1>2, <4>1 DEF M
      <4> QED
        BY <1>2, <4>1, <4>2 DEF ToSet
    <3> QED
      BY <3>1, <3>2
  <2>2. ASSUME NEW i \in DOMAIN D PROVE D[i] \in ToSet(M)
    <3>1. i \in 1..(Len(D) + Len(port)) /\ i \in 1..Len(D)
      BY <1>2
    <3> QED
      BY <1>2, <3>1 DEF M, ToSet
  <2>3. ASSUME NEW i \in DOMAIN port PROVE port[i] \in ToSet(M)
    <3>1. Len(D) + i \in 1..(Len(D) + Len(port)) /\ i \in 1..Len(port)
      BY <1>2
    <3>2. M[Len(D) + i] = port[i] /\ DOMAIN M = 1..(Len(D) + Len(port))
      BY <1>2, <3>1 DEF M
    <3> QED
      BY <3>1, <3>2 DEF ToSet
  <2> QED
    BY <2>1, <2>2, <2>3 DEF ToSet
<1>4. Line = M
  BY DEF Line, M, D
<1>5. Queued = flight \cup ToSet(Line)
  BY <1>3, <1>4 DEF Queued, D
<1>6. IsFiniteSet(ToSet(Line)) /\ ToSet(Line) \subseteq Reads
  BY <1>2, <1>4, FiniteRange DEF M
<1>7. IsFiniteSet(Queued) /\ Queued \subseteq Reads
  BY <1>1, <1>5, <1>6, FS_Union
<1>8. ASSUME NEW s, NEW i PROVE IsFiniteSet(OwnedBy(s, i)) /\ Cardinality(OwnedBy(s, i)) \in Nat
  <2>1. OwnedBy(s, i) \in SUBSET Queued
    BY DEF OwnedBy
  <2> QED
    BY <1>7, <2>1, FS_Subset, FS_CardinalityType
<1> QED
  BY <1>2, <1>4, <1>5, <1>7, <1>8 DEF M

\* Steps that leave loads, reads and worker as they are.
LEMMA Unchanged ==
  ASSUME LoadInv, UNCHANGED <<os, topo, pool, running, slots, loads, flight, port, worker, used>>,
         registered' \in Seq(Up)
  PROVE  LoadInv'
<1>1. SetUp' /\ LoadsTyped'
  BY DEF LoadInv, SetUp, LoadsTyped, IsLoad, Up, InUse
<1>2. Owned' /\ Drains' /\ Bounded'
  BY DEF LoadInv, Owned, Drains, Bounded, Spent, Reads, Owners, Up, InUse
<1>3. Apart' /\ Counted'
  BY DEF LoadInv, Apart, Line, Counted, InUse, OwnedBy, Queued
<1> QED
  BY <1>1, <1>2, <1>3 DEF LoadInv

\* Steps that leave loads and reads where they are: the reads keep their type
\* and the counts stay exact.
LEMMA Quiet ==
  ASSUME LoadInv, Up \subseteq Up', running' \subseteq running, UNCHANGED <<loads, flight>>, Line' = Line,
         Queued' = Queued
  PROVE  Apart' /\ Counted' /\ Reads \subseteq Reads'
<1>1. Apart' /\ Counted'
  BY DEF LoadInv, Apart, Counted, InUse, OwnedBy
<1>2. Owners \subseteq Owners'
  BY DEF Owners, InUse
<1> QED
  BY <1>1, <1>2 DEF Reads

-----------------------------------------------------------------------------
\* A scheduler is set up: it has its slots, all of them EMPTY, and no load yet.
LEMMA SetupStep ==
  ASSUME LoadInv, NEW s \in Scheds, NEW main, SetupFrom(s, main)
  PROVE  LoadInv'
<1>1. PICK model, budget :
        Start(s, BuildTopology(model), InitPool(BuildTopology(model), budget.bytes, budget.devices))
  BY DEF SetupFrom, Setup
<1> DEFINE t == BuildTopology(model)
           p == InitPool(t, budget.bytes, budget.devices)
<1>2. \A k \in DOMAIN t.plan : Len(t.plan[k]) \in Nat /\ DOMAIN t.plan[k] = 1..Len(t.plan[k])
  BY TopologyFacts
<1> HIDE DEF t, p
<1>3. /\ topo' = With(topo, s, t) /\ pool' = With(pool, s, p)
      /\ slots' = [slots EXCEPT ![s] = [x \in Slots(p) |-> [state |-> "EMPTY", key |-> None]]]
      /\ running' = running \cup {s} /\ registered' = Append(registered, s)
      /\ worker' = IF worker.pc = "off" THEN [worker EXCEPT !.pc = "idle"] ELSE worker
      /\ UNCHANGED <<loads, flight, port, used>>
  BY <1>1 DEF Start, engineVars, t, p
<1>4. s \notin Up /\ os' \in {"posix", "win", None} /\ DOMAIN pool = Up /\ registered \in Seq(Up)
  BY DEF SetupFrom, LoadInv, SetUp
<1>5. /\ Up' = Up \cup {s} /\ topo'[s] = t /\ pool'[s] = p
      /\ \A u \in Up : topo'[u] = topo[u] /\ pool'[u] = pool[u]
      /\ DOMAIN pool' = Up'
  BY <1>3, <1>4 DEF With, Up
<1>6. InUse(s) = {} /\ \A u : InUse(u)' = InUse(u)
  BY <1>3, <1>4 DEF LoadInv, SetUp, InUse
<1>7. SetUp'
  <2>1. registered' \in Seq(Up')
    BY <1>3, <1>4, <1>5
  <2>2. DOMAIN slots' = Scheds /\ DOMAIN loads' = Scheds /\ Up' \subseteq Scheds /\ running' \subseteq Up'
    BY <1>3, <1>5 DEF LoadInv, SetUp
  <2>3. \A u \in Scheds \ Up' : InUse(u)' = {}
    BY <1>5, <1>6 DEF LoadInv, SetUp
  <2>4. ASSUME NEW u \in Up', NEW k \in DOMAIN topo'[u].plan
        PROVE  Len(topo'[u].plan[k]) \in Nat /\ DOMAIN topo'[u].plan[k] = 1..Len(topo'[u].plan[k])
    <3>1. CASE u = s
      BY <1>2, <1>5, <2>4, <3>1
    <3>2. CASE u \in Up
      BY <1>5, <2>4, <3>2 DEF LoadInv, SetUp
    <3> QED
      BY <1>5, <3>1, <3>2
  <2> QED
    BY <1>4, <1>5, <2>1, <2>2, <2>3, <2>4 DEF SetUp
<1>8. LoadsTyped'
  <2>1. ASSUME NEW u \in Up
        PROVE  /\ slots'[u] \in [Slots(pool'[u]) -> [state : SlotStates, key : DOMAIN topo'[u].plan \cup {None}]]
               /\ \A i \in InUse(u)' : IsLoad(u, loads[u][i])'
    <3>1. slots'[u] = slots[u] /\ loads'[u] = loads[u]
      BY <1>3, <1>4 DEF LoadInv, SetUp
    <3> QED
      BY <1>5, <1>6, <3>1 DEF LoadInv, LoadsTyped, IsLoad
  <2>2. slots'[s] = [x \in Slots(p) |-> [state |-> "EMPTY", key |-> None]]
    BY <1>3 DEF LoadInv, SetUp
  <2>3. slots'[s] \in [Slots(pool'[s]) -> [state : SlotStates, key : DOMAIN topo'[s].plan \cup {None}]]
    BY <1>5, <2>2 DEF SlotStates
  <2> QED
    BY <1>5, <1>6, <2>1, <2>3 DEF LoadsTyped
<1>9. Line' = Line /\ Queued' = Queued /\ worker'.done = worker.done
  BY <1>3 DEF LoadInv, Owned, Line, Queued
<1>10. Apart' /\ Reads \subseteq Reads'
  <2>1. Apart'
    BY <1>3, <1>9 DEF LoadInv, Apart
  <2>2. Owners \subseteq Owners'
    BY <1>5, <1>6 DEF Owners
  <2> QED
    BY <2>1, <2>2 DEF Reads
<1>11. Owned' /\ Drains'
  <2>1. worker.snap \in Seq(Up') /\ worker.done \in Seq(Reads') /\ port \in Seq(Reads')
    BY <1>5, <1>10, SeqOver DEF LoadInv, Owned
  <2> QED
    BY <1>3, <1>10, <2>1 DEF LoadInv, Owned, Drains
<1>12. Counted'
  BY <1>3, <1>6, <1>9 DEF LoadInv, Counted, OwnedBy
<1> QED
  BY <1>3, <1>7, <1>8, <1>10, <1>11, <1>12 DEF LoadInv, Bounded, Spent

\* stop() takes the flag, then the registration.
LEMMA StopStep ==
  ASSUME LoadInv, NEW s \in Scheds, StopFlag(s) \/ Unregister(s)
  PROVE  LoadInv'
<1>1. CASE StopFlag(s)
  <2>1. SetUp' /\ LoadsTyped'
    BY <1>1 DEF StopFlag, setupVars, LoadInv, SetUp, LoadsTyped, IsLoad, Up, InUse
  <2>2. Owned' /\ Drains'
    BY <1>1 DEF StopFlag, setupVars, engineVars, LoadInv, Owned, Drains, Reads, Owners, Up, InUse
  <2>3. Bounded'
    BY <1>1, EngineAssumption DEF StopFlag, LoadInv, Bounded, Spent
  <2>4. Apart' /\ Counted'
    BY <1>1 DEF StopFlag, engineVars, LoadInv, Apart, Line, Counted, InUse, OwnedBy, Queued
  <2> QED
    BY <2>1, <2>2, <2>3, <2>4 DEF LoadInv
<1>2. CASE Unregister(s)
  <2>1. PICK i \in DOMAIN registered : registered' = RemoveAt(registered, i)
    BY <1>2 DEF Unregister
  <2>2. i \in 1..Len(registered) /\ registered \in Seq(Up)
    BY DEF LoadInv, SetUp
  <2>3. SubSeq(registered, 1, i - 1) \in Seq(Up) /\ SubSeq(registered, i + 1, Len(registered)) \in Seq(Up)
    BY <2>2
  <2>4. registered' \in Seq(Up)
    BY <2>1, <2>3 DEF RemoveAt
  <2> QED
    BY <1>2, <2>4, Unchanged DEF Unregister, setupVars, engineVars
<1> QED
  BY <1>1, <1>2

-----------------------------------------------------------------------------
WorkerPcs == {"off", "idle", "poll", "dispatch", "accept"}
Worker == [pc : WorkerPcs, snap : Seq(Up), at : Nat, done : Seq(Reads)]

\* After the turn of a scheduler comes that of the next one, or accept_requests.
LEMMA PollNextFacts ==
  ASSUME NEW w \in Worker
  PROVE  PollNext(w) \in Worker /\ PollNext(w).done = w.done /\ PollNext(w).pc \in {"poll", "accept"}
<1> DEFINE a == [w EXCEPT !.pc = "poll", !.at = @ + 1]
           b == [w EXCEPT !.pc = "accept"]
<1>1. w.at + 1 \in Nat
  BY DEF Worker
<1>2. a \in Worker /\ a.done = w.done /\ a.pc = "poll"
  BY <1>1 DEF Worker, WorkerPcs
<1>3. b \in Worker /\ b.done = w.done /\ b.pc = "accept"
  BY DEF Worker, WorkerPcs
<1>4. PollNext(w) = a \/ PollNext(w) = b
  BY DEF PollNext
<1> HIDE DEF a, b
<1> QED
  BY <1>2, <1>3, <1>4

\* wait_events takes no more than there is.
LEMMA HarvestedFacts == ASSUME Owned PROVE Harvested \in 0..Len(port)
<1>1. Len(port) \in Nat
  BY DEF Owned
<1> QED
  BY <1>1, EngineAssumption DEF Harvested, Least

\* A sequence is cut in two.
LEMMA CutFacts ==
  ASSUME NEW A, NEW L \in Seq(A), NEW n \in 0..Len(L)
  PROVE  LET a == SubSeq(L, 1, n)
             b == SubSeq(L, n + 1, Len(L))
         IN  a \in Seq(A) /\ b \in Seq(A) /\ a \o b = L /\ (n # 0 => a # <<>>)
<1>1. /\ Len(L) \in Nat /\ n \in Nat /\ n <= Len(L)
      /\ 1 \in 1..Len(L) + 1 /\ n \in 1 - 1..Len(L) /\ Len(L) \in n..Len(L)
  OBVIOUS
<1>2. SubSeq(L, 1, n) \o SubSeq(L, n + 1, Len(L)) = SubSeq(L, 1, Len(L))
  BY <1>1, ConcatAdjacentSubSeq
<1>3. SubSeq(L, 1, Len(L)) = L
  BY SubSeqFull
<1>4. SubSeq(L, 1, n) \in Seq(A) /\ SubSeq(L, n + 1, Len(L)) \in Seq(A) /\ Len(SubSeq(L, 1, n)) = n
  BY <1>1
<1> QED
  BY <1>1, <1>2, <1>3, <1>4

\* A tick begins, a harvest is taken, or the tick ends: the line stays as it is.
LEMMA TickFacts ==
  ASSUME LoadInv, Snapshot \/ Harvest \/ EndTick
  PROVE  /\ UNCHANGED <<os, topo, pool, running, registered, slots, loads, flight, used>>
         /\ worker' \in Worker /\ (worker'.pc = "dispatch" <=> worker'.done # <<>>)
         /\ port' \in Seq(Reads) /\ Line' = Line /\ Queued' = Queued
<1>1. /\ worker \in Worker /\ registered \in Seq(Up) /\ port \in Seq(Reads)
      /\ (worker.pc = "dispatch" <=> worker.done # <<>>)
  BY DEF LoadInv, Owned, SetUp, Drains, Worker, WorkerPcs
<1>2. UNCHANGED <<os, topo, pool, running, registered, slots, loads, flight, used>> /\ worker' = WorkerNext
  BY DEF Snapshot, Harvest, EndTick, WorkerMoves, setupVars, schedVars, engineVars
<1>3. UNCHANGED <<Up, Reads, Worker>>
  BY <1>2 DEF Up, Reads, Owners, InUse, Worker
<1>4. /\ worker' \in Worker /\ (worker'.pc = "dispatch" <=> worker'.done # <<>>)
      /\ port' \in Seq(Reads) /\ Line' = Line /\ Queued' = Queued
  <2>1. CASE Snapshot
    <3>1. worker' = [worker EXCEPT !.pc = "poll", !.snap = registered, !.at = 1] /\ port' = port
      BY <1>2, <2>1 DEF Snapshot, WorkerNext, engineVars
    <3>2. worker'.done = worker.done /\ worker'.pc = "poll" /\ worker' \in Worker
      BY <1>1, <3>1 DEF Worker, WorkerPcs
    <3> QED
      BY <1>1, <1>2, <2>1, <3>1, <3>2 DEF Snapshot, Line, Queued
  <2>2. CASE EndTick
    <3>1. worker' = [worker EXCEPT !.pc = "idle", !.snap = <<>>, !.at = 1] /\ port' = port
      BY <1>2, <2>2 DEF EndTick, WorkerNext, engineVars
    <3>2. worker'.done = worker.done /\ worker'.pc = "idle" /\ worker' \in Worker
      <4>1. <<>> \in Seq(Up) /\ 1 \in Nat /\ "idle" \in WorkerPcs
        BY DEF WorkerPcs
      <4>2. worker' \in Worker
        BY <1>1, <3>1, <4>1 DEF Worker
      <4> QED
        BY <1>1, <3>1, <4>2 DEF Worker
    <3> QED
      BY <1>1, <1>2, <2>2, <3>1, <3>2 DEF EndTick, Line, Queued
  <2>3. CASE Harvest
    <3> DEFINE n == Harvested
    <3>1. n \in 0..Len(port) /\ Len(port) \in Nat
      BY <1>1, HarvestedFacts DEF LoadInv
    <3>2. worker.pc = "poll" /\ worker.done = <<>> /\ port' = SubSeq(port, n + 1, Len(port))
      BY <1>1, <2>3 DEF Harvest
    <3>3. worker' = IF n = 0 THEN PollNext(worker)
                    ELSE [worker EXCEPT !.pc = "dispatch", !.done = SubSeq(port, 1, n)]
      BY <1>2, <3>2 DEF WorkerNext
    <3> HIDE DEF n
    <3>4. CASE n = 0
      <4>1. port' = port
        BY <1>1, <3>1, <3>2, <3>4
      <4>2. worker' \in Worker /\ worker'.done = worker.done /\ worker'.pc # "dispatch"
        BY <1>1, <3>3, <3>4, PollNextFacts
      <4> QED
        BY <1>1, <1>2, <3>2, <4>1, <4>2 DEF Line, Queued
    <3>5. CASE n # 0
      <4> DEFINE A == SubSeq(port, 1, n)
                 B == SubSeq(port, n + 1, Len(port))
      <4>1. A \in Seq(Reads) /\ A # <<>> /\ B \in Seq(Reads) /\ A \o B = port
        BY <1>1, <3>1, <3>5, CutFacts
      <4> HIDE DEF A, B
      <4>2. worker'.done = A /\ worker'.pc = "dispatch" /\ worker' \in Worker /\ port' = B
        BY <1>1, <3>2, <3>3, <3>5, <4>1 DEF Worker, WorkerPcs, A, B
      <4>3. <<>> \o port = port
        BY <1>1
      <4>4. Line' = Line
        BY <3>2, <4>1, <4>2, <4>3 DEF Line
      <4>5. Owned'
        BY <1>2, <1>3, <4>1, <4>2 DEF LoadInv, Owned, Worker, WorkerPcs
      <4>6. Queued' = Queued
        <5>1. Queued = flight \cup ToSet(Line)
          BY QueueFacts DEF LoadInv
        <5>2. Owned' => (Queued = flight \cup ToSet(Line))'
          BY QueueFacts, PTL
        <5> QED
          BY <1>2, <4>4, <4>5, <5>1, <5>2
      <4> QED
        BY <4>1, <4>2, <4>4, <4>6
    <3> QED
      BY <3>4, <3>5
  <2> QED
    BY <2>1, <2>2, <2>3
<1> QED
  BY <1>2, <1>4

\* Of the worker's tick but the drains.
LEMMA TickStep ==
  ASSUME LoadInv, Snapshot \/ Harvest \/ EndTick
  PROVE  LoadInv'
<1>1. /\ UNCHANGED <<os, topo, pool, running, registered, slots, loads, flight, used>>
      /\ worker' \in Worker /\ (worker'.pc = "dispatch" <=> worker'.done # <<>>)
      /\ port' \in Seq(Reads) /\ Line' = Line /\ Queued' = Queued
  BY TickFacts
<1>2. UNCHANGED <<Up, Reads>>
  BY <1>1 DEF Up, Reads, Owners, InUse
<1>3. Owned' /\ Drains'
  BY <1>1, <1>2 DEF LoadInv, Owned, Drains, Worker, WorkerPcs
<1>4. Apart' /\ Counted'
  BY <1>1, <1>2, Quiet DEF LoadInv
<1>5. SetUp' /\ LoadsTyped' /\ Bounded'
  BY <1>1 DEF LoadInv, SetUp, LoadsTyped, IsLoad, Up, InUse, Bounded, Spent
<1> QED
  BY <1>3, <1>4, <1>5 DEF LoadInv

-----------------------------------------------------------------------------
\* The same entries are in use.
LEMMA OwnersSame ==
  ASSUME Up' = Up, \A s \in Up : InUse(s)' = InUse(s)
  PROVE  Owners' = Owners /\ Reads' = Reads
<1>1. Owners' = UNION {{s} \X InUse(s)' : s \in Up}
  BY DEF Owners
<1>2. ASSUME NEW o PROVE o \in Owners' <=> o \in Owners
  BY <1>1 DEF Owners
<1>3. Owners' = Owners
  BY <1>2
<1> QED
  BY <1>3 DEF Reads

\* A load keeps all but its staging buffer.
SameLoads ==
  \A s \in Up : /\ InUse(s)' = InUse(s)
                /\ \A i \in InUse(s) :
                     /\ DOMAIN loads'[s][i] = LoadFields
                     /\ loads'[s][i].key = loads[s][i].key /\ loads'[s][i].slot = loads[s][i].slot
                     /\ loads'[s][i].mask = loads[s][i].mask /\ loads'[s][i].failed = loads[s][i].failed
                     /\ loads'[s][i].pending = loads[s][i].pending

\* What a read puts into the staging buffer changes nothing else.
LEMMA StagingOnly ==
  ASSUME LoadInv, NEW s \in Up, NEW i \in InUse(s), NEW v, loads' = [loads EXCEPT ![s][i].staging = v]
  PROVE  SameLoads /\ DOMAIN loads' = Scheds /\ \A u \in Scheds : DOMAIN loads'[u] = DOMAIN loads[u]
<1> DEFINE x == [loads[s][i] EXCEPT !.staging = v]
           g == [loads[s] EXCEPT ![i] = x]
<1>1. DOMAIN loads = Scheds /\ s \in Scheds /\ i \in DOMAIN loads[s] /\ Up \subseteq Scheds
  BY DEF LoadInv, SetUp, InUse
<1>2. \A u \in Up : \A j \in InUse(u) : DOMAIN loads[u][j] = LoadFields
  BY DEF LoadInv, LoadsTyped, IsLoad
<1>3. /\ DOMAIN x = LoadFields /\ x.key = loads[s][i].key /\ x.slot = loads[s][i].slot
      /\ x.mask = loads[s][i].mask /\ x.failed = loads[s][i].failed /\ x.pending = loads[s][i].pending
  BY <1>2 DEF LoadFields
<1>4. loads' = [loads EXCEPT ![s] = g]
  OBVIOUS
<1> HIDE DEF x
<1>5. DOMAIN g = DOMAIN loads[s] /\ \A j \in DOMAIN loads[s] : g[j] = IF j = i THEN x ELSE loads[s][j]
  OBVIOUS
<1> HIDE DEF g
<1>6. DOMAIN loads' = Scheds /\ \A u \in Scheds : loads'[u] = IF u = s THEN g ELSE loads[u]
  BY <1>1, <1>4
<1>7. \A u \in Scheds : DOMAIN loads'[u] = DOMAIN loads[u]
  BY <1>5, <1>6
<1>8. ASSUME NEW u \in Up, NEW j \in InUse(u)
      PROVE  /\ DOMAIN loads'[u][j] = LoadFields
             /\ loads'[u][j].key = loads[u][j].key /\ loads'[u][j].slot = loads[u][j].slot
             /\ loads'[u][j].mask = loads[u][j].mask /\ loads'[u][j].failed = loads[u][j].failed
             /\ loads'[u][j].pending = loads[u][j].pending
  <2>1. CASE u = s /\ j = i
    BY <1>1, <1>3, <1>5, <1>6, <2>1
  <2>2. CASE ~(u = s /\ j = i)
    <3>1. loads'[u][j] = loads[u][j]
      BY <1>1, <1>5, <1>6, <2>2 DEF InUse
    <3> QED
      BY <1>2, <3>1
  <2> QED
    BY <2>1, <2>2
<1>9. \A u \in Up : InUse(u)' = InUse(u)
  BY <1>1, <1>7 DEF InUse
<1> QED
  BY <1>6, <1>7, <1>8, <1>9 DEF SameLoads

\* Reads and errors are counted one by one.
LEMMA CountedReads ==
  ASSUME NEW u \in [reads : Nat, errors : Nat, stops : Nat], NEW n \in Nat
  PROVE  LET x == [u EXCEPT !.reads = @ + n] IN
         /\ x \in [reads : Nat, errors : Nat, stops : Nat]
         /\ x.reads = u.reads + n /\ x.errors = u.errors /\ x.stops = u.stops
  OBVIOUS

\* An error of a read counts as one, and nothing else does.
LEMMA CountedError ==
  ASSUME NEW u \in [reads : Nat, errors : Nat, stops : Nat]
  PROVE  LET x == [u EXCEPT !.errors = @ + 1] IN
         /\ x \in [reads : Nat, errors : Nat, stops : Nat]
         /\ x.reads = u.reads /\ x.errors = u.errors + 1 /\ x.stops = u.stops
  OBVIOUS

\* A read ends: it moves from the kernel to the port, well or with an error.
LEMMA KernelCompletesStep ==
  ASSUME LoadInv, NEW r \in flight, NEW err \in BOOLEAN, KernelCompletes(r, err)
  PROVE  LoadInv'
<1> DEFINE q == [r EXCEPT !.err = err]
<1>1. /\ flight' = flight \ {r} /\ port' = Append(port, q)
      /\ UNCHANGED <<os, topo, pool, running, registered, slots, worker>>
  BY DEF KernelCompletes, setupVars
<1>2. r \in Reads /\ flight \subseteq Reads /\ IsFiniteSet(flight) /\ port \in Seq(Reads) /\ worker.done \in Seq(Reads)
  BY DEF LoadInv, Owned
<1>3. q \in Reads /\ SameRead(r, q) /\ q.owner = r.owner
  BY <1>2 DEF Reads, SameRead
<1> HIDE DEF q
<1>4. PICK s \in Up : \E i \in InUse(s) : r.owner = <<s, i>>
  BY <1>2 DEF Reads, Owners
<1>5. SameLoads /\ DOMAIN loads' = Scheds /\ \A u \in Scheds : DOMAIN loads'[u] = DOMAIN loads[u]
  <2>1. CASE err
    <3>1. loads' = loads
      BY <2>1 DEF KernelCompletes
    <3> QED
      BY <3>1 DEF SameLoads, LoadInv, LoadsTyped, IsLoad, SetUp, InUse
  <2>2. CASE ~err
    <3> PICK i \in InUse(s) : r.owner = <<s, i>>
      BY <1>4
    <3>1. loads' = [loads EXCEPT ![s][i].staging = FillStaging(s, loads[s][i], {r.slice})]
      BY <2>2 DEF KernelCompletes
    <3> QED
      BY <3>1, StagingOnly
  <2> QED
    BY <2>1, <2>2
<1>6. Up' = Up /\ Reads' = Reads
  <2>1. Up' = Up /\ \A u \in Up : InUse(u)' = InUse(u)
    BY <1>1, <1>5 DEF Up, SameLoads
  <2> QED
    BY <2>1, OwnersSame
<1>7. SetUp'
  BY <1>1, <1>5 DEF LoadInv, SetUp, Up, InUse
<1>8. LoadsTyped'
  BY <1>1, <1>5, <1>6 DEF LoadInv, LoadsTyped, IsLoad, SameLoads
<1>9. Owned' /\ Drains'
  <2>1. IsFiniteSet(flight')
    BY <1>1, <1>2, FS_RemoveElement
  <2> QED
    BY <1>1, <1>2, <1>3, <1>6, <2>1 DEF LoadInv, Owned, Drains
<1>10. Bounded'
  <2>1. /\ used \in [reads : Nat, errors : Nat, stops : Nat] /\ Spent <= MaxSpent /\ MaxSpent \in Nat
        /\ err => Spent < MaxSpent
        /\ used' = IF err THEN [used EXCEPT !.errors = @ + 1] ELSE used
    BY EngineAssumption DEF KernelCompletes, LoadInv, Bounded
  <2>2. CASE err
    <3> DEFINE x == [used EXCEPT !.errors = @ + 1]
    <3>1. x \in [reads : Nat, errors : Nat, stops : Nat]
      BY <2>1, CountedError
    <3>2. x.reads = used.reads /\ x.errors = used.errors + 1 /\ x.stops = used.stops
      BY <2>1, CountedError
    <3>3. used' = x
      BY <2>1, <2>2
    <3> HIDE DEF x
    <3>4. Spent' = Spent + 1 /\ Spent \in Nat
      BY <2>1, <3>2, <3>3 DEF Spent
    <3> QED
      BY <2>1, <2>2, <3>1, <3>3, <3>4 DEF Bounded
  <2>3. CASE ~err
    BY <2>1, <2>3 DEF Bounded, Spent
  <2> QED
    BY <2>2, <2>3
<1>11. Line' = Append(Line, q)
  <2>1. Append(port, q) = port \o <<q>> /\ <<q>> \in Seq(Reads)
    BY <1>2, <1>3, AppendProperties
  <2> DEFINE D == worker.done
  <2>2. D \in Seq(Reads)
    BY <1>2
  <2> HIDE DEF D
  <2>3. D \o (port \o <<q>>) = (D \o port) \o <<q>>
    BY <1>2, <2>1, <2>2, ConcatAssociative
  <2>4. Line' = Line \o <<q>>
    BY <1>1, <2>1, <2>3 DEF Line, D
  <2>5. Line \in Seq(Reads)
    BY QueueFacts DEF LoadInv
  <2> QED
    BY <1>3, <2>4, <2>5, AppendProperties
<1>12. Line \in Seq(Reads) /\ Queued = flight \cup ToSet(Line) /\ Queued' = flight' \cup ToSet(Line')
  <2>1. Owned' => (Queued = flight \cup ToSet(Line))'
    BY QueueFacts, PTL
  <2> QED
    BY <1>9, <2>1, QueueFacts DEF LoadInv
<1>13. Distinct(flight \ {r}, Append(Line, q)) /\ ToSet(Append(Line, q)) = ToSet(Line) \cup {q}
  <2>1. Distinct(flight, Line)
    BY DEF LoadInv, Apart
  <2> QED
    BY <1>3, <1>12, <2>1, DistinctAppend
<1>14. Apart'
  BY <1>1, <1>11, <1>13 DEF Apart
<1>15. \A x \in Queued : SameRead(x, r) => x = r
  BY <1>12 DEF LoadInv, Apart, Distinct, SameRead, ToSet
<1>16. Queued' = (Queued \ {r}) \cup {q}
  <2>1. r \notin ToSet(Line)
    BY DEF LoadInv, Apart, Distinct, SameRead, ToSet
  <2> QED
    BY <1>1, <1>11, <1>12, <1>13, <2>1
<1>17. Counted'
  <2> SUFFICES ASSUME NEW u \in running, NEW j \in InUse(u)
               PROVE  loads'[u][j].pending = Cardinality(OwnedBy(u, j)')
    BY <1>1, <1>5 DEF Counted, SameLoads, LoadInv, SetUp
  <2>1. loads'[u][j].pending = Cardinality(OwnedBy(u, j))
    BY <1>5 DEF LoadInv, Counted, SameLoads, SetUp
  <2>2. IsFiniteSet(OwnedBy(u, j)) /\ Cardinality(OwnedBy(u, j)) \in Nat
    BY QueueFacts DEF LoadInv
  <2>3. CASE r.owner = <<u, j>>
    <3> DEFINE S == OwnedBy(u, j) \ {r}
    <3>1. OwnedBy(u, j)' = S \cup {q} /\ r \in OwnedBy(u, j)
      BY <1>3, <1>12, <1>16, <2>3 DEF OwnedBy
    <3>2. q \notin S
      BY <1>3, <1>15 DEF OwnedBy, SameRead
    <3>3. IsFiniteSet(S) /\ Cardinality(S) = Cardinality(OwnedBy(u, j)) - 1
      BY <2>2, <3>1, FS_RemoveElement
    <3>4. Cardinality(S \cup {q}) = Cardinality(S) + 1
      BY <3>2, <3>3, FS_AddElement
    <3> HIDE DEF S
    <3> QED
      BY <2>1, <2>2, <3>1, <3>3, <3>4
  <2>4. CASE r.owner # <<u, j>>
    <3>1. OwnedBy(u, j)' = OwnedBy(u, j)
      BY <1>3, <1>16, <2>4 DEF OwnedBy
    <3> QED
      BY <2>1, <3>1
  <2> QED
    BY <2>3, <2>4
<1> QED
  BY <1>7, <1>8, <1>9, <1>10, <1>14, <1>17 DEF LoadInv

-----------------------------------------------------------------------------
\* Two sequences in a row have the members of both.
LEMMA JoinedRange ==
  ASSUME NEW A, NEW D \in Seq(A), NEW P \in Seq(A)
  PROVE  ToSet(D \o P) = ToSet(D) \cup ToSet(P)
<1>1. /\ DOMAIN (D \o P) = 1..(Len(D) + Len(P)) /\ DOMAIN D = 1..Len(D) /\ DOMAIN P = 1..Len(P)
      /\ \A i \in 1..Len(D) : (D \o P)[i] = D[i]
      /\ \A i \in 1..Len(P) : (D \o P)[Len(D) + i] = P[i]
      /\ Len(D) \in Nat /\ Len(P) \in Nat
  OBVIOUS
<1> DEFINE M == D \o P
<1> HIDE DEF M
<1>2. ASSUME NEW i \in DOMAIN M PROVE M[i] \in ToSet(D) \cup ToSet(P)
  <2>1. CASE i \in 1..Len(D)
    BY <1>1, <2>1 DEF M, ToSet
  <2>2. CASE i \notin 1..Len(D)
    <3>1. i - Len(D) \in 1..Len(P) /\ i = Len(D) + (i - Len(D))
      BY <1>1, <2>2 DEF M
    <3>2. M[i] = P[i - Len(D)]
      BY <1>1, <3>1 DEF M
    <3> QED
      BY <1>1, <3>1, <3>2 DEF ToSet
  <2> QED
    BY <2>1, <2>2
<1>3. ASSUME NEW i \in DOMAIN D PROVE D[i] \in ToSet(M)
  BY <1>1 DEF ToSet, M
<1>4. ASSUME NEW i \in DOMAIN P PROVE P[i] \in ToSet(M)
  <2>1. Len(D) + i \in 1..(Len(D) + Len(P)) /\ i \in 1..Len(P)
    BY <1>1
  <2>2. M[Len(D) + i] = P[i] /\ DOMAIN M = 1..(Len(D) + Len(P))
    BY <1>1, <2>1 DEF M
  <2> QED
    BY <2>1, <2>2 DEF ToSet
<1> QED
  BY <1>2, <1>3, <1>4 DEF M, ToSet

\* A sequence is one over every set that has its members.
LEMMA SeqWithin ==
  ASSUME NEW A, NEW B, NEW L \in Seq(A), ToSet(L) \subseteq B
  PROVE  L \in Seq(B)
<1>1. Len(L) \in Nat /\ L \in [1..Len(L) -> A] /\ \A i \in 1..Len(L) : L[i] \in B
  BY DEF ToSet
<1>2. L \in [1..Len(L) -> B]
  BY <1>1
<1> QED
  BY <1>1, <1>2

\* What is behind the first.
LEMMA TailFacts ==
  ASSUME NEW A, NEW L \in Seq(A), L # <<>>
  PROVE  /\ Len(L) \in Nat \ {0} /\ Tail(L) \in Seq(A) /\ Len(Tail(L)) = Len(L) - 1
         /\ (Tail(L) = <<>> <=> Len(L) = 1)
<1>1. Len(L) \in Nat /\ (Len(L) = 0 <=> L = <<>>)
  BY EmptySeq
<1>2. Tail(L) \in Seq(A) /\ Len(Tail(L)) = Len(L) - 1
  BY <1>1
<1>3. Tail(L) = <<>> <=> Len(Tail(L)) = 0
  BY <1>2, EmptySeq
<1> QED
  BY <1>1, <1>2, <1>3

\* The first of two sequences in a row is the first of the first one.
LEMMA TailOfConcat ==
  ASSUME NEW A, NEW D \in Seq(A), NEW P \in Seq(A), D # <<>>
  PROVE  D \o P # <<>> /\ Head(D \o P) = Head(D) /\ Tail(D \o P) = Tail(D) \o P
<1>1. Len(D) \in Nat \ {0} /\ Tail(D) \in Seq(A) /\ Len(P) \in Nat
  BY TailFacts
<1>2. /\ Len(D \o P) = Len(D) + Len(P) /\ D \o P \in Seq(A)
      /\ (D \o P)[1] = D[1]
  BY <1>1
<1>3. D \o P # <<>> /\ Head(D \o P) = Head(D)
  BY <1>1, <1>2
<1>4. Tail(D \o P) = Tail(D) \o P
  <2> DEFINE M == D \o P
             T == Tail(M)
             N == Tail(D) \o P
  <2>1. /\ Len(M) = Len(D) + Len(P) /\ M \in Seq(A) /\ Len(P) \in Nat /\ M # <<>>
        /\ \A i \in 1..(Len(D) + Len(P)) : M[i] = IF i <= Len(D) THEN D[i] ELSE P[i - Len(D)]
    BY <1>1, <1>2, <1>3, ConcatProperties
  <2>2. /\ Len(N) = Len(Tail(D)) + Len(P) /\ N \in Seq(A)
        /\ \A i \in 1..(Len(Tail(D)) + Len(P)) : N[i] = IF i <= Len(Tail(D)) THEN Tail(D)[i] ELSE P[i - Len(Tail(D))]
    BY <1>1, ConcatProperties
  <2>3. Len(Tail(D)) = Len(D) - 1 /\ \A i \in 1..(Len(D) - 1) : Tail(D)[i] = D[i + 1]
    BY <1>1
  <2> HIDE DEF M
  <2>4. Len(T) = Len(M) - 1 /\ T \in Seq(A) /\ \A i \in 1..(Len(M) - 1) : T[i] = M[i + 1]
    BY <2>1
  <2> HIDE DEF T, N
  <2>5. ASSUME NEW i \in 1..(Len(D) + Len(P) - 1) PROVE T[i] = N[i]
    <3>1. T[i] = M[i + 1] /\ i + 1 \in 1..(Len(D) + Len(P))
      BY <1>1, <2>1, <2>4
    <3>2. CASE i <= Len(D) - 1
      BY <1>1, <2>1, <2>2, <2>3, <3>1, <3>2
    <3>3. CASE i > Len(D) - 1
      <4>1. M[i + 1] = P[i + 1 - Len(D)]
        BY <1>1, <2>1, <3>1, <3>3
      <4>2. N[i] = P[i - (Len(D) - 1)]
        BY <1>1, <2>1, <2>2, <2>3, <3>3
      <4>3. i + 1 - Len(D) = i - (Len(D) - 1)
        BY <1>1
      <4> QED
        BY <3>1, <4>1, <4>2, <4>3
    <3> QED
      BY <1>1, <3>2, <3>3
  <2>6. Len(T) = Len(N) /\ Len(N) = Len(D) + Len(P) - 1
    BY <1>1, <2>1, <2>2, <2>3, <2>4
  <2>7. T = N
    BY <2>2, <2>4, <2>5, <2>6
  <2> QED
    BY <2>7 DEF T, N, M
<1> QED
  BY <1>3, <1>4

\* The worker takes the first in line.
LEMMA FirstInLine ==
  ASSUME LoadInv, worker.pc = "dispatch", WorkerMoves, port' = port
  PROVE  /\ Line # <<>> /\ Head(Line) = Head(worker.done) /\ Line' = Tail(Line)
         /\ worker'.done = Tail(worker.done) /\ worker' \in Worker
         /\ (worker'.pc = "dispatch" <=> worker'.done # <<>>)
<1> DEFINE D == worker.done
<1>1. worker \in Worker /\ D \in Seq(Reads) /\ port \in Seq(Reads) /\ D # <<>>
  BY DEF LoadInv, Owned, Drains, Worker, WorkerPcs
<1>2. worker' = IF Len(D) = 1 THEN PollNext([worker EXCEPT !.done = <<>>]) ELSE [worker EXCEPT !.done = Tail(@)]
  BY DEF WorkerMoves, WorkerNext
<1>3. Len(D) \in Nat \ {0} /\ Tail(D) \in Seq(Reads) /\ (Tail(D) = <<>> <=> Len(D) = 1)
  <2> HIDE DEF D
  <2> QED
    BY <1>1, TailFacts
<1>4. worker'.done = Tail(D) /\ worker' \in Worker /\ (worker'.pc = "dispatch" <=> worker'.done # <<>>)
  <2>1. CASE Len(D) = 1
    <3> DEFINE w == [worker EXCEPT !.done = <<>>]
    <3>1. <<>> \in Seq(Reads)
      OBVIOUS
    <3>2. w \in Worker /\ w.done = <<>>
      BY <1>1, <3>1 DEF Worker
    <3>3. worker' = PollNext(w)
      BY <1>2, <2>1
    <3> HIDE DEF w
    <3> QED
      BY <1>3, <2>1, <3>2, <3>3, PollNextFacts
  <2>2. CASE Len(D) # 1
    <3>1. worker' = [worker EXCEPT !.done = Tail(D)]
      BY <1>2, <2>2
    <3> HIDE DEF D
    <3>2. worker'.done = Tail(D) /\ worker'.pc = worker.pc /\ worker' \in Worker
      BY <1>1, <1>3, <3>1 DEF Worker
    <3> QED
      BY <1>3, <2>2, <3>2
  <2> QED
    BY <2>1, <2>2
<1> HIDE DEF D
<1>5. D \o port # <<>> /\ Head(D \o port) = Head(D) /\ Tail(D \o port) = Tail(D) \o port
  BY <1>1, TailOfConcat
<1> QED
  BY <1>4, <1>5 DEF Line, D

-----------------------------------------------------------------------------
\* What drain_completions leaves of the loads and slots of scheduler s when one
\* of the reads of entry i is drained: the last one gives the entry back and
\* settles the slot, any other one is counted.
Drained(s, i) ==
  /\ DOMAIN loads' = Scheds /\ \A u \in Scheds \ {s} : loads'[u] = loads[u]
  /\ \A j \in InUse(s) \ {i} : loads'[s][j] = loads[s][j]
  /\ IF loads[s][i].pending = 1 THEN InUse(s)' = InUse(s) \ {i}
     ELSE /\ InUse(s)' = InUse(s) /\ DOMAIN loads'[s][i] = LoadFields
          /\ loads'[s][i].key = loads[s][i].key /\ loads'[s][i].slot = loads[s][i].slot
          /\ loads'[s][i].mask = loads[s][i].mask /\ loads'[s][i].failed \in BOOLEAN
          /\ loads'[s][i].pending = loads[s][i].pending - 1
  /\ DOMAIN slots' = Scheds /\ \A u \in Scheds \ {s} : slots'[u] = slots[u]
  /\ slots'[s] \in [Slots(pool[s]) -> [state : SlotStates, key : DOMAIN topo[s].plan \cup {None}]]

\* drain_completions counts the read, and settles the load with the last one.
LEMMA DrainFacts ==
  ASSUME LoadInv, NEW s \in Up, NEW i \in InUse(s), NEW r \in Reads, r.owner = <<s, i>>, DrainCompletion(r)
  PROVE  Drained(s, i)
<1> DEFINE load == loads[s][i]
           next == [load EXCEPT !.pending = @ - 1, !.failed = @ \/ r.err]
           done == [slots[s][load.slot] EXCEPT !.state = IF next.failed THEN "FAILED" ELSE "READY",
                                               !.key = IF next.failed THEN None ELSE @]
           type == [state : SlotStates, key : DOMAIN topo[s].plan \cup {None}]
<1>1. /\ DOMAIN loads = Scheds /\ DOMAIN slots = Scheds /\ s \in Scheds /\ i \in DOMAIN loads[s]
      /\ slots[s] \in [Slots(pool[s]) -> type] /\ load.slot \in DOMAIN slots[s]
      /\ DOMAIN load = LoadFields /\ load.pending \in Nat /\ load.failed \in BOOLEAN
  BY DEF LoadInv, SetUp, LoadsTyped, IsLoad, InUse
<1>2. r.err \in BOOLEAN
  BY DEF Reads
<1>3. /\ DOMAIN next = LoadFields /\ next.key = load.key /\ next.slot = load.slot /\ next.mask = load.mask
      /\ next.pending = load.pending - 1 /\ next.failed = (load.failed \/ r.err)
  BY <1>1 DEF LoadFields
<1>4. next.failed \in BOOLEAN
  BY <1>1, <1>2, <1>3
<1>5. done \in type
  <2>1. slots[s][load.slot] \in type
    BY <1>1
  <2> DEFINE old == slots[s][load.slot]
             st == IF next.failed THEN "FAILED" ELSE "READY"
             key == IF next.failed THEN None ELSE old.key
  <2>2. st \in SlotStates /\ key \in DOMAIN topo[s].plan \cup {None}
    BY <2>1 DEF SlotStates
  <2>3. done = [old EXCEPT !.state = st, !.key = key]
    OBVIOUS
  <2> HIDE DEF old, st, key, done, next, load
  <2> QED
    BY <2>1, <2>2, <2>3 DEF old
<1>6. /\ loads' = IF next.pending = 0 THEN WithoutEntry(s, i) ELSE [loads EXCEPT ![s][i] = next]
      /\ slots' = IF next.pending = 0 THEN [slots EXCEPT ![s][load.slot] = done] ELSE slots
  BY DEF DrainCompletion
<1> HIDE DEF done, next
<1>7. DOMAIN slots' = Scheds /\ (\A u \in Scheds \ {s} : slots'[u] = slots[u]) /\ slots'[s] \in [Slots(pool[s]) -> type]
  <2>1. CASE next.pending = 0
    <3> DEFINE g == [slots[s] EXCEPT ![load.slot] = done]
    <3>1. g \in [Slots(pool[s]) -> type]
      BY <1>1, <1>5
    <3>2. slots' = [slots EXCEPT ![s] = g]
      BY <1>6, <2>1
    <3> HIDE DEF g
    <3> QED
      BY <1>1, <3>1, <3>2
  <2>2. CASE next.pending # 0
    BY <1>1, <1>6, <2>2
  <2> QED
    BY <2>1, <2>2
<1>8. CASE load.pending = 1
  <2>1. loads' = [loads EXCEPT ![s] = [j \in InUse(s) \ {i} |-> loads[s][j]]]
    BY <1>1, <1>3, <1>6, <1>8 DEF WithoutEntry, Restrict
  <2>2. /\ DOMAIN loads' = Scheds /\ \A u \in Scheds \ {s} : loads'[u] = loads[u]
        /\ loads'[s] = [j \in InUse(s) \ {i} |-> loads[s][j]]
    BY <1>1, <2>1
  <2> QED
    BY <1>7, <1>8, <2>2 DEF Drained, InUse
<1>9. CASE load.pending # 1
  <2> DEFINE g == [loads[s] EXCEPT ![i] = next]
  <2>1. loads' = [loads EXCEPT ![s] = g]
    BY <1>1, <1>3, <1>6, <1>9
  <2>2. DOMAIN g = DOMAIN loads[s] /\ g[i] = next /\ \A j \in DOMAIN loads[s] \ {i} : g[j] = loads[s][j]
    BY <1>1
  <2> HIDE DEF g
  <2>3. DOMAIN loads' = Scheds /\ loads'[s] = g /\ \A u \in Scheds \ {s} : loads'[u] = loads[u]
    BY <1>1, <2>1
  <2> QED
    BY <1>3, <1>4, <1>7, <1>9, <2>2, <2>3 DEF Drained, InUse
<1> QED
  BY <1>8, <1>9

\* A read is drained: of the reads it was the last or the count is one less.
LEMMA DispatchStep == ASSUME LoadInv, Dispatch PROVE LoadInv'
<1> DEFINE r == Head(worker.done)
<1>1. /\ worker.pc = "dispatch" /\ WorkerMoves /\ UNCHANGED <<os, topo, pool, running, registered, flight, port, used>>
      /\ IF r.owner[1] \in running THEN DrainCompletion(r) ELSE UNCHANGED <<mem, loads, slots>>
  BY DEF Dispatch, setupVars, engineVars
<1>2. /\ Line # <<>> /\ Head(Line) = r /\ Line' = Tail(Line) /\ worker' \in Worker
      /\ (worker'.pc = "dispatch" <=> worker'.done # <<>>) /\ worker'.done = Tail(worker.done)
  BY <1>1, FirstInLine
<1> HIDE DEF r
<1>3. Line \in Seq(Reads) /\ Queued = flight \cup ToSet(Line) /\ Queued \subseteq Reads
  BY QueueFacts DEF LoadInv
<1>4. /\ Distinct(flight, Tail(Line)) /\ r \in ToSet(Line)
      /\ flight \cup ToSet(Tail(Line)) = (flight \cup ToSet(Line)) \ {r}
  <2>1. Distinct(flight, Line)
    BY DEF LoadInv, Apart
  <2>2. /\ Distinct(flight, Tail(Line)) /\ Head(Line) \in ToSet(Line)
        /\ flight \cup ToSet(Tail(Line)) = (flight \cup ToSet(Line)) \ {Head(Line)}
    <3> DEFINE L == Line
    <3>1. L \in Seq(Reads) /\ L # <<>> /\ Distinct(flight, L)
      BY <1>2, <1>3, <2>1
    <3> HIDE DEF L
    <3>2. /\ Distinct(flight, Tail(L)) /\ Head(L) \in ToSet(L)
          /\ flight \cup ToSet(Tail(L)) = (flight \cup ToSet(L)) \ {Head(L)}
      <4>1. Distinct(flight, Tail(L))
        BY <3>1, DistinctTail
      <4>2. Head(L) \in ToSet(L)
        BY <3>1, DistinctTail
      <4>3. \A x : x \in flight \cup ToSet(Tail(L)) <=> x \in flight \cup ToSet(L) /\ x # Head(L)
        BY <3>1, DistinctTail
      <4> QED
        BY <4>1, <4>2, <4>3
    <3> QED
      BY <3>2 DEF L
  <2> QED
    BY <1>2, <2>2
<1>5. r \in Queued /\ r \in Reads
  BY <1>3, <1>4
<1>6. PICK s \in Up : \E i \in InUse(s) : r.owner = <<s, i>>
  BY <1>5 DEF Reads, Owners
<1> PICK i \in InUse(s) : r.owner = <<s, i>>
  BY <1>6
<1> DEFINE Rest == Queued \ {r}
\* Whatever the drain leaves, the reads left have their owners.
<1>7. ASSUME DOMAIN slots' = Scheds, DOMAIN loads' = Scheds,
             \A u \in Scheds \ Up : InUse(u)' = {},
             \A x \in Rest : x.owner \in Owners',
             LoadsTyped'
      PROVE  SetUp' /\ LoadsTyped' /\ Owned' /\ Drains' /\ Bounded' /\ Apart' /\ Queued' = Rest
  <2>1. SetUp' /\ Bounded'
    BY <1>1, <1>7 DEF LoadInv, SetUp, Up, Bounded, Spent
  <2>2. Drains'
    BY <1>2 DEF Drains
  <2>3. Apart'
    BY <1>1, <1>2, <1>4 DEF Apart
  <2>4. Rest \subseteq Reads'
    <3> SUFFICES ASSUME NEW x \in Rest PROVE x \in Reads'
      OBVIOUS
    <3>1. x \in Reads
      BY <1>3
    <3>2. x.owner \in Owners'
      BY <1>7
    <3> QED
      BY <3>1, <3>2 DEF Reads
  <2>5. flight \subseteq Rest /\ ToSet(worker'.done) \subseteq Rest /\ ToSet(port) \subseteq Rest
    <3>1. flight \cup ToSet(Tail(Line)) = Rest
      BY <1>3, <1>4
    <3>2. Tail(Line) = Tail(worker.done) \o port /\ worker'.done \in Seq(Reads) /\ port \in Seq(Reads)
      BY <1>1, <1>2 DEF Line, Worker, LoadInv, Owned
    <3>3. ToSet(worker'.done \o port) = ToSet(worker'.done) \cup ToSet(port)
      BY <3>2, JoinedRange
    <3>4. Tail(Line) = worker'.done \o port
      BY <1>2, <3>2
    <3> HIDE DEF Rest
    <3> QED
      BY <3>1, <3>3, <3>4
  <2>6. Owned'
    <3>1. worker'.done \in Seq(Reads') /\ port \in Seq(Reads')
      <4>1. worker'.done \in Seq(Reads) /\ port \in Seq(Reads)
        BY <1>2 DEF LoadInv, Owned, Worker
      <4> QED
        BY <2>4, <2>5, <4>1, SeqWithin
    <3>2. worker' \in [pc : WorkerPcs, snap : Seq(Up), at : Nat, done : Seq(Reads')]
      BY <1>2, <3>1 DEF Worker
    <3>3. Up' = Up
      BY <1>1 DEF Up
    <3> QED
      BY <1>1, <2>4, <2>5, <3>1, <3>2, <3>3 DEF LoadInv, Owned, WorkerPcs
  <2>7. Queued' = Rest
    <3>1. (Queued = flight \cup ToSet(Line))'
      <4>1. Owned' => (Queued = flight \cup ToSet(Line))'
        BY QueueFacts, PTL
      <4> QED
        BY <2>6, <4>1
    <3> QED
      BY <1>1, <1>2, <1>3, <1>4, <3>1
  <2> QED
    BY <1>7, <2>1, <2>2, <2>3, <2>6, <2>7
<1>8. \A u, j : OwnedBy(u, j) = {x \in Queued : x.owner = <<u, j>>}
  BY DEF OwnedBy
<1>9. CASE s \notin running
  <2>1. UNCHANGED <<loads, slots>>
    BY <1>1, <1>6, <1>9
  <2>2. \A u : InUse(u)' = InUse(u)
    BY <2>1 DEF InUse
  <2>3. Up' = Up /\ Owners' = Owners
    BY <1>1, <2>2, OwnersSame DEF Up
  <2>4. LoadsTyped'
    BY <1>1, <2>1, <2>2, <2>3 DEF LoadInv, LoadsTyped, IsLoad
  <2>5. \A x \in Rest : x.owner \in Owners'
    BY <1>3, <2>3 DEF Reads
  <2>6. SetUp' /\ LoadsTyped' /\ Owned' /\ Drains' /\ Bounded' /\ Apart' /\ Queued' = Rest
    BY <1>7, <2>1, <2>2, <2>4, <2>5 DEF LoadInv, SetUp
  <2>7. \A u \in running : \A j \in InUse(u) : OwnedBy(u, j)' = OwnedBy(u, j)
    BY <1>8, <1>9, <2>6 DEF OwnedBy
  <2>8. Counted'
    BY <1>1, <2>1, <2>2, <2>7 DEF LoadInv, Counted
  <2> QED
    BY <2>6, <2>8 DEF LoadInv
<1>10. CASE s \in running
  <2> DEFINE O == OwnedBy(s, i)
             last == loads[s][i].pending = 1
  <2>1. Drained(s, i)
    <3>1. DrainCompletion(r)
      BY <1>1, <1>10
    <3> QED
      BY <1>5, <3>1, DrainFacts
  <2>2. loads[s][i].pending = Cardinality(O) /\ IsFiniteSet(O) /\ r \in O
    BY <1>5, <1>8, <1>10, QueueFacts DEF LoadInv, Counted
  <2>3. Cardinality(O \ {r}) = Cardinality(O) - 1 /\ IsFiniteSet(O \ {r}) /\ Cardinality(O) \in Nat
    BY <2>2, FS_RemoveElement, FS_CardinalityType
  <2>4. last => O = {r}
    <3>1. last => Cardinality(O \ {r}) = 0
      BY <2>2, <2>3
    <3>2. last => O \ {r} = {}
      BY <2>3, <3>1, FS_EmptySet
    <3> QED
      BY <2>2, <3>2
  <2>5. InUse(s)' = (IF last THEN InUse(s) \ {i} ELSE InUse(s)) /\ \A u \in Scheds \ {s} : InUse(u)' = InUse(u)
    BY <2>1 DEF Drained, InUse
  <2>6. Up' = Up /\ Up \subseteq Scheds /\ running \subseteq Up
    BY <1>1 DEF Up, LoadInv, SetUp
  <2>7. LoadsTyped'
    <3> SUFFICES ASSUME NEW u \in Up
                 PROVE  /\ slots'[u] \in [Slots(pool[u]) -> [state : SlotStates, key : DOMAIN topo[u].plan \cup {None}]]
                        /\ \A j \in InUse(u)' : IsLoad(u, loads[u][j])'
      BY <1>1, <2>6 DEF LoadsTyped
    <3>1. CASE u # s
      <4>1. slots'[u] = slots[u] /\ loads'[u] = loads[u] /\ InUse(u)' = InUse(u)
        BY <2>1, <2>5, <2>6, <3>1 DEF Drained
      <4> QED
        BY <1>1, <4>1 DEF LoadInv, LoadsTyped, IsLoad
    <3>2. CASE u = s
      <4>1. slots'[s] \in [Slots(pool[s]) -> [state : SlotStates, key : DOMAIN topo[s].plan \cup {None}]]
        BY <2>1 DEF Drained
      <4>2. DOMAIN slots'[s] = DOMAIN slots[s]
        BY <4>1 DEF LoadInv, LoadsTyped
      <4>3. ASSUME NEW j \in InUse(s) \ {i} PROVE IsLoad(s, loads[s][j])'
        <5>1. loads'[s][j] = loads[s][j] /\ IsLoad(s, loads[s][j])
          BY <2>1 DEF Drained, LoadInv, LoadsTyped
        <5> QED
          BY <1>1, <4>2, <5>1 DEF IsLoad
      <4>4. ~last => IsLoad(s, loads[s][i])'
        <5>1. IsLoad(s, loads[s][i])
          BY DEF LoadInv, LoadsTyped
        <5>2. ~last => loads[s][i].pending - 1 \in Nat
          <6>1. Cardinality(O \ {r}) \in Nat
            BY <2>3, FS_CardinalityType
          <6> QED
            BY <2>2, <2>3, <6>1
        <5> QED
          BY <1>1, <2>1, <4>2, <5>1, <5>2 DEF IsLoad, Drained
      <4> QED
        BY <2>5, <3>2, <4>1, <4>3, <4>4
    <3> QED
      BY <3>1, <3>2
  <2>8. \A x \in Rest : x.owner \in Owners'
    <3> SUFFICES ASSUME NEW x \in Rest PROVE x.owner \in Owners'
      OBVIOUS
    <3>1. PICK u \in Up : \E j \in InUse(u) : x.owner = <<u, j>>
      BY <1>3 DEF Reads, Owners
    <3> PICK j \in InUse(u) : x.owner = <<u, j>>
      BY <3>1
    <3>2. j \in InUse(u)'
      <4>1. CASE u = s /\ j = i /\ last
        BY <1>8, <2>4, <4>1
      <4> QED
        BY <2>5, <2>6, <4>1
    <3> QED
      BY <2>6, <3>2 DEF Owners
  <2>9. SetUp' /\ LoadsTyped' /\ Owned' /\ Drains' /\ Bounded' /\ Apart' /\ Queued' = Rest
    <3>1. \A u \in Scheds \ Up : InUse(u)' = {}
      BY <2>5 DEF LoadInv, SetUp
    <3> QED
      BY <1>7, <2>1, <2>7, <2>8, <3>1 DEF Drained
  <2>10. Counted'
    <3> SUFFICES ASSUME NEW u \in running, NEW j \in InUse(u)'
                 PROVE  loads'[u][j].pending = Cardinality(OwnedBy(u, j)')
      BY <1>1 DEF Counted
    <3>1. CASE u = s /\ j = i
      <4>1. ~last
        BY <2>5, <3>1
      <4>2. OwnedBy(u, j)' = O \ {r}
        BY <1>8, <2>9, <3>1 DEF OwnedBy
      <4>3. loads'[s][i].pending = loads[s][i].pending - 1
        BY <2>1, <4>1 DEF Drained
      <4> QED
        BY <2>2, <2>3, <3>1, <4>2, <4>3
    <3>2. CASE ~(u = s /\ j = i)
      <4>1. OwnedBy(u, j)' = OwnedBy(u, j)
        BY <1>8, <2>9, <3>2 DEF OwnedBy
      <4>2. j \in InUse(u) /\ loads'[u][j] = loads[u][j]
        BY <2>1, <2>5, <2>6, <3>2 DEF Drained
      <4> QED
        BY <4>1, <4>2 DEF LoadInv, Counted
    <3> QED
      BY <3>1, <3>2
  <2> QED
    BY <2>9, <2>10 DEF LoadInv
<1> QED
  BY <1>9, <1>10

-----------------------------------------------------------------------------
\* The reads of a load are all different, and as many as pieces submitted.
LEMMA NewReads ==
  ASSUME NEW o, NEW c \in Nat
  PROVE  LET L == [i \in 1..c |-> Request(o, i, FALSE)]
         IN  /\ L \in Seq([owner : {o}, slice : Nat, err : BOOLEAN]) /\ Distinct({}, L)
             /\ IsFiniteSet(ToSet(L)) /\ Cardinality(ToSet(L)) = c /\ \A r \in ToSet(L) : r.owner = o
<1> DEFINE L == [i \in 1..c |-> Request(o, i, FALSE)]
           A == [owner : {o}, slice : Nat, err : BOOLEAN]
<1>1. /\ DOMAIN L = 1..c
      /\ \A i \in 1..c : L[i] \in A /\ L[i].owner = o /\ L[i].slice = i
  BY DEF Request
<1>2. L \in Seq(A)
  <2>1. L \in [1..c -> A]
    BY <1>1
  <2> HIDE DEF L, A
  <2> QED
    BY <2>1
<1> HIDE DEF L, A
<1>3. Distinct({}, L)
  BY <1>1 DEF Distinct, SameRead
<1>4. L \in Bijection(1..c, ToSet(L))
  <2>1. ToSet(L) = {L[i] : i \in 1..c}
    BY <1>1 DEF ToSet
  <2>2. L = [i \in 1..c |-> L[i]]
    BY <1>1, <1>2
  <2>3. \A i, j \in 1..c : L[i] = L[j] => i = j
    BY <1>1
  <2> QED
    BY <1>1, <2>1, <2>2, <2>3 DEF Bijection, Injection, Surjection, IsInjective
<1>5. IsFiniteSet(1..c) /\ Cardinality(1..c) = c
  BY FS_Interval
<1>6. IsFiniteSet(ToSet(L)) /\ Cardinality(ToSet(L)) = c
  <2>1. ExistsBijection(1..c, ToSet(L))
    BY <1>4 DEF ExistsBijection
  <2> QED
    BY <1>5, <2>1, FS_Bijection
<1>7. \A r \in ToSet(L) : r.owner = o
  BY <1>1 DEF ToSet
<1> QED
  BY <1>2, <1>3, <1>6, <1>7 DEF L, A

\* What start_async_load leaves, if it submits c > 0 reads: an entry that was free
\* is in use, for a load that waits for as many, which join the queues.
Started(s, idx, slot, key, c, failed) ==
  /\ idx \notin InUse(s)
  /\ \E x : /\ DOMAIN x = LoadFields /\ x.key = key /\ x.slot = slot /\ x.failed = failed
            /\ x.mask \subseteq DOMAIN topo[s].plan[key] /\ x.pending = c
            /\ loads' = [loads EXCEPT ![s] = With(@, idx, x)]
  /\ LET reqs == [i \in 1..c |-> Request(<<s, idx>>, i, FALSE)]
     IN  \/ flight' = flight /\ port' = port \o reqs
         \/ flight' = flight \cup ToSet(reqs) /\ port' = port

\* A load is started with the reads that are not refused, or fails at once.
LEMMA StartFacts ==
  ASSUME LoadInv, NEW s \in running, NEW slot, NEW key \in DOMAIN topo[s].plan, NEW refused,
         StartAsyncLoad(s, slot, key, refused)
  PROVE  /\ \E v \in DOMAIN topo[s].plan \cup {None} :
               slots' = [slots EXCEPT ![s][slot] = [state |-> "INFLIGHT", key |-> v]]
         /\ LET plan == topo[s].plan[key]
                sent == Submitted(s, slot, plan, refused)
            IN  \/ sent = {} /\ UNCHANGED <<loads, flight, port>>
                \/ \E idx : \E c \in 0..Len(plan) : Started(s, idx, slot, key, c, sent # DOMAIN plan)
<1> DEFINE plan == topo[s].plan[key]
           idx  == CHOOSE i \in FreeEntries(s) : TRUE
           sent == Submitted(s, slot, plan, refused)
           new  == [key |-> key, slot |-> slot, pending |-> Cardinality(sent),
                    failed |-> sent # DOMAIN plan, mask |-> StagingMask(s, slot, plan),
                    staging |-> [a \in 0..(pool[s].staging - 1) |-> Hole]]
           reqs == [i \in 1..Cardinality(sent) |-> Request(<<s, idx>>, i, FALSE)]
<1>1. Len(plan) \in Nat /\ DOMAIN plan = 1..Len(plan)
  BY DEF LoadInv, SetUp
<1>2. sent \subseteq DOMAIN plan /\ StagingMask(s, slot, plan) \subseteq DOMAIN plan
  BY DEF Submitted, StagingMask
<1>3. Cardinality(sent) \in 0..Len(plan)
  <2> HIDE DEF sent, plan
  <2>1. IsFiniteSet(1..Len(plan)) /\ Cardinality(1..Len(plan)) = Len(plan)
    <3>1. \A n \in Nat : IsFiniteSet(1..n) /\ Cardinality(1..n) = n
      BY FS_Interval
    <3> QED
      BY <1>1, <3>1
  <2>2. IsFiniteSet(sent) /\ Cardinality(sent) <= Cardinality(1..Len(plan))
    BY <1>1, <1>2, <2>1, FS_Subset
  <2>3. Cardinality(sent) \in Nat
    BY <2>2, FS_CardinalityType
  <2> QED
    BY <1>1, <2>1, <2>2, <2>3
<1>4. /\ FreeEntries(s) # {}
      /\ slots' = [slots EXCEPT ![s][slot] = [state |-> "INFLIGHT", key |-> IF sent = {} THEN None ELSE key]]
      /\ IF sent = {} THEN UNCHANGED <<mem, loads, flight, port>>
         ELSE IF os = "posix"
         THEN /\ mem' = FillMem(s, new, sent)
              /\ loads' = [loads EXCEPT ![s] = With(@, idx, [new EXCEPT !.staging = FillStaging(s, new, sent)])]
              /\ port' = port \o reqs
              /\ UNCHANGED flight
         ELSE /\ loads' = [loads EXCEPT ![s] = With(@, idx, new)]
              /\ flight' = flight \cup ToSet(reqs)
              /\ UNCHANGED <<mem, port>>
  BY DEF StartAsyncLoad
<1>5. idx \notin InUse(s)
  BY <1>4 DEF FreeEntries
<1>6. ASSUME NEW v
      PROVE  LET x == [new EXCEPT !.staging = v]
             IN  /\ DOMAIN x = LoadFields /\ x.key = key /\ x.slot = slot
                 /\ x.failed = (sent # DOMAIN plan)
                 /\ x.mask \subseteq DOMAIN plan /\ x.pending = Cardinality(sent)
  BY <1>2 DEF LoadFields
<1>7. new = [new EXCEPT !.staging = new.staging]
  OBVIOUS
<1> HIDE DEF idx, new
<1>8. CASE sent = {}
  <2>1. UNCHANGED <<loads, flight, port>>
    BY <1>4, <1>8
  <2>2. slots' = [slots EXCEPT ![s][slot] = [state |-> "INFLIGHT", key |-> None]]
    BY <1>4, <1>8
  <2>3. \E v \in DOMAIN topo[s].plan \cup {None} :
          slots' = [slots EXCEPT ![s][slot] = [state |-> "INFLIGHT", key |-> v]]
    BY <2>2
  <2> QED
    BY <1>8, <2>1, <2>3 DEF sent
<1>9. CASE sent # {}
  <2> HIDE DEF sent
  <2>1. Started(s, idx, slot, key, Cardinality(sent), sent # DOMAIN plan)
    <3>1. CASE os = "posix"
      BY <1>4, <1>5, <1>6, <1>9, <3>1 DEF Started
    <3>2. CASE os # "posix"
      <4>1. loads' = [loads EXCEPT ![s] = With(@, idx, [new EXCEPT !.staging = new.staging])]
        BY <1>4, <1>7, <1>9, <3>2
      <4> QED
        BY <1>4, <1>5, <1>6, <1>9, <3>2, <4>1 DEF Started
    <3> QED
      BY <3>1, <3>2
  <2>2. slots' = [slots EXCEPT ![s][slot] = [state |-> "INFLIGHT", key |-> key]]
    BY <1>4, <1>9
  <2>3. \E i : \E c \in 0..Len(plan) : Started(s, i, slot, key, c, sent # DOMAIN plan)
    <3> HIDE DEF plan
    <3> QED
      BY <1>3, <2>1
  <2>4. \E v \in DOMAIN topo[s].plan \cup {None} :
          slots' = [slots EXCEPT ![s][slot] = [state |-> "INFLIGHT", key |-> v]]
    BY <2>2
  <2> QED
    BY <2>3, <2>4 DEF sent
<1> QED
  BY <1>8, <1>9

\* A slot is taken for a load; the types of slots do not change.
LEMMA SlotTaken ==
  ASSUME LoadInv, NEW s \in Up, NEW slot \in DOMAIN slots[s], NEW v \in DOMAIN topo[s].plan \cup {None},
         slots' = [slots EXCEPT ![s][slot] = [state |-> "INFLIGHT", key |-> v]], UNCHANGED <<topo, pool>>
  PROVE  /\ DOMAIN slots' = Scheds
         /\ \A u \in Up : /\ slots'[u] \in [Slots(pool[u]) -> [state : SlotStates, key : DOMAIN topo[u].plan \cup {None}]]
                          /\ DOMAIN slots'[u] = DOMAIN slots[u]
<1> DEFINE x == [state |-> "INFLIGHT", key |-> v]
           g == [slots[s] EXCEPT ![slot] = x]
           Type(u) == [state : SlotStates, key : DOMAIN topo[u].plan \cup {None}]
<1>1. DOMAIN slots = Scheds /\ Up \subseteq Scheds /\ \A u \in Up : slots[u] \in [Slots(pool[u]) -> Type(u)]
  BY DEF LoadInv, SetUp, LoadsTyped
<1>2. x \in Type(s)
  BY DEF SlotStates
<1> HIDE DEF x, Type
<1>3. g \in [Slots(pool[s]) -> Type(s)]
  BY <1>1, <1>2
<1>4. slots' = [slots EXCEPT ![s] = g]
  BY DEF x
<1> HIDE DEF g
<1>5. DOMAIN slots' = Scheds /\ \A u \in Up : slots'[u] \in [Slots(pool[u]) -> Type(u)]
  <2>1. DOMAIN slots' = Scheds /\ slots'[s] = g /\ \A u \in Scheds \ {s} : slots'[u] = slots[u]
    BY <1>1, <1>4
  <2> QED
    BY <1>1, <1>3, <2>1
<1>6. \A u \in Up : DOMAIN slots'[u] = Slots(pool[u]) /\ DOMAIN slots[u] = Slots(pool[u])
  BY <1>1, <1>5
<1> QED
  BY <1>5, <1>6 DEF Type

\* A load is started: its reads are new, for no read has the entry it takes.
LEMMA StartedStep ==
  ASSUME LoadInv, NEW s \in running, NEW slot \in DOMAIN slots[s], NEW key \in DOMAIN topo[s].plan,
         NEW v \in DOMAIN topo[s].plan \cup {None}, NEW idx, NEW c \in Nat, NEW failed \in BOOLEAN,
         slots' = [slots EXCEPT ![s][slot] = [state |-> "INFLIGHT", key |-> v]],
         Started(s, idx, slot, key, c, failed), Bounded', UNCHANGED <<os, topo, pool, running, registered, worker>>
  PROVE  LoadInv'
<1> DEFINE o == <<s, idx>>
           reqs == [i \in 1..c |-> Request(o, i, FALSE)]
           New == [owner : {o}, slice : Nat, err : BOOLEAN]
<1>1. PICK x : /\ DOMAIN x = LoadFields /\ x.key = key /\ x.slot = slot /\ x.failed \in BOOLEAN
               /\ x.mask \subseteq DOMAIN topo[s].plan[key] /\ x.pending = c
               /\ loads' = [loads EXCEPT ![s] = With(loads[s], idx, x)]
  BY DEF Started
<1>2. \/ flight' = flight /\ port' = port \o reqs
      \/ flight' = flight \cup ToSet(reqs) /\ port' = port
  BY DEF Started
<1>3. /\ reqs \in Seq(New) /\ Distinct({}, reqs)
      /\ IsFiniteSet(ToSet(reqs)) /\ Cardinality(ToSet(reqs)) = c /\ \A r \in ToSet(reqs) : r.owner = o
  BY NewReads
<1> HIDE DEF reqs
<1>4. s \in Up /\ Up \subseteq Scheds /\ DOMAIN loads = Scheds /\ idx \notin InUse(s) /\ Up' = Up
  BY DEF LoadInv, SetUp, Started, Up
<1>5. /\ DOMAIN loads' = Scheds /\ InUse(s)' = InUse(s) \cup {idx} /\ loads'[s][idx] = x
      /\ \A j \in InUse(s) : loads'[s][j] = loads[s][j]
      /\ \A u \in Scheds \ {s} : loads'[u] = loads[u] /\ InUse(u)' = InUse(u)
  <2> DEFINE g == With(loads[s], idx, x)
  <2>1. DOMAIN g = InUse(s) \cup {idx} /\ g[idx] = x /\ \A j \in InUse(s) : g[j] = loads[s][j]
    BY <1>4 DEF With, InUse
  <2>2. loads' = [loads EXCEPT ![s] = g]
    BY <1>1
  <2> HIDE DEF g
  <2>3. DOMAIN loads' = Scheds /\ loads'[s] = g /\ \A u \in Scheds \ {s} : loads'[u] = loads[u]
    BY <1>4, <2>2
  <2> QED
    BY <2>1, <2>3 DEF InUse
<1>6. /\ DOMAIN slots' = Scheds
      /\ \A u \in Up : /\ slots'[u] \in [Slots(pool[u]) -> [state : SlotStates, key : DOMAIN topo[u].plan \cup {None}]]
                       /\ DOMAIN slots'[u] = DOMAIN slots[u]
  BY <1>4, SlotTaken
<1>7. SetUp'
  BY <1>4, <1>5, <1>6 DEF LoadInv, SetUp
<1>8. LoadsTyped'
  <2> SUFFICES ASSUME NEW u \in Up, NEW j \in InUse(u)' PROVE IsLoad(u, loads[u][j])'
    BY <1>4, <1>6 DEF LoadsTyped
  <2>1. CASE u = s /\ j = idx
    BY <1>1, <1>4, <1>5, <1>6, <2>1 DEF IsLoad
  <2>2. CASE ~(u = s /\ j = idx)
    <3>1. j \in InUse(u) /\ loads'[u][j] = loads[u][j]
      BY <1>4, <1>5, <2>2
    <3>2. IsLoad(u, loads[u][j])
      BY <3>1 DEF LoadInv, LoadsTyped
    <3> QED
      BY <1>6, <3>1, <3>2 DEF IsLoad
  <2> QED
    BY <2>1, <2>2
<1>9. Reads \subseteq Reads' /\ New \subseteq Reads'
  <2>1. Owners \subseteq Owners' /\ o \in Owners'
    <3>1. Owners' = UNION {{u} \X InUse(u)' : u \in Up}
      BY <1>4 DEF Owners
    <3>2. \A u \in Up : InUse(u) \subseteq InUse(u)'
      BY <1>4, <1>5
    <3> QED
      BY <1>4, <1>5, <3>1, <3>2 DEF Owners
  <2> QED
    BY <2>1 DEF Reads
<1>10. \A r \in Queued : r.owner # o
  <2>1. o \notin Owners
    BY <1>4 DEF Owners
  <2>2. Queued \subseteq Reads
    BY QueueFacts DEF LoadInv
  <2> HIDE DEF o
  <2> QED
    BY <2>1, <2>2 DEF Reads
<1>11. /\ Line \in Seq(Reads) /\ Queued = flight \cup ToSet(Line) /\ worker.done \in Seq(Reads) /\ port \in Seq(Reads)
       /\ flight \subseteq Reads /\ IsFiniteSet(flight) /\ Distinct(flight, Line)
  BY QueueFacts DEF LoadInv, Owned, Apart
<1>12. Line \in Seq(Reads') /\ reqs \in Seq(Reads')
  BY <1>3, <1>9, <1>11, SeqOver
<1>13. /\ Distinct(flight, Line \o reqs) /\ ToSet(Line \o reqs) = ToSet(Line) \cup ToSet(reqs)
       /\ Distinct(flight \cup ToSet(reqs), Line)
  <2>1. \A r \in flight \cup ToSet(Line), q \in ToSet(reqs) : ~SameRead(r, q)
    BY <1>3, <1>10, <1>11 DEF SameRead
  <2> QED
    BY <1>3, <1>11, <1>12, <2>1, DistinctJoin
<1>14. Owned' /\ Drains' /\ Apart' /\ Queued' = Queued \cup ToSet(reqs)
  <2>1. worker \in [pc : WorkerPcs, snap : Seq(Up), at : Nat, done : Seq(Reads')]
    <3>1. worker.done \in Seq(Reads')
      BY <1>9, <1>11, SeqOver
    <3> QED
      BY <3>1 DEF LoadInv, Owned, WorkerPcs
  <2>2. Drains'
    BY DEF LoadInv, Drains
  <2>3. CASE flight' = flight /\ port' = port \o reqs
    <3>1. port' \in Seq(Reads')
      <4>1. port \in Seq(Reads')
        BY <1>9, <1>11, SeqOver
      <4> QED
        BY <1>12, <2>3, <4>1
    <3>2. Owned'
      BY <1>4, <1>9, <1>11, <2>1, <2>3, <3>1 DEF Owned, WorkerPcs
    <3>3. Line' = Line \o reqs
      <4> DEFINE D == worker.done
                 R == Reads'
      <4>1. D \in Seq(R) /\ port \in Seq(R) /\ reqs \in Seq(R)
        BY <1>9, <1>11, <1>12, SeqOver
      <4> HIDE DEF D, R
      <4>2. (D \o port) \o reqs = D \o (port \o reqs)
        BY ONLY <4>1, ConcatAssociative
      <4> QED
        BY <2>3, <4>2 DEF Line, D
    <3>4. Apart'
      BY <1>13, <2>3, <3>3 DEF Apart
    <3>5. Queued' = Queued \cup ToSet(reqs)
      <4>1. Owned' => (Queued = flight \cup ToSet(Line))'
        BY QueueFacts, PTL
      <4>2. Queued' = flight \cup ToSet(Line \o reqs)
        BY <2>3, <3>2, <3>3, <4>1
      <4> QED
        BY <1>11, <1>13, <4>2
    <3> QED
      BY <2>2, <3>2, <3>4, <3>5
  <2>4. CASE flight' = flight \cup ToSet(reqs) /\ port' = port
    <3>1. ToSet(reqs) \subseteq Reads'
      BY <1>12, FiniteRange
    <3>2. flight' \subseteq Reads' /\ IsFiniteSet(flight') /\ port' \in Seq(Reads')
      BY <1>3, <1>9, <1>11, <2>4, <3>1, FS_Union, SeqOver
    <3>3. Owned'
      BY <1>4, <2>1, <3>2 DEF Owned, WorkerPcs
    <3>4. Line' = Line
      BY <2>4 DEF Line
    <3>5. Apart'
      BY <1>13, <2>4, <3>4 DEF Apart
    <3>6. Queued' = Queued \cup ToSet(reqs)
      BY <2>4 DEF Queued
    <3> QED
      BY <2>2, <3>3, <3>5, <3>6
  <2> QED
    BY <1>2, <2>3, <2>4
<1>15. Counted'
  <2> SUFFICES ASSUME NEW u \in running, NEW j \in InUse(u)'
               PROVE  loads'[u][j].pending = Cardinality(OwnedBy(u, j)')
    BY DEF Counted
  <2>1. OwnedBy(u, j)' = {r \in Queued \cup ToSet(reqs) : r.owner = <<u, j>>}
    BY <1>14 DEF OwnedBy
  <2>2. CASE u = s /\ j = idx
    <3>1. OwnedBy(u, j)' = ToSet(reqs)
      BY <1>3, <1>10, <2>1, <2>2
    <3> QED
      BY <1>1, <1>3, <1>5, <2>2, <3>1
  <2>3. CASE ~(u = s /\ j = idx)
    <3>1. OwnedBy(u, j)' = OwnedBy(u, j)
      BY <1>3, <2>1, <2>3 DEF OwnedBy
    <3>2. j \in InUse(u) /\ loads'[u][j] = loads[u][j]
      <4>1. u \in Scheds
        BY <1>4 DEF LoadInv, SetUp
      <4> QED
        BY <1>5, <2>3, <4>1
    <3> QED
      BY <3>1, <3>2 DEF LoadInv, Counted
  <2> QED
    BY <2>2, <2>3
<1> QED
  BY <1>7, <1>8, <1>14, <1>15 DEF LoadInv

\* start_async_load in the worker's tick: within the bound on reads and errors.
LEMMA LoadStep ==
  ASSUME LoadInv, NEW s \in running, NEW slot \in DOMAIN slots[s], NEW key \in DOMAIN topo[s].plan,
         NEW refused \in 0..Len(topo[s].plan[key]), Load(s, slot, key, refused)
  PROVE  LoadInv'
<1>1. /\ StartAsyncLoad(s, slot, key, refused) /\ UNCHANGED <<os, topo, pool, running, registered, worker>>
      /\ Spent + Len(topo[s].plan[key]) + (IF refused = 0 THEN 0 ELSE 1) <= MaxSpent
      /\ used' = [used EXCEPT !.reads = @ + Len(topo[s].plan[key]), !.errors = IF refused # 0 THEN @ + 1 ELSE @]
  BY DEF Load, setupVars
<1>2. s \in Up /\ Len(topo[s].plan[key]) \in Nat
  BY DEF LoadInv, SetUp
<1>3. Bounded'
  <2> DEFINE n == Len(topo[s].plan[key])
  <2>1. used \in [reads : Nat, errors : Nat, stops : Nat] /\ n \in Nat
    BY <1>2 DEF LoadInv, Bounded
  <2> DEFINE u == [used EXCEPT !.reads = @ + n]
  <2>2. u \in [reads : Nat, errors : Nat, stops : Nat]
    BY <2>1, CountedReads
  <2>3. u.reads = used.reads + n /\ u.errors = used.errors /\ u.stops = used.stops
    BY <2>1, CountedReads
  <2>4. /\ used' = [used EXCEPT !.reads = @ + n, !.errors = IF refused # 0 THEN @ + 1 ELSE @]
        /\ Spent + n + (IF refused = 0 THEN 0 ELSE 1) <= MaxSpent
    BY <1>1
  <2>5. /\ refused = 0 => used' = u
        /\ refused # 0 => used' = [u EXCEPT !.errors = @ + 1]
    BY <2>1, <2>4
  <2> HIDE DEF n, u
  <2>6. CASE refused = 0
    <3>1. Spent' = Spent + n
      BY <2>1, <2>3, <2>5, <2>6 DEF Spent
    <3>2. Spent' <= MaxSpent
      <4>1. Spent + n + 0 <= MaxSpent
        BY <2>4, <2>6
      <4>2. Spent + n + 0 = Spent + n
        BY <2>1 DEF Spent
      <4> QED
        BY <3>1, <4>1, <4>2
    <3>3. used' \in [reads : Nat, errors : Nat, stops : Nat]
      BY <2>2, <2>5, <2>6
    <3> QED
      BY <3>2, <3>3 DEF Bounded
  <2>7. CASE refused # 0
    <3> DEFINE x == [u EXCEPT !.errors = @ + 1]
    <3>1. x \in [reads : Nat, errors : Nat, stops : Nat]
      BY <2>2, CountedError
    <3>2. x.reads = u.reads /\ x.errors = u.errors + 1 /\ x.stops = u.stops
      BY <2>2, CountedError
    <3>3. used' = x
      BY <2>5, <2>7
    <3> HIDE DEF x
    <3>4. Spent' = Spent + n + 1
      BY <2>1, <2>3, <3>2, <3>3 DEF Spent
    <3> QED
      BY <2>4, <2>7, <3>1, <3>3, <3>4 DEF Bounded
  <2> QED
    BY <2>6, <2>7
<1>4. PICK v \in DOMAIN topo[s].plan \cup {None} :
        slots' = [slots EXCEPT ![s][slot] = [state |-> "INFLIGHT", key |-> v]]
  BY <1>1, StartFacts
<1>5. CASE UNCHANGED <<loads, flight, port>>
  <2>1. /\ DOMAIN slots' = Scheds
        /\ \A u \in Up : /\ slots'[u] \in [Slots(pool[u]) -> [state : SlotStates, key : DOMAIN topo[u].plan \cup {None}]]
                         /\ DOMAIN slots'[u] = DOMAIN slots[u]
    BY <1>1, <1>2, <1>4, SlotTaken
  <2>2. SetUp' /\ LoadsTyped'
    BY <1>1, <1>5, <2>1 DEF LoadInv, SetUp, LoadsTyped, IsLoad, Up, InUse
  <2>3. Owned' /\ Drains'
    BY <1>1, <1>5 DEF LoadInv, Owned, Drains, Reads, Owners, Up, InUse
  <2>4. Apart' /\ Counted'
    BY <1>1, <1>5 DEF LoadInv, Apart, Line, Counted, InUse, OwnedBy, Queued
  <2> QED
    BY <1>3, <2>2, <2>3, <2>4 DEF LoadInv
<1>6. CASE \E idx : \E c \in Nat, failed \in BOOLEAN : Started(s, idx, slot, key, c, failed)
  <2> PICK idx : \E c \in Nat, failed \in BOOLEAN : Started(s, idx, slot, key, c, failed)
    BY <1>6
  <2> PICK c \in Nat, failed \in BOOLEAN : Started(s, idx, slot, key, c, failed)
    OBVIOUS
  <2> QED
    BY <1>1, <1>3, <1>4, StartedStep
<1>7. ASSUME NEW n \in Nat, NEW failed \in BOOLEAN,
             \E idx : \E c \in 0..n : Started(s, idx, slot, key, c, failed)
      PROVE  LoadInv'
  <2>1. \E idx : \E c \in Nat : Started(s, idx, slot, key, c, failed)
    BY <1>7
  <2> QED
    BY <1>6, <2>1
<1> QED
  BY <1>1, <1>2, <1>5, <1>7, StartFacts

-----------------------------------------------------------------------------
\* Every action keeps the invariant.
LEMMA LoadInvStep == LoadInv /\ [Next]_vars => LoadInv'
<1> SUFFICES ASSUME LoadInv, [Next]_vars PROVE LoadInv'
  OBVIOUS
<1> USE DEF vars, setupVars, schedVars, engineVars
<1>1. ASSUME NEW main, NEW fmt, Convert(main, fmt) PROVE LoadInv'
  <2>1. registered' \in Seq(Up)
    BY <1>1 DEF Convert, LoadInv, SetUp
  <2> QED
    BY <1>1, <2>1, Unchanged DEF Convert
<1>2. ASSUME NEW s \in Scheds, NEW main, SetupFrom(s, main) PROVE LoadInv'
  BY <1>2, SetupStep
<1>3. ASSUME NEW s \in Scheds, StopFlag(s) \/ Unregister(s) PROVE LoadInv'
  BY <1>3, StopStep
<1>4. ASSUME NEW s \in running, NEW slot \in DOMAIN slots[s], NEW key \in DOMAIN topo[s].plan,
             NEW refused \in 0..Len(topo[s].plan[key]), Load(s, slot, key, refused)
      PROVE  LoadInv'
  BY <1>4, LoadStep
<1>5. CASE Snapshot \/ Harvest \/ EndTick
  BY <1>5, TickStep
<1>6. CASE Dispatch
  BY <1>6, DispatchStep
<1>7. ASSUME NEW r \in flight, NEW err \in BOOLEAN, KernelCompletes(r, err) PROVE LoadInv'
  BY <1>7, KernelCompletesStep
<1>8. CASE UNCHANGED vars
  <2>1. registered' \in Seq(Up)
    BY <1>8 DEF LoadInv, SetUp
  <2> QED
    BY <1>8, <2>1, Unchanged
<1> QED
  BY <1>1, <1>2, <1>3, <1>4, <1>5, <1>6, <1>7, <1>8 DEF Next, WorkerStep, KernelStep

\* Of whatever has happened: conversions, set-ups, loads, errors and stops.
THEOREM LoadInvariant == Spec => []LoadInv
<1>1. Init => LoadInv
  BY LoadInit
<1>2. LoadInv /\ [Next]_vars => LoadInv'
  BY LoadInvStep
<1> QED
  BY <1>1, <1>2, PTL DEF Spec

\* Every variable has its type: a load is for a slot and an expert of its
\* scheduler, and its staging_mask names pieces of the expert's plan.
THEOREM LoadTyped == Spec => []TypeOK
<1>1. LoadInv => TypeOK
  <2> SUFFICES ASSUME LoadInv PROVE TypeOK
    OBVIOUS
  <2>1. ToSet(registered) \subseteq Up
    BY FiniteRange DEF LoadInv, SetUp
  <2>2. Spent \in 0..MaxSpent
    BY EngineAssumption DEF LoadInv, Bounded, Spent
  <2>3. os \in {"posix", "win", None} /\ running \subseteq Up /\ worker.pc \in {"off", "idle", "poll", "dispatch", "accept"}
    BY DEF LoadInv, SetUp, Owned
  <2> QED
    BY <2>1, <2>2, <2>3 DEF TypeOK, LoadInv, LoadsTyped, IsLoad, SlotStates
<1> QED
  BY <1>1, LoadInvariant, PTL

\* The pending count of a load is the number of its requests that are still to be
\* drained, and a ring entry is free only when none is (start_async_load,
\* drain_completions).
THEOREM PendingCounts == Spec => []PendingExact
<1>1. LoadInv => PendingExact
  <2> SUFFICES ASSUME LoadInv PROVE PendingExact
    OBVIOUS
  <2>1. ASSUME NEW r \in Queued PROVE r.owner[2] \in InUse(r.owner[1])
    <3>1. r \in Reads
      BY QueueFacts DEF LoadInv
    <3>2. PICK s \in Up : \E i \in InUse(s) : r.owner = <<s, i>>
      BY <3>1 DEF Reads, Owners
    <3> QED
      BY <3>2
  <2> QED
    BY <2>1 DEF PendingExact, LoadInv, Counted
<1> QED
  BY <1>1, LoadInvariant, PTL

-----------------------------------------------------------------------------
(* What the steps that move reads and loads have in common.                *)

\* The owner of a read is a ring entry in use.
LEMMA OwnerOf ==
  ASSUME NEW r \in Reads
  PROVE  \E s \in Up : \E i \in InUse(s) : r.owner = <<s, i>>
BY DEF Reads, Owners

\* What is queued is a read.
LEMMA QueuedReads == LoadInv => Queued \subseteq Reads
BY QueueFacts DEF LoadInv

\* A read that ends keeps its owner and its piece.
LEMMA KernelQueue ==
  ASSUME LoadInv, NEW r \in flight, NEW err \in BOOLEAN, KernelCompletes(r, err)
  PROVE  /\ UNCHANGED <<topo, pool, slots, running>> /\ SameLoads
         /\ \A q \in Queued' : \E x \in Queued : SameRead(q, x) /\ (q.err => err \/ x.err)
<1> DEFINE q == [r EXCEPT !.err = err]
<1>1. /\ flight' = flight \ {r} /\ port' = Append(port, q) /\ UNCHANGED <<topo, pool, slots, running, worker>>
  BY DEF KernelCompletes, setupVars
<1>2. r \in Reads /\ port \in Seq(Reads)
  BY DEF LoadInv, Owned
<1>3. q \in Reads /\ SameRead(q, r) /\ (q.err <=> err)
  BY <1>2 DEF Reads, SameRead
<1> HIDE DEF q
<1>4. ToSet(port') = ToSet(port) \cup {q}
  <2>1. /\ DOMAIN port' = 1..(Len(port) + 1) /\ DOMAIN port = 1..Len(port) /\ Len(port) \in Nat
        /\ \A i \in 1..Len(port) : port'[i] = port[i]
        /\ port'[Len(port) + 1] = q
    BY <1>1, <1>2, <1>3
  <2> QED
    BY <2>1 DEF ToSet
<1>5. \A x \in Queued' : x = q \/ x \in Queued
  BY <1>1, <1>4 DEF Queued
<1>6. ASSUME NEW y \in Queued' PROVE \E x \in Queued : SameRead(y, x) /\ (y.err => err \/ x.err)
  <2>1. r \in Queued
    BY DEF Queued
  <2> QED
    BY <1>3, <1>5, <2>1 DEF SameRead
<1>7. SameLoads
  <2>1. PICK s \in Up : \E i \in InUse(s) : r.owner = <<s, i>>
    BY <1>2, OwnerOf
  <2> PICK i \in InUse(s) : r.owner = <<s, i>>
    BY <2>1
  <2>2. CASE err
    <3>1. loads' = loads
      BY <2>2 DEF KernelCompletes
    <3> QED
      BY <3>1 DEF SameLoads, LoadInv, LoadsTyped, IsLoad, InUse
  <2>3. CASE ~err
    <3>1. loads' = [loads EXCEPT ![s][i].staging = FillStaging(s, loads[s][i], {r.slice})]
      BY <2>3 DEF KernelCompletes
    <3> QED
      BY <3>1, StagingOnly
  <2> QED
    BY <2>2, <2>3
<1> QED
  BY <1>1, <1>6, <1>7

\* The first read that is harvested is drained; it leaves the queues.
LEMMA DispatchQueue ==
  ASSUME LoadInv, Dispatch
  PROVE  LET r == Head(worker.done)
         IN  /\ r \in Queued /\ r \in Reads /\ Queued' \subseteq Queued
             /\ UNCHANGED <<topo, pool, running>>
             /\ IF r.owner[1] \in running THEN DrainCompletion(r) ELSE UNCHANGED <<mem, loads, slots>>
<1> DEFINE r == Head(worker.done)
           D == worker.done
<1>1. /\ worker.pc = "dispatch" /\ WorkerMoves /\ UNCHANGED <<topo, pool, running, flight, port>>
      /\ IF r.owner[1] \in running THEN DrainCompletion(r) ELSE UNCHANGED <<mem, loads, slots>>
  BY DEF Dispatch, setupVars, engineVars
<1>2. D \in Seq(Reads) /\ D # <<>> /\ worker'.done = Tail(D)
  BY <1>1, FirstInLine DEF LoadInv, Owned, Drains
<1>3. r \in ToSet(D) /\ ToSet(worker'.done) \subseteq ToSet(D) /\ r \in Reads
  <2> HIDE DEF D
  <2>1. /\ DOMAIN D = 1..Len(D) /\ Len(D) \in Nat \ {0} /\ DOMAIN Tail(D) = 1..(Len(D) - 1)
        /\ \A i \in 1..(Len(D) - 1) : Tail(D)[i] = D[i + 1]
        /\ Head(D) = D[1]
    BY <1>2
  <2>2. Head(D) \in ToSet(D) /\ ToSet(Tail(D)) \subseteq ToSet(D) /\ Head(D) \in Reads
    BY <1>2, <2>1 DEF ToSet
  <2> QED
    BY <1>2, <2>2 DEF D
<1> HIDE DEF D
<1>4. Queued' \subseteq Queued /\ r \in Queued
  BY <1>1, <1>3 DEF Queued, D
<1> QED
  BY <1>1, <1>3, <1>4

\* The reads of a load that is started join the queues, and no others.
LEMMA StartedReads ==
  ASSUME LoadInv, NEW s, NEW slot, NEW key, NEW idx, NEW c \in Nat, NEW failed,
         Started(s, idx, slot, key, c, failed), worker' = worker
  PROVE  LET reqs == [i \in 1..c |-> Request(<<s, idx>>, i, FALSE)]
         IN  /\ \A q \in ToSet(reqs) : q.owner = <<s, idx>> /\ q.slice \in 1..c /\ ~q.err
             /\ \A q : q \in Queued' <=> q \in Queued \/ q \in ToSet(reqs)
             /\ \A q : /\ q \in flight => q \in flight'
                       /\ q \in flight' => q \in flight \/ q \in ToSet(reqs)
<1> DEFINE reqs == [i \in 1..c |-> Request(<<s, idx>>, i, FALSE)]
           A == [owner : {<<s, idx>>}, slice : Nat, err : BOOLEAN]
<1>1. \/ flight' = flight /\ port' = port \o reqs
      \/ flight' = flight \cup ToSet(reqs) /\ port' = port
  BY DEF Started
<1>2. \A q \in ToSet(reqs) : q.owner = <<s, idx>> /\ q.slice \in 1..c /\ ~q.err
  BY DEF ToSet, Request
<1>3. reqs \in Seq(A) /\ port \in Seq(Reads)
  BY NewReads DEF LoadInv, Owned
<1> HIDE DEF reqs, A
<1>4. ToSet(port \o reqs) = ToSet(port) \cup ToSet(reqs)
  <2>1. port \in Seq(Reads \cup A) /\ reqs \in Seq(Reads \cup A)
    BY <1>3, SeqOver
  <2> QED
    BY <2>1, JoinedRange
<1>5. \A q : q \in Queued' <=> q \in Queued \/ q \in ToSet(reqs)
  BY <1>1, <1>4 DEF Queued
<1>6. \A q : (q \in flight => q \in flight') /\ (q \in flight' => q \in flight \/ q \in ToSet(reqs))
  BY <1>1
<1> QED
  BY <1>2, <1>5, <1>6 DEF reqs

\* A load that is started has a ring entry and a slot, and its reads.
LEMMA TakenFacts ==
  ASSUME LoadInv, NEW s \in running, NEW slot \in DOMAIN slots[s], NEW key \in DOMAIN topo[s].plan,
         NEW v, slots' = [slots EXCEPT ![s][slot] = [state |-> "INFLIGHT", key |-> v]],
         NEW idx, NEW c \in Nat, NEW failed, Started(s, idx, slot, key, c, failed),
         worker' = worker
  PROVE  /\ \A u \in Up \ {s} : loads'[u] = loads[u] /\ InUse(u)' = InUse(u)
         /\ idx \notin InUse(s) /\ InUse(s)' = InUse(s) \cup {idx}
         /\ loads'[s][idx].slot = slot /\ loads'[s][idx].key = key /\ loads'[s][idx].failed = failed
         /\ \A j \in InUse(s) : loads'[s][j] = loads[s][j]
         /\ \A q \in Queued' : \/ q \in Queued
                               \/ q.owner = <<s, idx>> /\ q.slice \in 1..c /\ ~q.err
<1> DEFINE reqs == [i \in 1..c |-> Request(<<s, idx>>, i, FALSE)]
<1>1. s \in Scheds /\ Up \subseteq Scheds /\ DOMAIN loads = Scheds
  BY DEF LoadInv, SetUp
<1>2. PICK x : x.slot = slot /\ x.key = key /\ x.failed = failed /\ loads' = [loads EXCEPT ![s] = With(loads[s], idx, x)]
  BY DEF Started
<1>3. idx \notin InUse(s)
  BY DEF Started
<1> DEFINE g == With(loads[s], idx, x)
<1>4. DOMAIN g = InUse(s) \cup {idx} /\ g[idx] = x /\ \A j \in InUse(s) : g[j] = loads[s][j]
  BY <1>3 DEF With, InUse
<1> HIDE DEF g
<1>5. loads'[s] = g /\ \A u \in Up \ {s} : loads'[u] = loads[u]
  BY <1>1, <1>2 DEF g
<1>6. /\ \A u \in Up \ {s} : InUse(u)' = InUse(u)
      /\ InUse(s)' = InUse(s) \cup {idx} /\ loads'[s][idx] = x
      /\ \A j \in InUse(s) : loads'[s][j] = loads[s][j]
  BY <1>4, <1>5 DEF InUse
<1>7. /\ \A q \in ToSet(reqs) : q.owner = <<s, idx>> /\ q.slice \in 1..c /\ ~q.err
      /\ \A q : q \in Queued' <=> q \in Queued \/ q \in ToSet(reqs)
  BY StartedReads
<1> QED
  BY <1>2, <1>3, <1>5, <1>6, <1>7

\* What a scheduler's slots are once one of them is taken.
LEMMA TakenSlots ==
  ASSUME LoadInv, NEW s \in Up, NEW slot \in DOMAIN slots[s], NEW v,
         slots' = [slots EXCEPT ![s][slot] = [state |-> "INFLIGHT", key |-> v]]
  PROVE  /\ \A u \in Up \ {s} : slots'[u] = slots[u]
         /\ DOMAIN slots'[s] = DOMAIN slots[s] /\ slots'[s][slot].state = "INFLIGHT" /\ slots'[s][slot].key = v
         /\ \A x \in DOMAIN slots[s] \ {slot} : slots'[s][x] = slots[s][x]
<1> DEFINE w == [state |-> "INFLIGHT", key |-> v]
           h == [slots[s] EXCEPT ![slot] = w]
<1>1. w.state = "INFLIGHT" /\ w.key = v
  OBVIOUS
<1> HIDE DEF w
<1>2. DOMAIN h = DOMAIN slots[s] /\ h[slot] = w /\ \A x \in DOMAIN slots[s] \ {slot} : h[x] = slots[s][x]
  OBVIOUS
<1>3. slots' = [slots EXCEPT ![s] = h]
  BY DEF w
<1> HIDE DEF h
<1>4. slots'[s] = h /\ \A u \in Up \ {s} : slots'[u] = slots[u]
  BY <1>3 DEF LoadInv, SetUp
<1> QED
  BY <1>1, <1>2, <1>4

-----------------------------------------------------------------------------
(* Without an error of a read no load fails.                               *)

\* As long as no read has failed: no load has, none of the reads left will, and a
\* slot that waits has its load.
Sound ==
  used.errors = 0 =>
    /\ \A s \in Up : \A x \in DOMAIN slots[s] :
         /\ slots[s][x].state # "FAILED"
         /\ slots[s][x].state = "INFLIGHT" => \E i \in InUse(s) : loads[s][i].slot = x
    /\ \A s \in Up : \A i \in InUse(s) : ~loads[s][i].failed
    /\ \A r \in Queued : ~r.err

\* Steps that add no read, and leave loads, slots and errors as they are.
LEMMA SoundQuiet ==
  ASSUME Sound, UNCHANGED <<topo, slots, loads>>, used'.errors = used.errors, Queued' \subseteq Queued
  PROVE  Sound'
BY DEF Sound, Up, InUse

\* The slots of a new scheduler are EMPTY.
LEMMA SoundSetup ==
  ASSUME LoadInv, Sound, NEW s \in Scheds, NEW main, SetupFrom(s, main)
  PROVE  Sound'
<1>1. PICK t, p : Start(s, t, p)
  BY DEF SetupFrom, Setup
<1>2. /\ topo' = With(topo, s, t) /\ slots' = [slots EXCEPT ![s] = [x \in Slots(p) |-> [state |-> "EMPTY", key |-> None]]]
      /\ UNCHANGED <<loads, flight, port, used>>
      /\ worker' = IF worker.pc = "off" THEN [worker EXCEPT !.pc = "idle"] ELSE worker
  BY <1>1 DEF Start, engineVars
<1>3. s \notin Up /\ DOMAIN slots = Scheds /\ Up \subseteq Scheds /\ InUse(s) = {}
  BY DEF SetupFrom, LoadInv, SetUp
<1>4. Up' = Up \cup {s} /\ Queued' = Queued /\ \A u : InUse(u)' = InUse(u)
  BY <1>2 DEF Up, With, LoadInv, Owned, Queued, InUse
<1>5. /\ DOMAIN slots'[s] = Slots(p) /\ \A x \in Slots(p) : slots'[s][x].state = "EMPTY"
      /\ \A u \in Up : slots'[u] = slots[u]
  BY <1>2, <1>3
<1> SUFFICES ASSUME used.errors = 0
             PROVE  /\ \A u \in Up' : \A x \in DOMAIN slots'[u] :
                         /\ slots'[u][x].state # "FAILED"
                         /\ slots'[u][x].state = "INFLIGHT" => \E i \in InUse(u) : loads[u][i].slot = x
                    /\ \A u \in Up' : \A i \in InUse(u) : ~loads[u][i].failed
                    /\ \A r \in Queued : ~r.err
  BY <1>2, <1>4 DEF Sound
<1> QED
  BY <1>3, <1>4, <1>5 DEF Sound

\* A read ends well, or counts as an error.
LEMMA SoundKernel ==
  ASSUME LoadInv, Sound, NEW r \in flight, NEW err \in BOOLEAN, KernelCompletes(r, err)
  PROVE  Sound'
<1>1. used \in [reads : Nat, errors : Nat, stops : Nat]
  BY DEF LoadInv, Bounded
<1>2. CASE err
  <2>1. used'.errors = used.errors + 1
    BY <1>1, <1>2 DEF KernelCompletes
  <2> QED
    BY <1>1, <2>1 DEF Sound
<1>3. CASE ~err
  <2>1. /\ UNCHANGED <<topo, slots>> /\ SameLoads
        /\ \A q \in Queued' : \E x \in Queued : SameRead(q, x) /\ (q.err => err \/ x.err)
    BY KernelQueue
  <2>2. used' = used
    BY <1>3 DEF KernelCompletes
  <2> QED
    BY <1>3, <2>1, <2>2 DEF Sound, SameLoads, Up
<1> QED
  BY <1>2, <1>3

\* The last read of a load settles its slot; the others count down.
LEMMA DrainSettles ==
  ASSUME LoadInv, NEW s \in Up, NEW i \in InUse(s), NEW r \in Reads, r.owner = <<s, i>>, DrainCompletion(r)
  PROVE  LET load == loads[s][i]
             failed == load.failed \/ r.err
         IN  IF load.pending = 1
             THEN /\ DOMAIN slots'[s] = DOMAIN slots[s]
                  /\ slots'[s][load.slot].state = IF failed THEN "FAILED" ELSE "READY"
                  /\ \A x \in DOMAIN slots[s] \ {load.slot} : slots'[s][x] = slots[s][x]
             ELSE slots' = slots /\ loads'[s][i].failed = failed
<1> DEFINE load == loads[s][i]
           next == [load EXCEPT !.pending = @ - 1, !.failed = @ \/ r.err]
           old  == slots[s][load.slot]
           st   == IF next.failed THEN "FAILED" ELSE "READY"
           done == [old EXCEPT !.state = st, !.key = IF next.failed THEN None ELSE @]
<1>1. /\ DOMAIN loads = Scheds /\ DOMAIN slots = Scheds /\ s \in Scheds /\ i \in DOMAIN loads[s]
      /\ load.slot \in DOMAIN slots[s] /\ DOMAIN load = LoadFields /\ load.pending \in Nat
      /\ DOMAIN old = {"state", "key"}
  BY DEF LoadInv, SetUp, LoadsTyped, IsLoad, InUse
<1>2. next.pending = load.pending - 1 /\ next.failed = (load.failed \/ r.err)
  BY <1>1 DEF LoadFields
<1>3. done.state = st
  <2> DEFINE k == IF next.failed THEN None ELSE old.key
             mid == [old EXCEPT !.state = st]
  <2>1. done = [mid EXCEPT !.key = k]
    <3> HIDE DEF next, old, st
    <3> QED
      BY <1>1
  <2>2. DOMAIN mid = {"state", "key"} /\ mid.state = st
    <3> HIDE DEF old, st
    <3> QED
      BY <1>1
  <2> HIDE DEF mid, k, st, done
  <2> QED
    BY <2>1, <2>2
<1>4. /\ loads' = IF next.pending = 0 THEN WithoutEntry(s, i) ELSE [loads EXCEPT ![s][i] = next]
      /\ slots' = IF next.pending = 0 THEN [slots EXCEPT ![s][load.slot] = done] ELSE slots
  BY DEF DrainCompletion
<1> HIDE DEF done, next, old
<1>5. CASE load.pending = 1
  <2> DEFINE g == [slots[s] EXCEPT ![load.slot] = done]
  <2>1. slots' = [slots EXCEPT ![s] = g]
    BY <1>1, <1>2, <1>4, <1>5
  <2>2. DOMAIN g = DOMAIN slots[s] /\ g[load.slot] = done /\ \A x \in DOMAIN slots[s] \ {load.slot} : g[x] = slots[s][x]
    BY <1>1
  <2> HIDE DEF g
  <2>3. slots'[s] = g
    BY <1>1, <2>1
  <2> QED
    BY <1>2, <1>3, <1>5, <2>2, <2>3
<1>6. CASE load.pending # 1
  <2> DEFINE g == [loads[s] EXCEPT ![i] = next]
  <2>1. slots' = slots /\ loads' = [loads EXCEPT ![s] = g]
    BY <1>1, <1>2, <1>4, <1>6
  <2>2. g[i] = next
    BY <1>1
  <2> HIDE DEF g
  <2>3. loads'[s][i] = next
    BY <1>1, <2>1, <2>2
  <2> QED
    BY <1>2, <1>6, <2>1, <2>3
<1> QED
  BY <1>5, <1>6

\* The slot of a load that has no failed read becomes READY; any other slot that
\* waits keeps its load.
LEMMA SoundDispatch == ASSUME LoadInv, Sound, Dispatch PROVE Sound'
<1> DEFINE r == Head(worker.done)
<1>1. /\ r \in Queued /\ r \in Reads /\ Queued' \subseteq Queued
      /\ UNCHANGED <<topo, pool, running>>
      /\ IF r.owner[1] \in running THEN DrainCompletion(r) ELSE UNCHANGED <<mem, loads, slots>>
  BY DispatchQueue
<1> HIDE DEF r
<1>2. used' = used
  BY DEF Dispatch
<1>3. CASE UNCHANGED <<loads, slots>>
  BY <1>1, <1>2, <1>3, SoundQuiet
<1>4. CASE DrainCompletion(r)
  <2> SUFFICES ASSUME used.errors = 0
               PROVE  /\ \A u \in Up : \A x \in DOMAIN slots'[u] :
                           /\ slots'[u][x].state # "FAILED"
                           /\ slots'[u][x].state = "INFLIGHT" => \E j \in InUse(u)' : loads'[u][j].slot = x
                      /\ \A u \in Up : \A j \in InUse(u)' : ~loads'[u][j].failed
                      /\ \A x \in Queued' : ~x.err
    BY <1>1, <1>2 DEF Sound, Up
  <2>1. /\ \A u \in Up : \A x \in DOMAIN slots[u] :
             /\ slots[u][x].state # "FAILED"
             /\ slots[u][x].state = "INFLIGHT" => \E j \in InUse(u) : loads[u][j].slot = x
        /\ \A u \in Up : \A j \in InUse(u) : ~loads[u][j].failed
        /\ \A x \in Queued : ~x.err
    BY DEF Sound
  <2>2. PICK s \in Up : \E i \in InUse(s) : r.owner = <<s, i>>
    BY <1>1, OwnerOf
  <2> PICK i \in InUse(s) : r.owner = <<s, i>>
    BY <2>2
  <2>3. Drained(s, i)
    BY <1>1, <1>4, DrainFacts
  <2>4. ~loads[s][i].failed /\ ~r.err /\ Up \subseteq Scheds
    BY <1>1, <2>1 DEF LoadInv, SetUp
  <2>5. \A u \in Up \ {s} : loads'[u] = loads[u] /\ slots'[u] = slots[u] /\ InUse(u)' = InUse(u)
    BY <2>3, <2>4 DEF Drained, InUse
  <2> DEFINE slot == loads[s][i].slot
  <2>6. CASE loads[s][i].pending = 1
    <3>1. /\ DOMAIN slots'[s] = DOMAIN slots[s] /\ slots'[s][slot].state = "READY"
          /\ \A x \in DOMAIN slots[s] \ {slot} : slots'[s][x] = slots[s][x]
      BY <1>1, <1>4, <2>4, <2>6, DrainSettles
    <3>2. InUse(s)' = InUse(s) \ {i} /\ \A j \in InUse(s) \ {i} : loads'[s][j] = loads[s][j]
      BY <2>3, <2>6 DEF Drained
    <3>3. ASSUME NEW x \in DOMAIN slots'[s]
          PROVE  /\ slots'[s][x].state # "FAILED"
                 /\ slots'[s][x].state = "INFLIGHT" => \E j \in InUse(s)' : loads'[s][j].slot = x
      <4>1. CASE x = slot
        BY <3>1, <4>1
      <4>2. CASE x # slot
        <5>1. x \in DOMAIN slots[s] /\ slots'[s][x] = slots[s][x]
          BY <3>1, <3>3, <4>2
        <5>2. ASSUME slots[s][x].state = "INFLIGHT" PROVE \E j \in InUse(s)' : loads'[s][j].slot = x
          <6>1. PICK j \in InUse(s) : loads[s][j].slot = x
            BY <2>1, <5>1, <5>2
          <6> QED
            BY <3>2, <4>2, <6>1
        <5> QED
          BY <2>1, <5>1, <5>2
      <4> QED
        BY <4>1, <4>2
    <3>4. \A j \in InUse(s)' : ~loads'[s][j].failed
      BY <2>1, <3>2
    <3> QED
      BY <1>1, <2>1, <2>5, <3>3, <3>4
  <2>7. CASE loads[s][i].pending # 1
    <3>1. slots' = slots /\ ~loads'[s][i].failed
      BY <1>1, <1>4, <2>4, <2>7, DrainSettles
    <3>2. /\ InUse(s)' = InUse(s) /\ loads'[s][i].slot = slot
          /\ \A j \in InUse(s) \ {i} : loads'[s][j] = loads[s][j]
      BY <2>3, <2>7 DEF Drained
    <3>3. \A j \in InUse(s) : loads'[s][j].slot = loads[s][j].slot /\ ~loads'[s][j].failed
      BY <2>1, <3>1, <3>2
    <3> QED
      BY <1>1, <2>1, <2>5, <3>1, <3>2, <3>3
  <2> QED
    BY <2>6, <2>7
<1> QED
  BY <1>1, <1>3, <1>4

\* If every piece of a plan is whole sectors, the engine takes them all: a read
\* goes to its column only where that is aligned too, else to the staging buffer.
LEMMA AllSubmitted ==
  ASSUME LoadInv, PiecesAligned, NEW s \in Up, NEW slot, NEW key \in DOMAIN topo[s].plan
  PROVE  LET plan == topo[s].plan[key]
         IN  Submitted(s, slot, plan, 0) = DOMAIN plan /\ DOMAIN plan # {}
<1> DEFINE plan == topo[s].plan[key]
<1>1. DOMAIN plan = 1..Len(plan) /\ Len(plan) \in Nat
  BY DEF LoadInv, SetUp
<1>2. DOMAIN plan # {} /\ \A i \in DOMAIN plan : Aligned(plan[i].start) /\ Aligned(plan[i].len) /\ Aligned(plan[i].staging)
  BY DEF PiecesAligned
<1>3. ASSUME NEW i \in DOMAIN plan PROVE Accepts(plan[i], Target(s, slot, plan[i]))
  <2> DEFINE p == plan[i]
             addr == ColAddr(pool[s], slot, p.column) + p.dst
  <2>1. Aligned(p.start) /\ Aligned(p.len) /\ Aligned(p.staging)
    BY <1>2
  <2> HIDE DEF p
  <2>2. Aligned(Target(s, slot, p).addr)
    BY <2>1 DEF Target
  <2> QED
    BY <2>1, <2>2 DEF Accepts, p
<1> HIDE DEF plan
<1>4. Submitted(s, slot, plan, 0) = DOMAIN plan
  BY <1>1, <1>3 DEF Submitted
<1> QED
  BY <1>2, <1>4 DEF plan

\* A load of which no read is refused has its entry, and none of its reads fails
\* before the kernel says so.
LEMMA SoundLoad ==
  ASSUME LoadInv, Sound, PiecesAligned, NEW s \in running, NEW slot \in DOMAIN slots[s],
         NEW key \in DOMAIN topo[s].plan, NEW refused \in 0..Len(topo[s].plan[key]), Load(s, slot, key, refused)
  PROVE  Sound'
<1> DEFINE plan == topo[s].plan[key]
<1>1. s \in Up /\ Up \subseteq Scheds /\ DOMAIN loads = Scheds /\ DOMAIN slots = Scheds /\ slot \in DOMAIN slots[s]
  BY DEF LoadInv, SetUp
<1>2. /\ StartAsyncLoad(s, slot, key, refused) /\ UNCHANGED <<topo, worker>>
      /\ used' = [used EXCEPT !.reads = @ + Len(plan), !.errors = IF refused # 0 THEN @ + 1 ELSE @]
      /\ used \in [reads : Nat, errors : Nat, stops : Nat]
  BY DEF Load, setupVars, LoadInv, Bounded
<1>3. used'.errors = IF refused # 0 THEN used.errors + 1 ELSE used.errors
  <2> DEFINE e == IF refused # 0 THEN used.errors + 1 ELSE used.errors
             u == [used EXCEPT !.reads = @ + Len(plan)]
  <2>1. used' = [u EXCEPT !.errors = e] /\ DOMAIN u = {"reads", "errors", "stops"}
    BY <1>2
  <2> HIDE DEF u, e
  <2>2. used'.errors = e
    BY <2>1
  <2> QED
    BY <2>2 DEF e
<1> SUFFICES ASSUME used'.errors = 0
             PROVE  /\ \A u \in Up : \A x \in DOMAIN slots'[u] :
                         /\ slots'[u][x].state # "FAILED"
                         /\ slots'[u][x].state = "INFLIGHT" => \E j \in InUse(u)' : loads'[u][j].slot = x
                    /\ \A u \in Up : \A j \in InUse(u)' : ~loads'[u][j].failed
                    /\ \A x \in Queued' : ~x.err
  BY <1>2 DEF Sound, Up
<1>4. refused = 0 /\ used.errors = 0
  BY <1>2, <1>3
<1>5. /\ \A u \in Up : \A x \in DOMAIN slots[u] :
           /\ slots[u][x].state # "FAILED"
           /\ slots[u][x].state = "INFLIGHT" => \E j \in InUse(u) : loads[u][j].slot = x
      /\ \A u \in Up : \A j \in InUse(u) : ~loads[u][j].failed
      /\ \A x \in Queued : ~x.err
  BY <1>4 DEF Sound
<1>6. Submitted(s, slot, plan, refused) = DOMAIN plan /\ DOMAIN plan # {}
  BY <1>1, <1>4, AllSubmitted
<1>7. \E idx : \E c \in 0..Len(plan) : Started(s, idx, slot, key, c, FALSE)
  BY <1>2, <1>6, StartFacts
<1>8. StartAsyncLoad(s, slot, key, refused)
  BY <1>2
<1> PICK v \in DOMAIN topo[s].plan \cup {None} :
           slots' = [slots EXCEPT ![s][slot] = [state |-> "INFLIGHT", key |-> v]]
  BY <1>8, StartFacts
<1> PICK idx : \E c \in 0..Len(plan) : Started(s, idx, slot, key, c, FALSE)
  BY <1>7
<1> PICK c \in 0..Len(plan) : Started(s, idx, slot, key, c, FALSE)
  OBVIOUS
<1>9. /\ \A u \in Up \ {s} : loads'[u] = loads[u] /\ InUse(u)' = InUse(u)
      /\ InUse(s)' = InUse(s) \cup {idx} /\ loads'[s][idx].slot = slot /\ ~loads'[s][idx].failed
      /\ \A j \in InUse(s) : loads'[s][j] = loads[s][j]
      /\ \A q \in Queued' : q \in Queued \/ ~q.err
  <2>1. worker' = worker /\ c \in Nat
    BY <1>1, <1>2 DEF LoadInv, SetUp
  <2> HIDE DEF plan
  <2>2. /\ \A u \in Up \ {s} : loads'[u] = loads[u] /\ InUse(u)' = InUse(u)
        /\ idx \notin InUse(s) /\ InUse(s)' = InUse(s) \cup {idx}
        /\ loads'[s][idx].slot = slot /\ loads'[s][idx].key = key /\ loads'[s][idx].failed = FALSE
        /\ \A j \in InUse(s) : loads'[s][j] = loads[s][j]
        /\ \A q \in Queued' : \/ q \in Queued
                              \/ q.owner = <<s, idx>> /\ q.slice \in 1..c /\ ~q.err
    BY <2>1, TakenFacts
  <2> QED
    BY <2>2
<1>10. /\ \A u \in Up \ {s} : slots'[u] = slots[u]
      /\ DOMAIN slots'[s] = DOMAIN slots[s] /\ slots'[s][slot].state = "INFLIGHT"
      /\ \A y \in DOMAIN slots[s] \ {slot} : slots'[s][y] = slots[s][y]
  BY <1>1, TakenSlots
<1>11. ASSUME NEW y \in DOMAIN slots'[s]
       PROVE  /\ slots'[s][y].state # "FAILED"
              /\ \E j \in InUse(s)' : slots'[s][y].state = "INFLIGHT" => loads'[s][j].slot = y
  <2>1. CASE y = slot
    BY <1>9, <1>10, <2>1
  <2>2. CASE y # slot
    BY <1>1, <1>5, <1>9, <1>10, <2>2
  <2> QED
    BY <2>1, <2>2
<1>12. \A j \in InUse(s)' : ~loads'[s][j].failed
  BY <1>1, <1>5, <1>9
<1> QED
  BY <1>5, <1>9, <1>10, <1>11, <1>12

\* The plans of a topology do not change once it is set up.
LEMMA PlansStay == ASSUME LoadInv, [Next]_vars, PiecesAligned' PROVE PiecesAligned
<1>1. Up \subseteq Up' /\ \A u \in Up : topo'[u] = topo[u]
  <2> USE DEF vars, setupVars, schedVars, engineVars
  <2>1. ASSUME NEW s \in Scheds, NEW main, SetupFrom(s, main) PROVE Up \subseteq Up' /\ \A u \in Up : topo'[u] = topo[u]
    <3>1. PICK t, p : Start(s, t, p)
      BY <2>1 DEF SetupFrom, Setup
    <3>2. topo' = With(topo, s, t) /\ s \notin Up
      BY <2>1, <3>1 DEF Start, SetupFrom
    <3> QED
      BY <3>2 DEF With, Up
  <2>2. (\E s \in Scheds : \E main \in DOMAIN files[s] : SetupFrom(s, main)) \/ topo' = topo
    BY DEF Next, Convert, StopFlag, Unregister, Load, WorkerStep, Snapshot, Harvest, Dispatch, EndTick,
           KernelStep, KernelCompletes
  <2> QED
    BY <2>1, <2>2 DEF Up
<1> QED
  BY <1>1 DEF PiecesAligned

\* Every action keeps the loads sound, whatever is read.
LEMMA SoundStep == ASSUME LoadInv, Sound, PiecesAligned, [Next]_vars PROVE Sound'
<1> USE DEF vars, setupVars, schedVars, engineVars
<1>1. ASSUME UNCHANGED <<topo, slots, loads, flight, port, worker>>, used'.errors = used.errors PROVE Sound'
  <2>1. Queued' = Queued
    BY <1>1 DEF Queued
  <2> QED
    BY <1>1, <2>1, SoundQuiet
<1>2. ASSUME NEW main, NEW fmt, Convert(main, fmt) PROVE Sound'
  BY <1>1, <1>2 DEF Convert
<1>3. ASSUME NEW s \in Scheds, NEW main, SetupFrom(s, main) PROVE Sound'
  BY <1>3, SoundSetup
<1>4. ASSUME NEW s \in Scheds, StopFlag(s) \/ Unregister(s) PROVE Sound'
  <2>1. used'.errors = used.errors
    BY <1>4 DEF StopFlag, Unregister, LoadInv, Bounded
  <2> QED
    BY <1>1, <1>4, <2>1 DEF StopFlag, Unregister
<1>5. ASSUME NEW s \in running, NEW slot \in DOMAIN slots[s], NEW key \in DOMAIN topo[s].plan,
             NEW refused \in 0..Len(topo[s].plan[key]), Load(s, slot, key, refused)
      PROVE  Sound'
  BY <1>5, SoundLoad
<1>6. CASE Snapshot \/ Harvest \/ EndTick
  BY <1>6, TickFacts, SoundQuiet
<1>7. CASE Dispatch
  BY <1>7, SoundDispatch
<1>8. ASSUME NEW r \in flight, NEW err \in BOOLEAN, KernelCompletes(r, err) PROVE Sound'
  BY <1>8, SoundKernel
<1>9. CASE UNCHANGED vars
  BY <1>1, <1>9
<1> QED
  BY <1>2, <1>3, <1>4, <1>5, <1>6, <1>7, <1>8, <1>9 DEF Next, WorkerStep, KernelStep

\* Nothing the scheduler submits is refused for its alignment, as long as the
\* pieces of its plans are whole sectors: without an error of a read no slot is
\* FAILED, and a slot that waits has a load that will settle it.
THEOREM FailsNeedErrors == Spec => [](PiecesAligned => FailsOnlyOnError)
<1>1. Init => Sound
  BY DEF Init, Sound, Up, InUse, Queued, ToSet
<1>2. LoadInv /\ (PiecesAligned => Sound) /\ [Next]_vars => (PiecesAligned => Sound)'
  BY PlansStay, SoundStep
<1>3. Sound => FailsOnlyOnError
  BY DEF Sound, FailsOnlyOnError
<1>4. Spec => []LoadInv
  BY LoadInvariant
<1> QED
  BY <1>1, <1>2, <1>3, <1>4, PTL DEF Spec

-----------------------------------------------------------------------------
(* A step writes only to the slot of a load.                               *)

\* A load in progress has a slot of its expert's group that is INFLIGHT and no
\* other load's, and its reads are of pieces of its expert.
SlotsTaken ==
  \A s \in Up : \A i \in InUse(s) :
    /\ slots[s][loads[s][i].slot].state = "INFLIGHT"
    /\ pool[s].regions[loads[s][i].slot[1]].group = GroupOf(topo[s], loads[s][i].key[1])
    /\ \A j \in InUse(s) : loads[s][i].slot = loads[s][j].slot => i = j
SliceOf(r) == r.slice \in DOMAIN topo[r.owner[1]].plan[loads[r.owner[1]][r.owner[2]].key]
SlicesPlanned == \A r \in Queued : SliceOf(r)
Placed == SlotsTaken /\ SlicesPlanned

\* What the plans and the pools are like, of all that PlansFit and PoolPartition say.
Fits == PiecesApart /\ PiecesInside /\ ColumnsApart

\* In a slot of its group an expert's pieces lie within the slot and apart; a piece
\* that may go straight to its column has a window with nothing else in it.
Inside(s, slot, key) ==
  \A i \in DOMAIN topo[s].plan[key] :
    LET sl == topo[s].plan[key][i]
        at == ColAddr(pool[s], slot, sl.column) + sl.dst
    IN  /\ at \in Nat /\ sl.bytes \in Nat /\ at..(at + sl.bytes - 1) \subseteq SlotAddrs(pool[s], slot)
        /\ sl.direct => sl.len = sl.bytes

\* The memory of a scheduler is that of its slots.
MemShape ==
  /\ DOMAIN mem = Scheds
  /\ \A s \in Up : /\ DOMAIN mem[s] = {pool[s].regions[r].area : r \in DOMAIN pool[s].regions}
                   /\ \A a \in DOMAIN mem[s] : DOMAIN mem[s][a] = AreaAddrs(pool[s], a)

\* Nothing is loaded, nothing is set up.
LEMMA PlacedInit == Init => Placed /\ MemShape
<1> SUFFICES ASSUME Init PROVE Placed /\ MemShape
  OBVIOUS
<1>1. Up = {} /\ flight = {} /\ port = <<>> /\ worker.done = <<>>
  BY DEF Init, Up
<1>2. Queued = {}
  BY <1>1 DEF Queued, ToSet
<1> QED
  BY <1>1, <1>2 DEF Init, Placed, SlotsTaken, SlicesPlanned, MemShape

\* A slot that alloc_or_evict can give is not being loaded.
LEMMA AvailableFacts ==
  ASSUME LoadInv, NEW s \in Up, NEW slot \in DOMAIN slots[s], NEW key, Available(s, slot, key)
  PROVE  /\ slots[s][slot].state # "INFLIGHT"
         /\ pool[s].regions[slot[1]].group = GroupOf(topo[s], key[1])
<1> DEFINE empty == {x \in DOMAIN slots[s] : x[1] = slot[1] /\ slots[s][x].state = "EMPTY"}
           N == {x[2] : x \in empty}
<1>1. /\ pool[s].regions[slot[1]].group = GroupOf(topo[s], key[1])
      /\ IF empty # {} THEN slot[2] = Min(N) ELSE slots[s][slot].state = "READY"
  BY DEF Available
<1>2. DOMAIN slots[s] = Slots(pool[s])
  BY DEF LoadInv, LoadsTyped
<1>3. ASSUME NEW x \in DOMAIN slots[s] PROVE x = <<x[1], x[2]>> /\ x[2] \in Nat
  <2>1. PICK q \in DOMAIN pool[s].regions : x \in {<<q, i>> : i \in 0..(pool[s].regions[q].n - 1)}
    BY <1>2 DEF Slots
  <2>2. PICK i \in 0..(pool[s].regions[q].n - 1) : x = <<q, i>>
    BY <2>1
  <2>3. i \in Nat
    BY <2>2
  <2> QED
    BY <2>2, <2>3
<1>4. CASE empty # {}
  <2>1. N \subseteq Nat /\ N # {}
    BY <1>3, <1>4
  <2>2. Min(N) \in N
    <3> HIDE DEF N
    <3>1. \E n \in N : \A m \in N : n <= m
      BY <2>1, LeastMember
    <3> QED
      BY <3>1 DEF Min
  <2>3. PICK x \in empty : x[2] = slot[2]
    BY <1>1, <1>4, <2>2
  <2>4. x = slot
    BY <1>3, <2>3
  <2> QED
    BY <1>1, <2>3, <2>4
<1> QED
  BY <1>1, <1>4

-----------------------------------------------------------------------------
\* Nothing of mem but bytes of slot x of scheduler s changes.
WritesOnly(s, x) ==
  /\ DOMAIN mem' = DOMAIN mem
  /\ \A u \in DOMAIN mem : /\ DOMAIN mem'[u] = DOMAIN mem[u]
                           /\ \A a \in DOMAIN mem[u] : DOMAIN mem'[u][a] = DOMAIN mem[u][a]
  /\ \A u \in DOMAIN mem : \A a \in DOMAIN mem[u] : \A b \in DOMAIN mem[u][a] :
       mem'[u][a][b] # mem[u][a][b] =>
         u = s /\ pool[s].regions[x[1]].area = a /\ b \in SlotAddrs(pool[s], x)

\* One area of a scheduler is written.
LEMMA AreaWritten ==
  ASSUME NEW s, NEW x, NEW area, NEW g, area = pool[s].regions[x[1]].area,
         mem' = [mem EXCEPT ![s][area] = g], s \in DOMAIN mem,
         area \in DOMAIN mem[s] => /\ DOMAIN g = DOMAIN mem[s][area]
                                   /\ \A b \in DOMAIN g : g[b] # mem[s][area][b] => b \in SlotAddrs(pool[s], x)
  PROVE  WritesOnly(s, x)
<1> DEFINE f == [mem[s] EXCEPT ![area] = g]
<1>1. mem' = [mem EXCEPT ![s] = f]
  OBVIOUS
<1>2. DOMAIN f = DOMAIN mem[s] /\ \A a \in DOMAIN mem[s] : f[a] = IF a = area THEN g ELSE mem[s][a]
  OBVIOUS
<1> HIDE DEF f
<1>3. DOMAIN mem' = DOMAIN mem /\ \A u \in DOMAIN mem : mem'[u] = IF u = s THEN f ELSE mem[u]
  BY <1>1
<1>4. ASSUME NEW u \in DOMAIN mem, NEW a \in DOMAIN mem[u]
      PROVE  mem'[u][a] = IF u = s /\ a = area THEN g ELSE mem[u][a]
  BY <1>2, <1>3
<1>5. ASSUME NEW u \in DOMAIN mem
      PROVE  DOMAIN mem'[u] = DOMAIN mem[u] /\ \A a \in DOMAIN mem[u] : DOMAIN mem'[u][a] = DOMAIN mem[u][a]
  BY <1>2, <1>3, <1>4
<1>6. ASSUME NEW u \in DOMAIN mem, NEW a \in DOMAIN mem[u], NEW b \in DOMAIN mem[u][a],
             mem'[u][a][b] # mem[u][a][b]
      PROVE  u = s /\ a = area /\ b \in SlotAddrs(pool[s], x)
  BY <1>4, <1>6
<1> QED
  BY <1>3, <1>5, <1>6 DEF WritesOnly

\* A piece that is read straight to its column, and one that is copied there, is
\* written within the slot.
LEMMA PieceWithin ==
  ASSUME NEW s, NEW slot, NEW key, Inside(s, slot, key), NEW i \in DOMAIN topo[s].plan[key],
         NEW b \in Nat
  PROVE  LET sl == topo[s].plan[key][i]
             at == ColAddr(pool[s], slot, sl.column) + sl.dst
         IN  /\ sl.direct /\ at <= b /\ b < at + sl.len => b \in SlotAddrs(pool[s], slot)
             /\ at <= b /\ b < at + sl.bytes => b \in SlotAddrs(pool[s], slot)
<1> DEFINE sl == topo[s].plan[key][i]
           at == ColAddr(pool[s], slot, sl.column) + sl.dst
<1>1. /\ at \in Nat /\ sl.bytes \in Nat /\ at..(at + sl.bytes - 1) \subseteq SlotAddrs(pool[s], slot)
      /\ sl.direct => sl.len = sl.bytes
  BY DEF Inside
<1> HIDE DEF sl, at
<1>2. ASSUME at <= b, b < at + sl.bytes PROVE b \in SlotAddrs(pool[s], slot)
  <2>1. b \in at..(at + sl.bytes - 1)
    BY <1>1, <1>2
  <2> QED
    BY <1>1, <2>1
<1> QED
  BY <1>1, <1>2 DEF sl, at

\* What the kernel reads for a load goes to the load's slot.
LEMMA FillWrites ==
  ASSUME MemShape, NEW s \in Scheds, NEW load, NEW sent, Inside(s, load.slot, load.key),
         sent \subseteq DOMAIN topo[s].plan[load.key],
         \A a \in DOMAIN mem[s] : DOMAIN mem[s][a] \subseteq Nat,
         mem' = FillMem(s, load, sent)
  PROVE  WritesOnly(s, load.slot)
<1> DEFINE area == pool[s].regions[load.slot[1]].area
           pieces == {i \in sent : ~Staged(s, load.slot, load.key, i)}
           g == ReadInto(mem[s][area], s, load, pieces)
<1>1. mem' = [mem EXCEPT ![s][area] = g]
  BY DEF FillMem
<1>2. DOMAIN g = DOMAIN mem[s][area]
  BY DEF ReadInto
<1>3. ASSUME area \in DOMAIN mem[s], NEW b \in DOMAIN g, g[b] # mem[s][area][b]
      PROVE  b \in SlotAddrs(pool[s], load.slot)
  <2>1. b \in Nat
    BY <1>2, <1>3
  <2>2. {i \in pieces : ReadsTo(s, load, i, b)} # {}
    <3> HIDE DEF pieces
    <3> QED
      BY <1>2, <1>3 DEF ReadInto
  <2>3. PICK i \in sent : ReadsTo(s, load, i, b) /\ ~Staged(s, load.slot, load.key, i)
    BY <2>2
  <2> DEFINE sl == topo[s].plan[load.key][i]
             at == ColAddr(pool[s], load.slot, sl.column) + sl.dst
             to == Target(s, load.slot, sl)
  <2>4. ~to.staged /\ to.addr <= b /\ b < to.addr + sl.len
    BY <2>3 DEF ReadsTo, Staged
  <2>5. sl.direct /\ to.addr = at
    BY <2>4 DEF Target
  <2>6. i \in DOMAIN topo[s].plan[load.key]
    BY <2>3
  <2> HIDE DEF to
  <2> QED
    BY <2>1, <2>4, <2>5, <2>6, PieceWithin
<1> HIDE DEF g
<1>4. s \in DOMAIN mem
  BY DEF MemShape
<1> QED
  BY <1>1, <1>2, <1>3, <1>4, AreaWritten

\* So does what is copied out of its staging buffer.
LEMMA CopyWrites ==
  ASSUME MemShape, NEW s \in Scheds, NEW load, Inside(s, load.slot, load.key),
         NEW i \in DOMAIN topo[s].plan[load.key],
         \A a \in DOMAIN mem[s] : DOMAIN mem[s][a] \subseteq Nat,
         mem' = CopyOut(s, load, i)
  PROVE  WritesOnly(s, load.slot)
<1> DEFINE area == pool[s].regions[load.slot[1]].area
           sl == topo[s].plan[load.key][i]
           at == ColAddr(pool[s], load.slot, sl.column) + sl.dst
           old == mem[s][area]
           g == [a \in DOMAIN old |->
                  IF at <= a /\ a < at + sl.bytes THEN load.staging[sl.src + a - at] ELSE old[a]]
<1>1. mem' = [mem EXCEPT ![s][area] = g]
  BY DEF CopyOut
<1>2. DOMAIN g = DOMAIN mem[s][area]
  OBVIOUS
<1>3. ASSUME area \in DOMAIN mem[s], NEW b \in DOMAIN g, g[b] # mem[s][area][b]
      PROVE  b \in SlotAddrs(pool[s], load.slot)
  <2>1. b \in Nat
    BY <1>2, <1>3
  <2>2. at <= b /\ b < at + sl.bytes
    BY <1>3
  <2> HIDE DEF g
  <2> QED
    BY <2>1, <2>2, PieceWithin
<1> HIDE DEF g
<1>4. s \in DOMAIN mem
  BY DEF MemShape
<1> QED
  BY <1>1, <1>2, <1>3, <1>4, AreaWritten

-----------------------------------------------------------------------------
\* So is what will be.
LEMMA QueuedReadsNext == LoadInv' => (Queued \subseteq Reads)'
BY QueuedReads, PTL

\* A queued read is of a piece of its load.
LEMMA PieceOf ==
  ASSUME SlicesPlanned, NEW r \in Queued, NEW s, NEW i, r.owner = <<s, i>>
  PROVE  r.slice \in DOMAIN topo[s].plan[loads[s][i].key]
<1>1. SliceOf(r)
  BY DEF SlicesPlanned
<1>2. r.owner[1] = s /\ r.owner[2] = i
  OBVIOUS
<1> QED
  BY <1>1, <1>2 DEF SliceOf

\* Loads that are still there keep what they are for.
KeepsLoads ==
  \A u \in Up : /\ topo'[u] = topo[u] /\ pool'[u] = pool[u]
                /\ \A j \in InUse(u)' : /\ j \in InUse(u)
                                        /\ loads'[u][j].key = loads[u][j].key
                                        /\ loads'[u][j].slot = loads[u][j].slot

\* If no load is new, nor any read, reads are still of pieces of their experts.
LEMMA SlicesKept ==
  ASSUME LoadInv, LoadInv', SlicesPlanned, KeepsLoads,
         \A q \in Queued' : \E r \in Queued : SameRead(q, r)
  PROVE  SlicesPlanned'
<1>1. Queued \subseteq Reads
  BY QueuedReads
<1>2. Queued' \subseteq Reads'
  BY QueuedReadsNext
<1>3. ASSUME NEW q \in Queued' PROVE SliceOf(q)'
  <2>1. PICK r \in Queued : SameRead(q, r)
    BY <1>3
  <2>2. PICK u \in Up : \E j \in InUse(u) : r.owner = <<u, j>>
    BY <1>1, <2>1, OwnerOf
  <2> PICK j \in InUse(u) : r.owner = <<u, j>>
    BY <2>2
  <2>3. q.owner = <<u, j>> /\ q.slice = r.slice
    BY <2>1, <2>2 DEF SameRead
  <2>4. j \in InUse(u)'
    <3>1. q.owner \in Owners'
      BY <1>2 DEF Reads
    <3> QED
      BY <2>3, <3>1 DEF Owners
  <2>5. loads'[u][j].key = loads[u][j].key /\ topo'[u] = topo[u]
    BY <2>4 DEF KeepsLoads
  <2>6. r.slice \in DOMAIN topo[u].plan[loads[u][j].key]
    BY <2>1, PieceOf
  <2>7. q.slice \in DOMAIN topo'[u].plan[loads'[u][j].key]
    BY <2>3, <2>5, <2>6
  <2> QED
    BY <2>3, <2>7 DEF SliceOf
<1> QED
  BY <1>3 DEF SlicesPlanned

\* If no load is new and their slots wait on, they keep their slots.
LEMMA SlotsKept ==
  ASSUME SlotsTaken, KeepsLoads, \A u \in Up' \ Up : InUse(u)' = {},
         \A u \in Up : \A j \in InUse(u)' : slots'[u][loads[u][j].slot].state = "INFLIGHT"
  PROVE  SlotsTaken'
<1>1. ASSUME NEW u \in Up', NEW i \in InUse(u)'
      PROVE  /\ slots'[u][loads'[u][i].slot].state = "INFLIGHT"
             /\ pool'[u].regions[loads'[u][i].slot[1]].group = GroupOf(topo'[u], loads'[u][i].key[1])
             /\ \A j \in InUse(u)' : loads'[u][i].slot = loads'[u][j].slot => i = j
  <2>1. u \in Up
    BY <1>1
  <2>2. i \in InUse(u) /\ loads'[u][i].key = loads[u][i].key /\ loads'[u][i].slot = loads[u][i].slot
    BY <1>1, <2>1 DEF KeepsLoads
  <2>3. topo'[u] = topo[u] /\ pool'[u] = pool[u]
    BY <2>1 DEF KeepsLoads
  <2>4. slots'[u][loads'[u][i].slot].state = "INFLIGHT"
    BY <1>1, <2>1, <2>2
  <2>5. pool[u].regions[loads[u][i].slot[1]].group = GroupOf(topo[u], loads[u][i].key[1])
    BY <2>1, <2>2 DEF SlotsTaken
  <2>6. pool'[u].regions[loads'[u][i].slot[1]].group = GroupOf(topo'[u], loads'[u][i].key[1])
    BY <2>2, <2>3, <2>5
  <2>7. ASSUME NEW j \in InUse(u)', loads'[u][i].slot = loads'[u][j].slot PROVE i = j
    <3>1. j \in InUse(u) /\ loads'[u][j].slot = loads[u][j].slot
      BY <2>1, <2>7 DEF KeepsLoads
    <3> QED
      BY <2>1, <2>2, <2>7, <3>1 DEF SlotsTaken
  <2> QED
    BY <2>4, <2>6, <2>7
<1> QED
  BY <1>1 DEF SlotsTaken

\* Steps that leave the loads, the slots and the reads.
LEMMA PlacedQuiet ==
  ASSUME LoadInv, LoadInv', Placed, UNCHANGED <<topo, pool, slots, loads>>, Queued' = Queued
  PROVE  Placed'
<1>1. KeepsLoads /\ Up' = Up /\ \A u : InUse(u)' = InUse(u)
  BY DEF KeepsLoads, InUse, Up
<1>2. SlicesPlanned'
  BY <1>1, SlicesKept DEF Placed, SameRead
<1>3. SlotsTaken'
  BY <1>1, SlotsKept DEF Placed, SlotsTaken
<1> QED
  BY <1>2, <1>3 DEF Placed

\* A new scheduler has no loads.
LEMMA PlacedSetup ==
  ASSUME LoadInv, LoadInv', Placed, NEW s \in Scheds, NEW main, SetupFrom(s, main)
  PROVE  Placed'
<1>1. PICK t, p : Start(s, t, p)
  BY DEF SetupFrom, Setup
<1>2. /\ topo' = With(topo, s, t) /\ pool' = With(pool, s, p)
      /\ slots' = [slots EXCEPT ![s] = [x \in Slots(p) |-> [state |-> "EMPTY", key |-> None]]]
      /\ UNCHANGED <<loads, flight, port>>
      /\ worker' = IF worker.pc = "off" THEN [worker EXCEPT !.pc = "idle"] ELSE worker
  BY <1>1 DEF Start, engineVars
<1>3. s \notin Up /\ DOMAIN slots = Scheds /\ Up \subseteq Scheds /\ InUse(s) = {} /\ DOMAIN pool = Up
  BY DEF SetupFrom, LoadInv, SetUp
<1>4. Queued' = Queued /\ \A u : InUse(u)' = InUse(u)
  BY <1>2 DEF LoadInv, Owned, Queued, InUse
<1>5. Up' = Up \cup {s} /\ \A u \in Up : topo'[u] = topo[u] /\ pool'[u] = pool[u] /\ slots'[u] = slots[u]
  BY <1>2, <1>3 DEF Up, With
<1>6. KeepsLoads
  BY <1>2, <1>4, <1>5 DEF KeepsLoads
<1>7. SlicesPlanned'
  BY <1>4, <1>6, SlicesKept DEF Placed, SameRead
<1>8. \A u \in Up : \A j \in InUse(u)' : slots'[u][loads[u][j].slot].state = "INFLIGHT"
  BY <1>4, <1>5 DEF Placed, SlotsTaken
<1>9. SlotsTaken'
  BY <1>3, <1>4, <1>5, <1>6, <1>8, SlotsKept DEF Placed
<1> QED
  BY <1>7, <1>9 DEF Placed

\* A completion keeps the loads where they are.
LEMMA PlacedKernel ==
  ASSUME LoadInv, LoadInv', Placed, NEW r \in flight, NEW err \in BOOLEAN, KernelCompletes(r, err)
  PROVE  Placed'
<1>1. /\ UNCHANGED <<topo, pool, slots>> /\ SameLoads
      /\ \A q \in Queued' : \E x \in Queued : SameRead(q, x)
  BY KernelQueue
<1>2. KeepsLoads /\ Up' = Up
  BY <1>1 DEF KeepsLoads, SameLoads, Up
<1>3. SlicesPlanned'
  BY <1>1, <1>2, SlicesKept DEF Placed
<1>4. SlotsTaken'
  BY <1>1, <1>2, SlotsKept DEF Placed, SlotsTaken, SameLoads
<1> QED
  BY <1>3, <1>4 DEF Placed

\* The load of the last read is gone, and no other load had its slot.
LEMMA PlacedDispatch == ASSUME LoadInv, LoadInv', Placed, Dispatch PROVE Placed'
<1> DEFINE r == Head(worker.done)
<1>1. /\ r \in Reads /\ Queued' \subseteq Queued /\ UNCHANGED <<topo, pool, running>>
      /\ IF r.owner[1] \in running THEN DrainCompletion(r) ELSE UNCHANGED <<mem, loads, slots>>
  BY DispatchQueue
<1> HIDE DEF r
<1>2. \A q \in Queued' : \E x \in Queued : SameRead(q, x)
  BY <1>1 DEF SameRead
<1>3. Up' = Up /\ Up \subseteq Scheds
  BY <1>1 DEF Up, LoadInv, SetUp
<1>4. CASE UNCHANGED <<loads, slots>>
  <2>1. KeepsLoads /\ \A u : InUse(u)' = InUse(u)
    BY <1>1, <1>4 DEF KeepsLoads, InUse
  <2>2. SlicesPlanned'
    BY <1>2, <2>1, SlicesKept DEF Placed
  <2>3. \A u \in Up : \A j \in InUse(u)' : slots'[u][loads[u][j].slot].state = "INFLIGHT"
    BY <1>4, <2>1 DEF Placed, SlotsTaken
  <2>4. SlotsTaken'
    BY <1>3, <2>1, <2>3, SlotsKept DEF Placed
  <2> QED
    BY <2>2, <2>4 DEF Placed
<1>5. CASE DrainCompletion(r)
  <2>1. PICK s \in Up : \E i \in InUse(s) : r.owner = <<s, i>>
    BY <1>1, OwnerOf
  <2> PICK i \in InUse(s) : r.owner = <<s, i>>
    BY <2>1
  <2> DEFINE slot == loads[s][i].slot
             last == loads[s][i].pending = 1
  <2>2. Drained(s, i)
    BY <1>1, <1>5, DrainFacts
  <2>3. \A u \in Up \ {s} : loads'[u] = loads[u] /\ slots'[u] = slots[u] /\ InUse(u)' = InUse(u)
    BY <1>3, <2>2 DEF Drained, InUse
  <2>4. /\ \A j \in InUse(s) \ {i} : loads'[s][j] = loads[s][j]
        /\ InUse(s)' = IF last THEN InUse(s) \ {i} ELSE InUse(s)
        /\ ~last => loads'[s][i].key = loads[s][i].key /\ loads'[s][i].slot = slot
    BY <2>2 DEF Drained
  <2>5. \A x \in DOMAIN slots[s] : x # slot \/ ~last => slots'[s][x] = slots[s][x]
    <3>1. CASE last
      BY <1>1, <1>5, <3>1, DrainSettles
    <3>2. CASE ~last
      <4>1. slots' = slots
        BY <1>1, <1>5, <3>2, DrainSettles
      <4> QED
        BY <4>1
    <3> QED
      BY <3>1, <3>2
  <2>6. KeepsLoads
    <3>1. ASSUME NEW j \in InUse(s)'
          PROVE  j \in InUse(s) /\ loads'[s][j].key = loads[s][j].key /\ loads'[s][j].slot = loads[s][j].slot
      <4>1. CASE j = i
        BY <2>4, <3>1, <4>1
      <4>2. CASE j # i
        BY <2>4, <3>1, <4>2
      <4> QED
        BY <4>1, <4>2
    <3> QED
      BY <1>1, <2>3, <3>1 DEF KeepsLoads
  <2>7. SlicesPlanned'
    BY <1>2, <2>6, SlicesKept DEF Placed
  <2>8. ASSUME NEW u \in Up, NEW j \in InUse(u)' PROVE slots'[u][loads[u][j].slot].state = "INFLIGHT"
    <3>1. j \in InUse(u)
      BY <2>8, <2>6 DEF KeepsLoads
    <3>2. slots[u][loads[u][j].slot].state = "INFLIGHT"
      BY <3>1 DEF Placed, SlotsTaken
    <3>3. CASE u # s
      BY <2>3, <3>2, <3>3
    <3>4. CASE u = s
      <4>1. loads[s][j].slot # slot \/ ~last
        <5>1. last => j # i
          BY <2>4, <2>8, <3>4
        <5> QED
          BY <3>1, <3>4, <5>1 DEF Placed, SlotsTaken
      <4>2. loads[s][j].slot \in DOMAIN slots[s]
        BY <3>1, <3>4 DEF LoadInv, LoadsTyped, IsLoad
      <4> QED
        BY <2>5, <3>2, <3>4, <4>1, <4>2
    <3> QED
      BY <3>3, <3>4
  <2>9. SlotsTaken'
    BY <1>3, <2>6, <2>8, SlotsKept DEF Placed
  <2> QED
    BY <2>7, <2>9 DEF Placed
<1> QED
  BY <1>1, <1>4, <1>5

\* The slot a load takes is no other load's, and its reads are of its pieces.
LEMMA PlacedLoad ==
  ASSUME LoadInv, LoadInv', Placed,
         NEW s \in running, NEW slot \in DOMAIN slots[s], NEW key \in DOMAIN topo[s].plan,
         NEW refused \in 0..Len(topo[s].plan[key]), Load(s, slot, key, refused)
  PROVE  Placed'
<1> DEFINE plan == topo[s].plan[key]
<1>1. /\ StartAsyncLoad(s, slot, key, refused) /\ Available(s, slot, key)
      /\ UNCHANGED <<topo, pool, running, worker>>
  BY DEF Load, setupVars
<1>2. s \in Up /\ Up' = Up /\ Len(plan) \in Nat /\ DOMAIN plan = 1..Len(plan)
  BY <1>1 DEF LoadInv, SetUp, Up
<1>3. slots[s][slot].state # "INFLIGHT" /\ pool[s].regions[slot[1]].group = GroupOf(topo[s], key[1])
  BY <1>1, <1>2, AvailableFacts
<1>4. PICK v : slots' = [slots EXCEPT ![s][slot] = [state |-> "INFLIGHT", key |-> v]]
  BY <1>1, StartFacts
<1>5. /\ \A u \in Up \ {s} : slots'[u] = slots[u]
      /\ slots'[s][slot].state = "INFLIGHT"
      /\ \A x \in DOMAIN slots[s] \ {slot} : slots'[s][x] = slots[s][x]
  BY <1>2, <1>4, TakenSlots
\* Loads that are there already keep their slots, as slot is none of them.
<1>6. ASSUME NEW u \in Up, NEW j \in InUse(u)
      PROVE  /\ slots'[u][loads[u][j].slot].state = "INFLIGHT"
             /\ u = s => loads[u][j].slot # slot
  <2>1. slots[u][loads[u][j].slot].state = "INFLIGHT" /\ loads[u][j].slot \in DOMAIN slots[u]
    BY <1>6 DEF Placed, SlotsTaken, LoadInv, LoadsTyped, IsLoad
  <2>2. CASE u = s
    BY <1>3, <1>5, <2>1, <2>2
  <2>3. CASE u # s
    BY <1>5, <2>1, <2>3
  <2> QED
    BY <2>2, <2>3
<1>7. CASE UNCHANGED <<loads, flight, port>>
  <2>1. KeepsLoads /\ \A u : InUse(u)' = InUse(u)
    BY <1>1, <1>7 DEF KeepsLoads, InUse
  <2>2. \A q \in Queued' : \E x \in Queued : SameRead(q, x)
    BY <1>1, <1>7 DEF Queued, SameRead
  <2>3. SlicesPlanned'
    BY <2>1, <2>2, SlicesKept DEF Placed
  <2>4. SlotsTaken'
    BY <1>2, <1>6, <2>1, SlotsKept DEF Placed
  <2> QED
    BY <2>3, <2>4 DEF Placed
<1>8. ASSUME NEW idx, NEW c \in 0..Len(plan), NEW failed, Started(s, idx, slot, key, c, failed)
      PROVE  Placed'
  <2>1. /\ \A u \in Up \ {s} : loads'[u] = loads[u] /\ InUse(u)' = InUse(u)
        /\ idx \notin InUse(s) /\ InUse(s)' = InUse(s) \cup {idx}
        /\ loads'[s][idx].slot = slot /\ loads'[s][idx].key = key
        /\ \A j \in InUse(s) : loads'[s][j] = loads[s][j]
        /\ \A q \in Queued' : q \in Queued \/ (q.owner = <<s, idx>> /\ q.slice \in 1..c)
    <3>1. c \in Nat
      BY <1>2
    <3>2. worker' = worker
      BY <1>1
    <3> HIDE DEF plan
    <3>3. /\ \A u \in Up \ {s} : loads'[u] = loads[u] /\ InUse(u)' = InUse(u)
          /\ idx \notin InUse(s) /\ InUse(s)' = InUse(s) \cup {idx}
          /\ loads'[s][idx].slot = slot /\ loads'[s][idx].key = key /\ loads'[s][idx].failed = failed
          /\ \A j \in InUse(s) : loads'[s][j] = loads[s][j]
          /\ \A q \in Queued' : \/ q \in Queued
                                \/ q.owner = <<s, idx>> /\ q.slice \in 1..c /\ ~q.err
      BY <1>4, <1>8, <3>1, <3>2, TakenFacts
    <3> QED
      BY <3>3
  <2>2. ASSUME NEW q \in Queued' PROVE SliceOf(q)'
    <3>1. CASE q \in Queued
      <4>1. q \in Reads
        BY <3>1, QueuedReads
      <4>2. PICK u \in Up : \E j \in InUse(u) : q.owner = <<u, j>>
        BY <4>1, OwnerOf
      <4> PICK j \in InUse(u) : q.owner = <<u, j>>
        BY <4>2
      <4>3. loads'[u][j] = loads[u][j]
        BY <2>1
      <4>4. SlicesPlanned
        BY DEF Placed
      <4>5. q.slice \in DOMAIN topo[u].plan[loads[u][j].key]
        BY <3>1, <4>4, PieceOf
      <4>6. topo' = topo
        BY <1>1
      <4> QED
        BY <4>3, <4>5, <4>6 DEF SliceOf
    <3>2. CASE q.owner = <<s, idx>> /\ q.slice \in 1..c
      <4>1. q.slice \in DOMAIN plan
        BY <1>2, <3>2
      <4>2. loads'[s][idx].key = key /\ topo' = topo
        BY <1>1, <2>1
      <4> QED
        BY <3>2, <4>1, <4>2 DEF SliceOf
    <3> QED
      BY <2>1, <3>1, <3>2
  <2>3. ASSUME NEW u \in Up, NEW i \in InUse(u)'
        PROVE  /\ slots'[u][loads'[u][i].slot].state = "INFLIGHT"
               /\ pool[u].regions[loads'[u][i].slot[1]].group = GroupOf(topo[u], loads'[u][i].key[1])
    <3>1. CASE i \in InUse(u)
      <4>1. loads'[u][i] = loads[u][i]
        BY <2>1, <3>1
      <4>2. pool[u].regions[loads[u][i].slot[1]].group = GroupOf(topo[u], loads[u][i].key[1])
        BY <3>1 DEF Placed, SlotsTaken
      <4> QED
        BY <1>6, <3>1, <4>1, <4>2
    <3>2. CASE i \notin InUse(u)
      <4>1. u = s /\ i = idx
        BY <2>1, <2>3, <3>2
      <4> QED
        BY <1>3, <1>5, <2>1, <4>1
    <3> QED
      BY <3>1, <3>2
  <2>4. ASSUME NEW u \in Up, NEW i \in InUse(u)', NEW j \in InUse(u)', loads'[u][i].slot = loads'[u][j].slot
        PROVE  i = j
    <3>1. CASE i \in InUse(u) /\ j \in InUse(u)
      <4>1. loads'[u][i] = loads[u][i] /\ loads'[u][j] = loads[u][j]
        BY <2>1, <3>1
      <4> QED
        BY <2>4, <3>1, <4>1 DEF Placed, SlotsTaken
    <3>2. CASE i \notin InUse(u) \/ j \notin InUse(u)
      <4>1. u = s /\ (i = idx \/ j = idx) /\ (i # idx => i \in InUse(s)) /\ (j # idx => j \in InUse(s))
        BY <2>1, <2>4, <3>2
      <4>2. \A k \in InUse(s) : loads'[s][k].slot # slot
        BY <1>2, <1>6, <2>1
      <4> QED
        BY <2>1, <2>4, <4>1, <4>2
    <3> QED
      BY <3>1, <3>2
  <2>5. SlotsTaken'
    BY <1>1, <1>2, <2>3, <2>4 DEF SlotsTaken
  <2> QED
    BY <2>2, <2>5 DEF Placed, SlicesPlanned
<1>9. \/ UNCHANGED <<loads, flight, port>>
      \/ \E idx : \E c \in 0..Len(plan) : \E failed : Started(s, idx, slot, key, c, failed)
  BY <1>1, StartFacts
<1> QED
  BY <1>7, <1>8, <1>9

\* Every action keeps the loads in their slots.
LEMMA PlacedStep == ASSUME LoadInv, LoadInv', Placed, [Next]_vars PROVE Placed'
<1> USE DEF vars, setupVars, schedVars, engineVars
<1>1. ASSUME NEW main, NEW fmt, Convert(main, fmt) PROVE Placed'
  BY <1>1, PlacedQuiet DEF Convert, Queued
<1>2. ASSUME NEW s \in Scheds, NEW main, SetupFrom(s, main) PROVE Placed'
  BY <1>2, PlacedSetup
<1>3. ASSUME NEW s \in Scheds, StopFlag(s) \/ Unregister(s) PROVE Placed'
  BY <1>3, PlacedQuiet DEF StopFlag, Unregister, Queued
<1>4. ASSUME NEW s \in running, NEW slot \in DOMAIN slots[s], NEW key \in DOMAIN topo[s].plan,
             NEW refused \in 0..Len(topo[s].plan[key]), Load(s, slot, key, refused)
      PROVE  Placed'
  BY <1>4, PlacedLoad
<1>5. CASE Snapshot \/ Harvest \/ EndTick
  BY <1>5, TickFacts, PlacedQuiet
<1>6. CASE Dispatch
  BY <1>6, PlacedDispatch
<1>7. ASSUME NEW r \in flight, NEW err \in BOOLEAN, KernelCompletes(r, err) PROVE Placed'
  BY <1>7, PlacedKernel
<1>8. CASE UNCHANGED vars
  BY <1>8, PlacedQuiet DEF Queued
<1> QED
  BY <1>1, <1>2, <1>3, <1>4, <1>5, <1>6, <1>7, <1>8 DEF Next, WorkerStep, KernelStep

\* What a step writes is written to a slot that is being loaded, or was.
WritesLoaded ==
  \/ UNCHANGED mem
  \/ \E s \in Up : \E x \in DOMAIN slots[s] :
       WritesOnly(s, x) /\ "INFLIGHT" \in {slots[s][x].state, slots'[s][x].state}

\* A piece within its column is within the slot.
LEMMA FitsInside ==
  ASSUME Fits, NEW s \in Up, NEW x \in Slots(pool[s]), NEW key \in DOMAIN topo[s].plan,
         pool[s].regions[x[1]].group = GroupOf(topo[s], key[1])
  PROVE  Inside(s, x, key)
<1> DEFINE plan == topo[s].plan[key]
           rx == pool[s].regions[x[1]]
<1> SUFFICES ASSUME NEW i \in DOMAIN plan
             PROVE  LET sl == plan[i]
                        at == ColAddr(pool[s], x, sl.column) + sl.dst
                    IN  /\ at \in Nat /\ sl.bytes \in Nat /\ at..(at + sl.bytes - 1) \subseteq SlotAddrs(pool[s], x)
                        /\ sl.direct => sl.len = sl.bytes
  BY DEF Inside
<1> DEFINE c == plan[i].column
           a == ColAddr(pool[s], x, c)
<1>1. {plan[i].start, plan[i].len, plan[i].staging, plan[i].src, plan[i].bytes, plan[i].dst, pool[s].staging} \subseteq Nat
      /\ (plan[i].direct => plan[i].len = plan[i].bytes)
  BY DEF Fits, PiecesApart
<1>2. x[1] \in DOMAIN pool[s].regions
  BY DEF Slots
<1>3. c \in DOMAIN rx.cols /\ plan[i].dst + plan[i].bytes <= rx.cols[c].stride
  BY <1>2 DEF Fits, PiecesInside, Fills
<1>4. a \in Nat /\ rx.cols[c].stride \in Nat
  BY <1>3 DEF Fits, ColumnsApart
<1>5. a..(a + rx.cols[c].stride - 1) \subseteq SlotAddrs(pool[s], x)
  BY <1>3 DEF SlotAddrs
<1> HIDE DEF a, c, rx, plan
<1>6. (a + plan[i].dst)..(a + plan[i].dst + plan[i].bytes - 1) \subseteq SlotAddrs(pool[s], x)
  <2> DEFINE dst == plan[i].dst
             len == plan[i].bytes
             top == rx.cols[c].stride
  <2>1. dst \in Nat /\ len \in Nat /\ top \in Nat /\ a \in Nat /\ dst + len <= top
    BY <1>1, <1>3, <1>4
  <2>2. a..(a + top - 1) \subseteq SlotAddrs(pool[s], x)
    BY <1>5
  <2> HIDE DEF dst, len, top
  <2>3. (a + dst)..(a + dst + len - 1) \subseteq a..(a + top - 1)
    BY <2>1
  <2>4. (a + dst)..(a + dst + len - 1) \subseteq SlotAddrs(pool[s], x)
    BY <2>2, <2>3
  <2> QED
    BY <2>4 DEF dst, len
<1> QED
  BY <1>1, <1>4, <1>6 DEF a, c

\* A load's slot is one its pieces lie in.
LEMMA LoadInside ==
  ASSUME LoadInv, SlotsTaken, Fits, NEW s \in Up, NEW i \in InUse(s)
  PROVE  /\ loads[s][i].slot \in DOMAIN slots[s] /\ slots[s][loads[s][i].slot].state = "INFLIGHT"
         /\ Inside(s, loads[s][i].slot, loads[s][i].key)
<1>1. /\ loads[s][i].key \in DOMAIN topo[s].plan /\ loads[s][i].slot \in DOMAIN slots[s]
      /\ DOMAIN slots[s] = Slots(pool[s])
  BY DEF LoadInv, LoadsTyped, IsLoad
<1>2. /\ slots[s][loads[s][i].slot].state = "INFLIGHT"
      /\ pool[s].regions[loads[s][i].slot[1]].group = GroupOf(topo[s], loads[s][i].key[1])
  BY DEF SlotsTaken
<1> QED
  BY <1>1, <1>2, FitsInside

\* Addresses are numbers.
LEMMA Addresses ==
  ASSUME MemShape, Fits, NEW s \in Up
  PROVE  \A a \in DOMAIN mem[s] : DOMAIN mem[s][a] \subseteq Nat
<1> SUFFICES ASSUME NEW a \in DOMAIN mem[s], NEW b \in DOMAIN mem[s][a] PROVE b \in Nat
  OBVIOUS
<1>1. b \in AreaAddrs(pool[s], a)
  BY DEF MemShape
<1>2. PICK x \in Slots(pool[s]) : b \in SlotAddrs(pool[s], x)
  BY <1>1 DEF AreaAddrs
<1> DEFINE rx == pool[s].regions[x[1]]
           from(c) == ColAddr(pool[s], x, c)
<1>3. PICK c \in DOMAIN rx.cols : b \in from(c)..(from(c) + rx.cols[c].stride - 1)
  BY <1>2 DEF SlotAddrs
<1>4. from(c) \in Nat
  BY DEF Fits, ColumnsApart
<1> QED
  BY <1>3, <1>4

\* The kernel writes to the slot of the load that the read is for.
LEMMA KernelWrites ==
  ASSUME LoadInv, Placed, MemShape, Fits,
         NEW r \in flight, NEW err \in BOOLEAN, KernelCompletes(r, err)
  PROVE  WritesLoaded
<1>1. r \in Reads /\ r \in Queued
  BY DEF LoadInv, Owned, Queued
<1>2. PICK s \in Up : \E i \in InUse(s) : r.owner = <<s, i>>
  BY <1>1, OwnerOf
<1> PICK i \in InUse(s) : r.owner = <<s, i>>
  BY <1>2
<1> DEFINE load == loads[s][i]
<1>3. mem' = IF err THEN mem ELSE FillMem(s, load, {r.slice})
  BY DEF KernelCompletes
<1>4. {r.slice} \subseteq DOMAIN topo[s].plan[load.key]
  BY <1>1, PieceOf DEF Placed
<1>5. load.slot \in DOMAIN slots[s] /\ slots[s][load.slot].state = "INFLIGHT" /\ Inside(s, load.slot, load.key)
  BY LoadInside DEF Placed
<1>6. s \in Scheds /\ \A a \in DOMAIN mem[s] : DOMAIN mem[s][a] \subseteq Nat
  BY Addresses DEF LoadInv, SetUp
<1> HIDE DEF load
<1>7. ~err => WritesOnly(s, load.slot)
  BY <1>3, <1>4, <1>5, <1>6, FillWrites
<1> QED
  BY <1>3, <1>5, <1>7 DEF WritesLoaded

\* So does the worker, with what it copies out of the staging buffer.
LEMMA DispatchWrites ==
  ASSUME LoadInv, Placed, MemShape, Fits, Dispatch
  PROVE  WritesLoaded
<1> DEFINE r == Head(worker.done)
<1>1. /\ r \in Reads /\ r \in Queued
      /\ IF r.owner[1] \in running THEN DrainCompletion(r) ELSE UNCHANGED <<mem, loads, slots>>
  BY DispatchQueue
<1> HIDE DEF r
<1>2. PICK s \in Up : \E i \in InUse(s) : r.owner = <<s, i>>
  BY <1>1, OwnerOf
<1> PICK i \in InUse(s) : r.owner = <<s, i>>
  BY <1>2
<1> DEFINE load == loads[s][i]
<1>3. mem' = mem \/ mem' = CopyOut(s, load, r.slice)
  BY <1>1 DEF DrainCompletion
<1>4. r.slice \in DOMAIN topo[s].plan[load.key]
  BY <1>1, PieceOf DEF Placed
<1>5. load.slot \in DOMAIN slots[s] /\ slots[s][load.slot].state = "INFLIGHT" /\ Inside(s, load.slot, load.key)
  BY LoadInside DEF Placed
<1>6. s \in Scheds /\ \A a \in DOMAIN mem[s] : DOMAIN mem[s][a] \subseteq Nat
  BY Addresses DEF LoadInv, SetUp
<1> HIDE DEF load
<1>7. mem' = CopyOut(s, load, r.slice) => WritesOnly(s, load.slot)
  BY <1>4, <1>5, <1>6, CopyWrites
<1> QED
  BY <1>3, <1>5, <1>7 DEF WritesLoaded

\* start_async_load, where the engine reads at once, writes to the slot it takes.
LEMMA LoadWrites ==
  ASSUME LoadInv, MemShape, Fits,
         NEW s \in running, NEW slot \in DOMAIN slots[s], NEW key \in DOMAIN topo[s].plan,
         NEW refused \in 0..Len(topo[s].plan[key]), Load(s, slot, key, refused)
  PROVE  WritesLoaded
<1> DEFINE sent == Submitted(s, slot, topo[s].plan[key], refused)
           new  == [key |-> key, slot |-> slot, pending |-> Cardinality(sent),
                    failed |-> sent # DOMAIN topo[s].plan[key], mask |-> StagingMask(s, slot, topo[s].plan[key]),
                    staging |-> [a \in 0..(pool[s].staging - 1) |-> Hole]]
<1>1. StartAsyncLoad(s, slot, key, refused) /\ Available(s, slot, key) /\ s \in Up
  BY DEF Load, LoadInv, SetUp
<1>2. mem' = mem \/ mem' = FillMem(s, new, sent)
  BY <1>1 DEF StartAsyncLoad
<1>3. new.key = key /\ new.slot = slot /\ sent \subseteq DOMAIN topo[s].plan[key]
  BY DEF Submitted
<1>4. slots'[s][slot].state = "INFLIGHT"
  <2>1. PICK v : slots' = [slots EXCEPT ![s][slot] = [state |-> "INFLIGHT", key |-> v]]
    BY <1>1, StartFacts
  <2> HIDE DEF sent, new
  <2> QED
    BY <1>1, <2>1, TakenSlots
<1>5. Inside(s, slot, key)
  <2>1. pool[s].regions[slot[1]].group = GroupOf(topo[s], key[1])
    BY <1>1, AvailableFacts
  <2>2. slot \in Slots(pool[s])
    BY <1>1 DEF LoadInv, LoadsTyped
  <2> QED
    BY <1>1, <2>1, <2>2, FitsInside
<1>6. s \in Scheds /\ \A a \in DOMAIN mem[s] : DOMAIN mem[s][a] \subseteq Nat
  BY <1>1, Addresses DEF LoadInv, SetUp
<1> HIDE DEF new, sent
<1>7. mem' = FillMem(s, new, sent) => WritesOnly(s, slot)
  BY <1>3, <1>5, <1>6, FillWrites
<1> QED
  BY <1>1, <1>2, <1>4, <1>7 DEF WritesLoaded

\* Setting a scheduler up makes its memory, and leaves that of the others.
LEMMA SetupShape ==
  ASSUME LoadInv, MemShape, NEW s \in Scheds, NEW main, SetupFrom(s, main)
  PROVE  /\ MemShape'
         /\ \A u \in Up : mem'[u] = mem[u]
<1>1. PICK t, p : Start(s, t, p)
  BY DEF SetupFrom, Setup
<1> DEFINE m == [a \in {p.regions[r].area : r \in DOMAIN p.regions} |-> [x \in AreaAddrs(p, a) |-> Hole]]
<1>2. topo' = With(topo, s, t) /\ pool' = With(pool, s, p) /\ mem' = [mem EXCEPT ![s] = m]
  BY <1>1 DEF Start
<1>3. s \notin Up /\ DOMAIN pool = Up /\ DOMAIN mem = Scheds
  BY DEF SetupFrom, LoadInv, SetUp, MemShape
<1>4. DOMAIN m = {p.regions[r].area : r \in DOMAIN p.regions} /\ \A a \in DOMAIN m : DOMAIN m[a] = AreaAddrs(p, a)
  OBVIOUS
<1> HIDE DEF m
<1>5. /\ Up' = Up \cup {s} /\ pool'[s] = p
      /\ \A u \in Up : pool'[u] = pool[u]
  BY <1>2, <1>3 DEF Up, With
<1>6. /\ DOMAIN mem' = Scheds /\ mem'[s] = m
      /\ \A u \in Up : mem'[u] = mem[u]
  BY <1>2, <1>3
<1>7. ASSUME NEW u \in Up'
      PROVE  /\ DOMAIN mem'[u] = {pool'[u].regions[r].area : r \in DOMAIN pool'[u].regions}
             /\ \A a \in DOMAIN mem'[u] : DOMAIN mem'[u][a] = AreaAddrs(pool'[u], a)
  <2>1. CASE u = s
    BY <1>4, <1>5, <1>6, <2>1
  <2>2. CASE u \in Up
    <3>1. mem'[u] = mem[u] /\ pool'[u] = pool[u]
      BY <1>5, <1>6, <2>2
    <3> QED
      BY <2>2, <3>1 DEF MemShape
  <2> QED
    BY <1>5, <2>1, <2>2
<1>8. MemShape'
  BY <1>6, <1>7 DEF MemShape
<1> QED
  BY <1>6, <1>8

\* Every other step writes to the slot of a load at most.
LEMMA StepWrites ==
  ASSUME LoadInv, Placed, MemShape, Fits, [Next]_vars
  PROVE  \/ \E s \in Scheds : \E main : SetupFrom(s, main)
         \/ WritesLoaded /\ UNCHANGED <<topo, pool>>
<1> USE DEF vars, setupVars, schedVars, engineVars
<1>1. ASSUME NEW main, NEW fmt, Convert(main, fmt) PROVE UNCHANGED <<mem, topo, pool>>
  BY <1>1 DEF Convert
<1>2. ASSUME NEW s \in Scheds, StopFlag(s) \/ Unregister(s) PROVE UNCHANGED <<mem, topo, pool>>
  BY <1>2 DEF StopFlag, Unregister
<1>3. ASSUME NEW s \in running, NEW slot \in DOMAIN slots[s], NEW key \in DOMAIN topo[s].plan,
             NEW refused \in 0..Len(topo[s].plan[key]), Load(s, slot, key, refused)
      PROVE  WritesLoaded /\ UNCHANGED <<topo, pool>>
  <2>1. WritesLoaded
    BY <1>3, LoadWrites
  <2> QED
    BY <1>3, <2>1 DEF Load
<1>4. CASE Snapshot \/ Harvest \/ EndTick
  BY <1>4 DEF Snapshot, Harvest, EndTick, WritesLoaded
<1>5. CASE Dispatch
  <2>1. WritesLoaded
    BY <1>5, DispatchWrites
  <2> QED
    BY <1>5, <2>1 DEF Dispatch
<1>6. ASSUME NEW r \in flight, NEW err \in BOOLEAN, KernelCompletes(r, err)
      PROVE  WritesLoaded /\ UNCHANGED <<topo, pool>>
  <2>1. WritesLoaded
    BY <1>6, KernelWrites
  <2> QED
    BY <1>6, <2>1 DEF KernelCompletes
<1>7. CASE UNCHANGED vars
  BY <1>7 DEF WritesLoaded
<1> QED
  BY <1>1, <1>2, <1>3, <1>4, <1>5, <1>6, <1>7 DEF Next, WorkerStep, KernelStep, WritesLoaded

\* A scheduler's memory keeps its shape.
LEMMA ShapeStep ==
  ASSUME LoadInv, Placed, MemShape, Fits, [Next]_vars
  PROVE  MemShape'
<1>1. CASE \E s \in Scheds : \E main : SetupFrom(s, main)
  BY <1>1, SetupShape
<1>2. CASE WritesLoaded /\ UNCHANGED <<topo, pool>>
  <2>1. /\ DOMAIN mem' = DOMAIN mem
        /\ \A u \in DOMAIN mem : /\ DOMAIN mem'[u] = DOMAIN mem[u]
                                 /\ \A a \in DOMAIN mem[u] : DOMAIN mem'[u][a] = DOMAIN mem[u][a]
    BY <1>2 DEF WritesLoaded, WritesOnly
  <2>2. Up' = Up /\ Up \subseteq Scheds /\ pool' = pool
    BY <1>2 DEF Up, LoadInv, SetUp
  <2> QED
    BY <2>1, <2>2 DEF MemShape
<1> QED
  BY <1>1, <1>2, StepWrites

\* No step writes outside the slot of a load.
LEMMA OwnSlotStep ==
  ASSUME LoadInv, Placed, MemShape, Fits, [Next]_vars
  PROVE  \A s \in Up : \A a \in DOMAIN mem[s] : \A x \in DOMAIN mem[s][a] :
           mem'[s][a][x] # mem[s][a][x] =>
             \E y \in DOMAIN slots[s] :
               /\ pool[s].regions[y[1]].area = a /\ x \in SlotAddrs(pool[s], y)
               /\ "INFLIGHT" \in {slots[s][y].state, slots'[s][y].state}
<1> SUFFICES ASSUME NEW s \in Up, NEW a \in DOMAIN mem[s], NEW x \in DOMAIN mem[s][a],
                    mem'[s][a][x] # mem[s][a][x]
             PROVE  \E y \in DOMAIN slots[s] :
                      /\ pool[s].regions[y[1]].area = a /\ x \in SlotAddrs(pool[s], y)
                      /\ "INFLIGHT" \in {slots[s][y].state, slots'[s][y].state}
  OBVIOUS
<1>1. ~ \E u \in Scheds : \E main : SetupFrom(u, main)
  BY SetupShape
<1>2. WritesLoaded /\ mem' # mem
  BY <1>1, StepWrites
<1>3. PICK u \in Up : \E y \in DOMAIN slots[u] :
                        WritesOnly(u, y) /\ "INFLIGHT" \in {slots[u][y].state, slots'[u][y].state}
  BY <1>2 DEF WritesLoaded
<1> PICK y \in DOMAIN slots[u] : WritesOnly(u, y) /\ "INFLIGHT" \in {slots[u][y].state, slots'[u][y].state}
  BY <1>3
<1>4. s \in DOMAIN mem
  BY DEF LoadInv, SetUp, MemShape
<1>5. s = u /\ pool[u].regions[y[1]].area = a /\ x \in SlotAddrs(pool[u], y)
  BY <1>4 DEF WritesOnly
<1> QED
  BY <1>5

\* OwnSlotOnly, for any files, plans and pools that are as the runs find all that the
\* planner and the allocator make: neither what the kernel reads nor what
\* drain_completions copies reaches an expert that is in use.
THEOREM OwnSlots == Spec /\ []PlansFit /\ []PoolPartition => OwnSlotOnly
<1>1. Init => Placed /\ MemShape
  BY PlacedInit
<1>2. LoadInv /\ LoadInv' /\ Placed /\ [Next]_vars => Placed'
  BY PlacedStep
<1>3. LoadInv /\ Placed /\ MemShape /\ Fits /\ [Next]_vars => MemShape'
  BY ShapeStep
<1>4. LoadInv /\ Placed /\ MemShape /\ Fits /\ [Next]_vars =>
        \A s \in Up : \A a \in DOMAIN mem[s] : \A x \in DOMAIN mem[s][a] :
          mem'[s][a][x] # mem[s][a][x] =>
            \E y \in DOMAIN slots[s] :
              /\ pool[s].regions[y[1]].area = a /\ x \in SlotAddrs(pool[s], y)
              /\ "INFLIGHT" \in {slots[s][y].state, slots'[s][y].state}
  BY OwnSlotStep
<1>5. PlansFit /\ PoolPartition => Fits
  BY DEF PlansFit, PoolPartition, Fits
<1> QED
  BY <1>1, <1>2, <1>3, <1>4, <1>5, LoadInvariant, PTL DEF Spec, OwnSlotOnly

-----------------------------------------------------------------------------
(* A slot that is READY holds its expert.                                  *)

\* Byte o of piece i of an expert, as its tensor has it.
PieceByte(s, key, i, o) ==
  LET sl == topo[s].plan[key][i]
  IN  SliceByte(s, Branch(s, key[1], sl.column), key[2], sl.dst + o)

\* Where a piece belongs in a slot.
PlaceOf(s, slot, key, i) ==
  LET sl == topo[s].plan[key][i]
  IN  ColAddr(pool[s], slot, sl.column) + sl.dst
AreaOf(s, slot) == pool[s].regions[slot[1]].area
LengthOf(s, key, i) == topo[s].plan[key][i].bytes

\* A slot is for an expert of its group.
Suits(s, slot, key) ==
  /\ slot \in Slots(pool[s]) /\ key \in DOMAIN topo[s].plan
  /\ pool[s].regions[slot[1]].group = GroupOf(topo[s], key[1])

\* Pieces have numbers.
LEMMA PieceFacts ==
  ASSUME LoadInv, Fits, NEW s \in Up, NEW slot, NEW key, Suits(s, slot, key), NEW i \in DOMAIN topo[s].plan[key]
  PROVE  LET sl == topo[s].plan[key][i]
         IN  /\ i \in Nat
             /\ sl.start \in Nat /\ sl.len \in Nat /\ sl.staging \in Nat /\ sl.src \in Nat /\ sl.bytes \in Nat
             /\ sl.staging <= sl.src /\ sl.src + sl.bytes <= sl.staging + sl.len
             /\ sl.staging + sl.len <= pool[s].staging /\ pool[s].staging \in Nat
             /\ sl.direct => sl.len = sl.bytes /\ sl.src = sl.staging
             /\ PlaceOf(s, slot, key, i) \in Nat
<1> DEFINE sl == topo[s].plan[key][i]
<1>1. i \in Nat /\ key \in DOMAIN topo[s].plan
  BY DEF LoadInv, SetUp, Suits
<1>2. /\ {sl.start, sl.len, sl.staging, sl.src, sl.bytes, sl.dst, pool[s].staging} \subseteq Nat
      /\ sl.staging <= sl.src /\ sl.src + sl.bytes <= sl.staging + sl.len
      /\ sl.staging + sl.len <= pool[s].staging
      /\ sl.direct => sl.len = sl.bytes
  BY <1>1 DEF Fits, PiecesApart
<1>3. Inside(s, slot, key)
  BY FitsInside DEF Suits
<1>4. PlaceOf(s, slot, key, i) \in Nat
  BY <1>3 DEF Inside, PlaceOf
<1> HIDE DEF sl
<1> QED
  BY <1>1, <1>2, <1>4 DEF sl

\* The bytes of a piece are in the slot.
LEMMA PieceInSlot ==
  ASSUME LoadInv, Fits, NEW s \in Up, NEW slot, NEW key, Suits(s, slot, key), NEW i \in DOMAIN topo[s].plan[key],
         NEW o \in 0..(LengthOf(s, key, i) - 1)
  PROVE  PlaceOf(s, slot, key, i) + o \in SlotAddrs(pool[s], slot)
<1> DEFINE at == PlaceOf(s, slot, key, i)
           n == LengthOf(s, key, i)
<1>1. Inside(s, slot, key)
  BY FitsInside DEF Suits
<1>2. at..(at + n - 1) \subseteq SlotAddrs(pool[s], slot) /\ at \in Nat /\ n \in Nat
  BY <1>1 DEF Inside, PlaceOf, LengthOf
<1> HIDE DEF at, n
<1>3. at + o \in at..(at + n - 1)
  BY <1>2 DEF n
<1> QED
  BY <1>2, <1>3 DEF at

\* Two pieces have no address in common.
LEMMA PiecesDisjoint ==
  ASSUME LoadInv, Fits, NEW s \in Up, NEW slot, NEW key, Suits(s, slot, key),
         NEW i \in DOMAIN topo[s].plan[key], NEW j \in DOMAIN topo[s].plan[key], i # j
  PROVE  \/ PlaceOf(s, slot, key, i) + LengthOf(s, key, i) <= PlaceOf(s, slot, key, j)
         \/ PlaceOf(s, slot, key, j) + LengthOf(s, key, j) <= PlaceOf(s, slot, key, i)
<1> DEFINE plan == topo[s].plan[key]
           rx == pool[s].regions[slot[1]]
           c(k) == plan[k].column
           ax(k) == ColAddr(pool[s], slot, c(k))
<1>1. i \in Nat /\ j \in Nat /\ slot[1] \in DOMAIN pool[s].regions /\ slot \in Slots(pool[s])
  <2>1. key \in DOMAIN topo[s].plan /\ slot \in Slots(pool[s])
    BY DEF Suits
  <2>2. i \in Nat /\ j \in Nat
    BY <2>1 DEF LoadInv, SetUp
  <2> QED
    BY <2>1, <2>2 DEF Slots
<1>2. \A k \in DOMAIN plan : {plan[k].start, plan[k].len, plan[k].staging, plan[k].src, plan[k].bytes, plan[k].dst} \subseteq Nat
  <2> SUFFICES ASSUME NEW k \in DOMAIN plan
               PROVE  {plan[k].start, plan[k].len, plan[k].staging, plan[k].src, plan[k].bytes, plan[k].dst} \subseteq Nat
    OBVIOUS
  <2>1. key \in DOMAIN topo[s].plan
    BY DEF Suits
  <2>2. {plan[k].start, plan[k].len, plan[k].staging, plan[k].src, plan[k].bytes, plan[k].dst, pool[s].staging} \subseteq Nat
    BY <2>1 DEF Fits, PiecesApart
  <2> QED
    BY <2>2
<1>3. Fills(plan, rx.cols)
  BY <1>1 DEF Fits, PiecesInside, Suits
<1>4. \A k \in DOMAIN plan : c(k) \in DOMAIN rx.cols /\ plan[k].dst + plan[k].bytes <= rx.cols[c(k)].stride
  BY <1>3 DEF Fills
<1>5. \A k \in DOMAIN plan : ax(k) \in Nat /\ rx.cols[c(k)].stride \in Nat
  BY <1>1, <1>4 DEF Fits, ColumnsApart
<1>6. \A k \in DOMAIN plan : PlaceOf(s, slot, key, k) = ax(k) + plan[k].dst /\ LengthOf(s, key, k) = plan[k].bytes
  BY DEF PlaceOf, LengthOf
\* The numbers at hand, for i and for j.
<1> DEFINE m == ax(i)
           n == ax(j)
           p == plan[i].dst
           q == plan[j].dst
           k == plan[i].bytes
           l == plan[j].bytes
           v == rx.cols[c(i)].stride
           w == rx.cols[c(j)].stride
<1>7. /\ m \in Nat /\ n \in Nat /\ p \in Nat /\ q \in Nat /\ k \in Nat /\ l \in Nat /\ v \in Nat /\ w \in Nat
      /\ p + k <= v /\ q + l <= w
  BY <1>2, <1>4, <1>5
<1>8. \/ m = n /\ (p + k <= q \/ q + l <= p)
      \/ m + v <= n \/ n + w <= m
  <2>1. CASE c(i) = c(j)
    <3>1. i < j \/ j < i
      BY <1>1
    <3>2. i < j => p + k <= q
      BY <1>3, <2>1 DEF Fills
    <3>3. j < i => q + l <= p
      BY <1>3, <2>1 DEF Fills
    <3> QED
      BY <2>1, <3>1, <3>2, <3>3
  <2>2. CASE c(i) # c(j)
    <3>1. <<slot, c(i)>> # <<slot, c(j)>>
      BY <2>2
    <3>2. c(i) \in DOMAIN rx.cols /\ c(j) \in DOMAIN rx.cols
      BY <1>4
    <3> QED
      BY <1>1, <3>1, <3>2 DEF Fits, ColumnsApart
  <2> QED
    BY <2>1, <2>2
<1>9. PlaceOf(s, slot, key, i) = m + p /\ PlaceOf(s, slot, key, j) = n + q /\ LengthOf(s, key, i) = k /\ LengthOf(s, key, j) = l
  BY <1>6
<1> HIDE DEF m, n, p, q, k, l, v, w
<1> QED
  BY <1>7, <1>8, <1>9

\* Nor have two slots.
LEMMA SlotsDisjoint ==
  ASSUME Fits, NEW s \in Up, NEW x \in Slots(pool[s]), NEW y \in Slots(pool[s]), x # y,
         AreaOf(s, x) = AreaOf(s, y), NEW b \in SlotAddrs(pool[s], x)
  PROVE  b \notin SlotAddrs(pool[s], y)
<1> DEFINE rx == pool[s].regions[x[1]]
           ry == pool[s].regions[y[1]]
           ax(c) == ColAddr(pool[s], x, c)
           ay(d) == ColAddr(pool[s], y, d)
<1>1. PICK c \in DOMAIN rx.cols : b \in ax(c)..(ax(c) + rx.cols[c].stride - 1)
  BY DEF SlotAddrs
<1> SUFFICES ASSUME NEW d \in DOMAIN ry.cols, b \in ay(d)..(ay(d) + ry.cols[d].stride - 1) PROVE FALSE
  BY DEF SlotAddrs
<1>2. ax(c) \in Nat /\ rx.cols[c].stride \in Nat
  BY DEF Fits, ColumnsApart
<1>3. ay(d) \in Nat /\ ry.cols[d].stride \in Nat
  BY DEF Fits, ColumnsApart
<1>4. <<x, c>> # <<y, d>> /\ rx.area = ry.area
  BY DEF AreaOf
<1>5. ax(c) + rx.cols[c].stride <= ay(d) \/ ay(d) + ry.cols[d].stride <= ax(c)
  BY <1>4 DEF Fits, ColumnsApart
<1> HIDE DEF ax, ay, rx, ry
<1> QED
  BY <1>1, <1>2, <1>3, <1>5
\* What a piece is read to: its part of the column, or of the staging buffer.
LEMMA TargetFacts ==
  ASSUME NEW s, NEW slot, NEW key, NEW i
  PROVE  LET to == Target(s, slot, topo[s].plan[key][i])
         IN  IF Staged(s, slot, key, i) THEN to.addr = topo[s].plan[key][i].staging
             ELSE to.addr = PlaceOf(s, slot, key, i) /\ topo[s].plan[key][i].direct
BY DEF Target, PlaceOf, Staged

\* Nothing else is read to where a piece lies in the slot,
LEMMA OnlyInSlot ==
  ASSUME LoadInv, Fits, NEW s \in Up, NEW load, Suits(s, load.slot, load.key),
         NEW i \in DOMAIN topo[s].plan[load.key], NEW k \in DOMAIN topo[s].plan[load.key],
         NEW o \in 0..(LengthOf(s, load.key, k) - 1),
         ~Staged(s, load.slot, load.key, i), ReadsTo(s, load, i, PlaceOf(s, load.slot, load.key, k) + o)
  PROVE  i = k
<1> DEFINE sl == topo[s].plan[load.key][i]
           to == Target(s, load.slot, sl)
           p  == PlaceOf(s, load.slot, load.key, i)
           q  == PlaceOf(s, load.slot, load.key, k)
           m  == LengthOf(s, load.key, i)
           n  == LengthOf(s, load.key, k)
<1>1. to.addr <= q + o /\ q + o < to.addr + sl.len
  BY DEF ReadsTo
<1>2. to.addr = p /\ sl.direct
  BY TargetFacts
<1>3. sl.len = m /\ m \in Nat /\ p \in Nat
  <2>1. LET piece == topo[s].plan[load.key][i]
        IN  /\ i \in Nat
            /\ piece.start \in Nat /\ piece.len \in Nat /\ piece.staging \in Nat /\ piece.src \in Nat /\ piece.bytes \in Nat
            /\ piece.staging <= piece.src /\ piece.src + piece.bytes <= piece.staging + piece.len
            /\ piece.staging + piece.len <= pool[s].staging /\ pool[s].staging \in Nat
            /\ piece.direct => piece.len = piece.bytes /\ piece.src = piece.staging
            /\ PlaceOf(s, load.slot, load.key, i) \in Nat
    BY PieceFacts
  <2>2. (sl.direct => sl.len = sl.bytes) /\ sl.bytes \in Nat /\ p \in Nat
    BY <2>1
  <2> QED
    BY <1>2, <2>2 DEF LengthOf
<1>4. n \in Nat /\ q \in Nat
  BY PieceFacts DEF LengthOf
<1> SUFFICES ASSUME i # k PROVE FALSE
  OBVIOUS
<1>5. p + m <= q \/ q + n <= p
  BY PiecesDisjoint
<1>6. o \in 0..(n - 1) /\ p <= q + o /\ q + o < p + m
  BY <1>1, <1>2, <1>3
<1> HIDE DEF p, q, m, n
<1> QED
  BY <1>3, <1>4, <1>5, <1>6

\* nor to where it lies in the buffer.
LEMMA OnlyInBuffer ==
  ASSUME LoadInv, Fits, NEW s \in Up, NEW load, Suits(s, load.slot, load.key),
         NEW i \in DOMAIN topo[s].plan[load.key], NEW k \in DOMAIN topo[s].plan[load.key],
         NEW o \in 0..(LengthOf(s, load.key, k) - 1),
         Staged(s, load.slot, load.key, i), ReadsTo(s, load, i, topo[s].plan[load.key][k].src + o)
  PROVE  i = k
<1> DEFINE plan == topo[s].plan[load.key]
           to == Target(s, load.slot, plan[i])
           p == plan[i].staging
           m == plan[i].len
           q == plan[k].staging
           n == plan[k].len
           a == plan[k].src
           b == plan[k].bytes
<1>1. to.addr <= a + o /\ a + o < to.addr + m
  BY DEF ReadsTo
<1>2. to.addr = p
  BY TargetFacts
<1>3. p \in Nat /\ m \in Nat /\ i \in Nat
  BY PieceFacts
<1>4. q \in Nat /\ n \in Nat /\ a \in Nat /\ b \in Nat /\ k \in Nat /\ q <= a /\ a + b <= q + n
  BY PieceFacts
<1>5. o \in 0..(b - 1)
  BY DEF LengthOf
<1>6. i < k => p + m <= q
  BY DEF Fits, PiecesApart, Suits
<1>7. k < i => q + n <= p
  BY DEF Fits, PiecesApart, Suits
<1> HIDE DEF p, m, q, n, a, b, plan, to
<1>8. p <= a + o /\ a + o < p + m
  BY <1>1, <1>2
<1> QED
  BY <1>3, <1>4, <1>5, <1>6, <1>7, <1>8

\* A read that ends well brings a piece whole: the file does not end before.
LEMMA BringsPiece ==
  ASSUME LoadInv, Fits, PiecesRight, NEW s \in Up, NEW load, Suits(s, load.slot, load.key),
         NEW k \in DOMAIN topo[s].plan[load.key], NEW o \in 0..(LengthOf(s, load.key, k) - 1)
  PROVE  LET a == IF Staged(s, load.slot, load.key, k) THEN topo[s].plan[load.key][k].src + o
                  ELSE PlaceOf(s, load.slot, load.key, k) + o
         IN  ReadsTo(s, load, k, a) /\ ByteFor(s, load, k, a) = PieceByte(s, load.key, k, o)
<1> DEFINE sl == topo[s].plan[load.key][k]
           to == Target(s, load.slot, sl)
           file == Opened(s)[sl.file]
           from == sl.start + sl.src - sl.staging
           at == PlaceOf(s, load.slot, load.key, k)
           st == Staged(s, load.slot, load.key, k)
           a == IF st THEN sl.src + o ELSE at + o
<1>1. /\ k \in Nat
      /\ sl.start \in Nat /\ sl.len \in Nat /\ sl.staging \in Nat /\ sl.src \in Nat /\ sl.bytes \in Nat
      /\ sl.staging <= sl.src /\ sl.src + sl.bytes <= sl.staging + sl.len
      /\ sl.staging + sl.len <= pool[s].staging /\ pool[s].staging \in Nat
      /\ sl.direct => sl.len = sl.bytes /\ sl.src = sl.staging
      /\ at \in Nat
  <2>1. LET p == topo[s].plan[load.key][k]
        IN  /\ k \in Nat
            /\ p.start \in Nat /\ p.len \in Nat /\ p.staging \in Nat /\ p.src \in Nat /\ p.bytes \in Nat
            /\ p.staging <= p.src /\ p.src + p.bytes <= p.staging + p.len
            /\ p.staging + p.len <= pool[s].staging /\ pool[s].staging \in Nat
            /\ p.direct => p.len = p.bytes /\ p.src = p.staging
            /\ PlaceOf(s, load.slot, load.key, k) \in Nat
    BY PieceFacts
  <2> QED
    BY <2>1
<1>2. o \in 0..(sl.bytes - 1)
  BY DEF LengthOf
<1>3. from + o < file.data_off + Len(file.data)
  BY <1>2 DEF PiecesRight, Suits
<1>4. ByteAt(file, from + o) = PieceByte(s, load.key, k, o)
  BY <1>2 DEF PiecesRight, Suits, PieceByte
<1>5. IF st THEN to.addr = sl.staging ELSE to.addr = at /\ sl.direct
  BY TargetFacts
<1>6. sl.start + a - to.addr = from + o /\ to.addr <= a /\ a < to.addr + sl.len
  <2> HIDE DEF sl, to, at, st
  <2>1. CASE st
    BY <1>1, <1>2, <1>5, <2>1
  <2>2. CASE ~st
    BY <1>1, <1>2, <1>5, <2>2
  <2> QED
    BY <2>1, <2>2
<1> HIDE DEF a
<1>7. ReadsTo(s, load, k, a)
  <2>1. sl.start + a - to.addr < file.data_off + Len(file.data)
    BY <1>3, <1>6
  <2> QED
    BY <1>6, <2>1 DEF ReadsTo
<1>8. ByteFor(s, load, k, a) = PieceByte(s, load.key, k, o)
  <2>1. ByteFor(s, load, k, a) = ByteAt(file, sl.start + a - to.addr)
    BY DEF ByteFor
  <2> QED
    BY <1>4, <1>6, <2>1
<1> QED
  BY <1>7, <1>8 DEF a

\* An address that one read at most is for.
LEMMA ReadOne ==
  ASSUME NEW s, NEW load, NEW pieces, NEW to, NEW a \in DOMAIN to, NEW k \in Nat,
         \A i \in pieces : ReadsTo(s, load, i, a) => i = k
  PROVE  ReadInto(to, s, load, pieces)[a]
           = IF k \in pieces /\ ReadsTo(s, load, k, a) THEN ByteFor(s, load, k, a) ELSE to[a]
<1> DEFINE over == {i \in pieces : ReadsTo(s, load, i, a)}
<1>1. ReadInto(to, s, load, pieces)[a] = IF over = {} THEN to[a] ELSE ByteFor(s, load, Max(over), a)
  BY DEF ReadInto
<1>2. CASE k \in pieces /\ ReadsTo(s, load, k, a)
  <2>1. over = {k}
    BY <1>2
  <2>2. Max({k}) = k
    BY DEF Max
  <2> HIDE DEF over
  <2> QED
    BY <1>1, <1>2, <2>1, <2>2
<1>3. CASE ~(k \in pieces /\ ReadsTo(s, load, k, a))
  <2>1. over = {}
    BY <1>3
  <2> HIDE DEF over
  <2> QED
    BY <1>1, <1>3, <2>1
<1> QED
  BY <1>2, <1>3

\* An expert is the same as long as its model is.
LEMMA SameExpert ==
  ASSUME NEW s, NEW slot, NEW key, NEW i, NEW o, UNCHANGED source, topo'[s] = topo[s], pool'[s] = pool[s]
  PROVE  /\ PieceByte(s, key, i, o)' = PieceByte(s, key, i, o)
         /\ PlaceOf(s, slot, key, i)' = PlaceOf(s, slot, key, i)
         /\ AreaOf(s, slot)' = AreaOf(s, slot)
         /\ LengthOf(s, key, i)' = LengthOf(s, key, i)
<1>1. Tensors(s)' = Tensors(s)
  BY DEF Tensors
<1>2. \A l, c : Branch(s, l, c)' = Branch(s, l, c)
  BY <1>1 DEF Branch
<1>3. \A t, e : SliceByte(s, t, e, i)' = SliceByte(s, t, e, i)
  BY DEF SliceByte
<1> QED
  BY <1>2, <1>3 DEF PieceByte, PlaceOf, AreaOf, LengthOf, ColAddr, SliceByte

\* So are where its pieces are read to, and the bits they have.
LEMMA SameTargets ==
  ASSUME NEW s, NEW slot, NEW key, NEW i, topo'[s] = topo[s], pool'[s] = pool[s]
  PROVE  /\ Staged(s, slot, key, i)' <=> Staged(s, slot, key, i)
         /\ Lost(s, slot, key)' = Lost(s, slot, key)
         /\ StagingMask(s, slot, topo[s].plan[key])' = StagingMask(s, slot, topo[s].plan[key])
<1>1. \A sl : Target(s, slot, sl)' = Target(s, slot, sl)
  BY DEF Target, ColAddr
<1>2. Staged(s, slot, key, i)' <=> Staged(s, slot, key, i)
  BY <1>1 DEF Staged
<1>3. Lost(s, slot, key)' = Lost(s, slot, key)
  BY <1>1 DEF Lost
<1>4. StagingMask(s, slot, topo[s].plan[key])' = StagingMask(s, slot, topo[s].plan[key])
  BY <1>1 DEF StagingMask
<1> QED
  BY <1>2, <1>3, <1>4

\* Where a piece lies in a slot is in its memory.
LEMMA PieceInMem ==
  ASSUME LoadInv, Fits, MemShape, NEW s \in Up, NEW slot, NEW key, Suits(s, slot, key),
         NEW i \in DOMAIN topo[s].plan[key], NEW o \in 0..(LengthOf(s, key, i) - 1)
  PROVE  /\ AreaOf(s, slot) \in DOMAIN mem[s] /\ s \in DOMAIN mem
         /\ PlaceOf(s, slot, key, i) + o \in DOMAIN mem[s][AreaOf(s, slot)]
<1>1. slot \in Slots(pool[s]) /\ slot[1] \in DOMAIN pool[s].regions
  BY DEF Suits, Slots
<1>2. AreaOf(s, slot) \in DOMAIN mem[s] /\ s \in DOMAIN mem
  BY <1>1 DEF MemShape, AreaOf, LoadInv, SetUp
<1>3. DOMAIN mem[s][AreaOf(s, slot)] = AreaAddrs(pool[s], AreaOf(s, slot))
  BY <1>2 DEF MemShape
<1>4. PlaceOf(s, slot, key, i) + o \in SlotAddrs(pool[s], slot)
  BY PieceInSlot
<1>5. PlaceOf(s, slot, key, i) + o \in AreaAddrs(pool[s], AreaOf(s, slot))
  BY <1>1, <1>4 DEF AreaAddrs, AreaOf
<1> QED
  BY <1>2, <1>3, <1>5

\* The memory after one area of it is replaced.
LEMMA AreaReplaced ==
  ASSUME NEW s \in DOMAIN mem, NEW area \in DOMAIN mem[s], NEW g, mem' = [mem EXCEPT ![s][area] = g]
  PROVE  mem'[s][area] = g
<1> DEFINE f == [mem[s] EXCEPT ![area] = g]
<1>1. mem' = [mem EXCEPT ![s] = f] /\ f[area] = g
  OBVIOUS
<1> HIDE DEF f
<1>2. mem'[s] = f
  BY <1>1
<1> QED
  BY <1>1, <1>2

\* A load whose slot and buffer can take the pieces that are sent.
Fillable(s, load, sent) ==
  /\ Suits(s, load.slot, load.key) /\ sent \subseteq DOMAIN topo[s].plan[load.key]
  /\ DOMAIN load.staging = 0..(pool[s].staging - 1)

\* Byte o of piece k is read to the slot or to the buffer, if the piece is sent
\* and goes there; else what was there stays.
SlotGets(s, load, sent, k, o) ==
  LET area == AreaOf(s, load.slot)
      a    == PlaceOf(s, load.slot, load.key, k) + o
  IN  mem'[s][area][a] = IF k \in sent /\ ~Staged(s, load.slot, load.key, k) THEN PieceByte(s, load.key, k, o)
                         ELSE mem[s][area][a]
BufferGets(s, load, sent, k, o) ==
  LET a == topo[s].plan[load.key][k].src + o
  IN  FillStaging(s, load, sent)[a] = IF k \in sent /\ Staged(s, load.slot, load.key, k) THEN PieceByte(s, load.key, k, o)
                                      ELSE load.staging[a]

\* What the kernel's part of some reads leaves in the slot.
LEMMA FillSlot ==
  ASSUME LoadInv, Fits, PiecesRight, MemShape, NEW s \in Up, NEW load, NEW sent, Fillable(s, load, sent),
         mem' = FillMem(s, load, sent),
         NEW k \in DOMAIN topo[s].plan[load.key], NEW o \in 0..(LengthOf(s, load.key, k) - 1)
  PROVE  SlotGets(s, load, sent, k, o)
<1> DEFINE area == AreaOf(s, load.slot)
           a == PlaceOf(s, load.slot, load.key, k) + o
           to == mem[s][area]
           pieces == {i \in sent : ~Staged(s, load.slot, load.key, i)}
           g == ReadInto(to, s, load, pieces)
<1> Suits(s, load.slot, load.key) /\ sent \subseteq DOMAIN topo[s].plan[load.key]
  BY DEF Fillable
<1>1. area \in DOMAIN mem[s] /\ s \in DOMAIN mem /\ a \in DOMAIN to
  BY PieceInMem
<1>2. mem' = [mem EXCEPT ![s][area] = g]
  BY DEF FillMem, AreaOf
<1>3. \A i \in pieces : ReadsTo(s, load, i, a) => i = k
  BY OnlyInSlot
<1>4. k \in pieces => ReadsTo(s, load, k, a) /\ ByteFor(s, load, k, a) = PieceByte(s, load.key, k, o)
  BY BringsPiece
<1>5. k \in Nat
  BY PieceFacts
<1>6. k \in pieces <=> k \in sent /\ ~Staged(s, load.slot, load.key, k)
  OBVIOUS
<1> HIDE DEF a, to, pieces
<1>7. g[a] = IF k \in pieces /\ ReadsTo(s, load, k, a) THEN ByteFor(s, load, k, a) ELSE to[a]
  BY <1>1, <1>3, <1>5, ReadOne
<1> HIDE DEF g, area
<1>8. mem'[s][area] = g
  BY <1>1, <1>2, AreaReplaced
<1> QED
  BY <1>4, <1>6, <1>7, <1>8 DEF SlotGets, area, a, to

\* And in the staging buffer.
LEMMA FillBuffer ==
  ASSUME LoadInv, Fits, PiecesRight, NEW s \in Up, NEW load, NEW sent, Fillable(s, load, sent),
         NEW k \in DOMAIN topo[s].plan[load.key], NEW o \in 0..(LengthOf(s, load.key, k) - 1)
  PROVE  BufferGets(s, load, sent, k, o)
<1> DEFINE sl == topo[s].plan[load.key][k]
           a == sl.src + o
           to == load.staging
<1> /\ Suits(s, load.slot, load.key) /\ sent \subseteq DOMAIN topo[s].plan[load.key]
    /\ DOMAIN load.staging = 0..(pool[s].staging - 1)
  BY DEF Fillable
<1>1. /\ sl.len \in Nat /\ sl.staging \in Nat /\ sl.src \in Nat /\ sl.bytes \in Nat
      /\ sl.staging <= sl.src /\ sl.src + sl.bytes <= sl.staging + sl.len
      /\ sl.staging + sl.len <= pool[s].staging /\ pool[s].staging \in Nat
  BY PieceFacts
<1>2. o \in 0..(sl.bytes - 1)
  BY DEF LengthOf
<1>3. a \in DOMAIN to
  <2> HIDE DEF sl
  <2>1. o \in Nat /\ o < sl.bytes
    BY <1>1, <1>2
  <2>2. sl.src + o \in 0..(pool[s].staging - 1)
    BY <1>1, <2>1
  <2> QED
    BY <2>2
<1> DEFINE pieces == {i \in sent : Staged(s, load.slot, load.key, i)}
<1>4. FillStaging(s, load, sent) = ReadInto(to, s, load, pieces)
  BY DEF FillStaging
<1>5. \A i \in pieces : ReadsTo(s, load, i, a) => i = k
  BY OnlyInBuffer
<1>6. k \in pieces => ReadsTo(s, load, k, a) /\ ByteFor(s, load, k, a) = PieceByte(s, load.key, k, o)
  BY BringsPiece
<1>7. k \in Nat
  BY PieceFacts
<1>8. k \in pieces <=> k \in sent /\ Staged(s, load.slot, load.key, k)
  OBVIOUS
<1> HIDE DEF a, to, pieces
<1>9. ReadInto(to, s, load, pieces)[a] = IF k \in pieces /\ ReadsTo(s, load, k, a) THEN ByteFor(s, load, k, a) ELSE to[a]
  BY <1>3, <1>5, <1>7, ReadOne
<1> QED
  BY <1>4, <1>6, <1>8, <1>9 DEF BufferGets, a, to

\* Byte o of piece k is copied from the buffer to the slot, if it is piece i that is
\* copied; else what was there stays.
CopyGets(s, load, i, k, o) ==
  LET area == AreaOf(s, load.slot)
      a    == PlaceOf(s, load.slot, load.key, k) + o
  IN  mem'[s][area][a] = IF k = i THEN load.staging[topo[s].plan[load.key][k].src + o] ELSE mem[s][area][a]

\* A piece is copied out of the staging buffer to where it lies in the slot.
LEMMA CopySlot ==
  ASSUME LoadInv, Fits, MemShape, NEW s \in Up, NEW load, Suits(s, load.slot, load.key),
         NEW i \in DOMAIN topo[s].plan[load.key], mem' = CopyOut(s, load, i),
         NEW k \in DOMAIN topo[s].plan[load.key], NEW o \in 0..(LengthOf(s, load.key, k) - 1)
  PROVE  CopyGets(s, load, i, k, o)
<1> DEFINE area == AreaOf(s, load.slot)
           p == PlaceOf(s, load.slot, load.key, i)
           q == PlaceOf(s, load.slot, load.key, k)
           m == LengthOf(s, load.key, i)
           n == LengthOf(s, load.key, k)
           src == topo[s].plan[load.key][i].src
           a == q + o
           old == mem[s][area]
           g == [b \in DOMAIN old |-> IF p <= b /\ b < p + m THEN load.staging[src + b - p] ELSE old[b]]
<1>1. area \in DOMAIN mem[s] /\ s \in DOMAIN mem /\ a \in DOMAIN old
  BY PieceInMem
<1>2. mem' = [mem EXCEPT ![s][area] = g]
  BY DEF CopyOut, AreaOf, PlaceOf, LengthOf
<1>3. p \in Nat /\ q \in Nat /\ m \in Nat /\ n \in Nat /\ src \in Nat
  BY PieceFacts DEF LengthOf
<1>4. k # i => p + m <= q \/ q + n <= p
  BY PiecesDisjoint
<1>5. g[a] = IF p <= a /\ a < p + m THEN load.staging[src + a - p] ELSE old[a]
  BY <1>1
<1>6. o \in 0..(n - 1) /\ (k = i => p = q /\ m = n)
  OBVIOUS
<1> HIDE DEF g, area, old
<1>7. mem'[s][area] = g
  BY <1>1, <1>2, AreaReplaced
<1>8. CASE k = i
  <2> HIDE DEF p, q, m, n, src
  <2>1. p <= a /\ a < p + m /\ src + a - p = src + o
    BY <1>3, <1>6, <1>8
  <2> QED
    BY <1>5, <1>7, <1>8, <2>1 DEF CopyGets, area, p, q, m, n, src
<1>9. CASE k # i
  <2> HIDE DEF p, q, m, n, src
  <2>1. ~(p <= a /\ a < p + m)
    BY <1>3, <1>4, <1>6, <1>9
  <2> QED
    BY <1>5, <1>7, <1>9, <2>1 DEF CopyGets, area, p, q, m, n, src, old
<1> QED
  BY <1>8, <1>9

-----------------------------------------------------------------------------
\* Reads of a piece of a load are queued (Due); of one that waits nothing is known,
\* as the kernel has it still, or has failed it.
Due(s, j, i)   == \E r \in Queued : r.owner = <<s, j>> /\ r.slice = i
Waits(s, j, i) == \E r \in Queued : r.owner = <<s, j>> /\ r.slice = i /\ (r \in flight \/ r.err)

\* A piece of an expert is in the slot, or in a load's staging buffer.
InSlot(s, slot, key, i) ==
  \A o \in 0..(LengthOf(s, key, i) - 1) :
    mem[s][AreaOf(s, slot)][PlaceOf(s, slot, key, i) + o] = PieceByte(s, key, i, o)
InBuffer(s, load, i) ==
  \A o \in 0..(LengthOf(s, load.key, i) - 1) :
    load.staging[topo[s].plan[load.key][i].src + o] = PieceByte(s, load.key, i, o)

\* What has been read of a piece is where the load will look for it.
PieceHere(s, j, i) ==
  LET load == loads[s][j]
  IN  \/ Waits(s, j, i)
      \/ i \in load.mask /\ Due(s, j, i) /\ InBuffer(s, load, i)
      \/ ~(i \in load.mask /\ Due(s, j, i)) /\ (i \in Lost(s, load.slot, load.key) \/ InSlot(s, load.slot, load.key, i))
Arrived(s, j) ==
  LET load == loads[s][j]
      plan == topo[s].plan[load.key]
  IN  ~load.failed =>
        /\ load.mask = StagingMask(s, load.slot, plan)
        /\ slots[s][load.slot].key = load.key
        /\ DOMAIN load.staging = 0..(pool[s].staging - 1)
        /\ \A i \in DOMAIN plan : PieceHere(s, j, i)
Exact == LoadExact /\ \A s \in running : \A j \in InUse(s) : Arrived(s, j)

\* The bytes of a slot are what they were.
SameBytes(s, x) ==
  \A b \in SlotAddrs(pool[s], x) : mem'[s][AreaOf(s, x)][b] = mem[s][AreaOf(s, x)][b]

\* So is what is read of a piece.
ReadsKept(s, j, i) ==
  \A r \in Queued \cup Queued' :
    r.owner = <<s, j>> /\ r.slice = i => (r \in flight' <=> r \in flight) /\ (r \in Queued' <=> r \in Queued)

\* What is written to one slot is not written to another.
LEMMA Untouched ==
  ASSUME LoadInv, Fits, MemShape, NEW u \in Up, NEW y \in Slots(pool[u]), WritesOnly(u, y),
         NEW s \in Up, NEW x \in Slots(pool[s]), s = u => x # y
  PROVE  SameBytes(s, x)
<1> SUFFICES ASSUME NEW b \in SlotAddrs(pool[s], x)
             PROVE  mem'[s][AreaOf(s, x)][b] = mem[s][AreaOf(s, x)][b]
  BY DEF SameBytes
<1> DEFINE area == AreaOf(s, x)
<1>1. x[1] \in DOMAIN pool[s].regions
  BY DEF Slots
<1>2. s \in DOMAIN mem /\ area \in DOMAIN mem[s]
  BY <1>1 DEF MemShape, AreaOf, LoadInv, SetUp
<1>3. b \in DOMAIN mem[s][area]
  BY <1>1, <1>2 DEF MemShape, AreaAddrs, AreaOf
<1>4. s = u /\ AreaOf(u, y) = area => b \notin SlotAddrs(pool[u], y)
  BY SlotsDisjoint
<1> HIDE DEF area
<1>5. mem'[s][area][b] # mem[s][area][b] => s = u /\ AreaOf(u, y) = area /\ b \in SlotAddrs(pool[u], y)
  BY <1>2, <1>3 DEF WritesOnly, AreaOf
<1> QED
  BY <1>4, <1>5 DEF area

\* A slot whose bytes stay holds the expert it held.
LEMMA HoldsKept ==
  ASSUME Fits, NEW s \in Up, NEW x \in Slots(pool[s]), NEW key, HoldsExpert(s, x, key), SameBytes(s, x),
         UNCHANGED source, topo'[s] = topo[s], pool'[s] = pool[s]
  PROVE  HoldsExpert(s, x, key)'
<1> DEFINE r == pool[s].regions[x[1]]
<1>1. x[1] \in DOMAIN pool[s].regions
  BY DEF Slots
<1>2. ASSUME NEW c \in DOMAIN r.cols, NEW i \in (0..(r.cols[c].stride - 1)) \ LostAt(s, x, key, c)
      PROVE  mem'[s][r.area][ColAddr(pool[s], x, c) + i] = SliceByte(s, Branch(s, key[1], c), key[2], i)
  <2>1. mem[s][r.area][ColAddr(pool[s], x, c) + i] = SliceByte(s, Branch(s, key[1], c), key[2], i)
    BY <1>2 DEF HoldsExpert
  <2> DEFINE a == ColAddr(pool[s], x, c)
             w == r.cols[c].stride
  <2>2. a \in Nat /\ w \in Nat
    BY <1>1 DEF Fits, ColumnsApart
  <2>3. a + i \in a..(a + w - 1)
    <3>1. i \in 0..(w - 1)
      BY <1>2
    <3> HIDE DEF a, w
    <3> QED
      BY <2>2, <3>1
  <2>4. a + i \in SlotAddrs(pool[s], x)
    BY <2>3 DEF SlotAddrs
  <2>5. mem'[s][r.area][a + i] = mem[s][r.area][a + i]
    BY <2>4 DEF SameBytes, AreaOf
  <2> QED
    BY <2>1, <2>5
<1>3. \A c : LostAt(s, x, key, c)' = LostAt(s, x, key, c)
  <2>1. Lost(s, x, key)' = Lost(s, x, key)
    BY SameTargets
  <2> QED
    BY <2>1 DEF LostAt
<1>4. \A c : Branch(s, key[1], c)' = Branch(s, key[1], c)
  <2>1. Tensors(s)' = Tensors(s)
    BY DEF Tensors
  <2> QED
    BY <2>1 DEF Branch
<1>5. \A t, i : SliceByte(s, t, key[2], i)' = SliceByte(s, t, key[2], i)
  BY DEF SliceByte
<1>6. \A c : ColAddr(pool[s], x, c)' = ColAddr(pool[s], x, c)
  BY DEF ColAddr
<1>7. pool'[s].regions[x[1]] = r
  OBVIOUS
<1>8. ASSUME NEW c \in DOMAIN r.cols, NEW i \in (0..(r.cols[c].stride - 1)) \ LostAt(s, x, key, c)'
      PROVE  mem'[s][r.area][ColAddr(pool[s], x, c)' + i] = SliceByte(s, Branch(s, key[1], c), key[2], i)'
  <2>1. mem'[s][r.area][ColAddr(pool[s], x, c) + i] = SliceByte(s, Branch(s, key[1], c), key[2], i)
    BY <1>2, <1>3
  <2> QED
    BY <1>4, <1>5, <1>6, <2>1
<1> HIDE DEF r
<1> QED
  BY <1>7, <1>8 DEF HoldsExpert

\* A piece is still where it was, if neither its reads nor its bytes have changed.
LEMMA PieceKept ==
  ASSUME NEW s \in Up, NEW j, NEW i, NEW slot, NEW key, PieceHere(s, j, i), ReadsKept(s, j, i),
         UNCHANGED source, topo'[s] = topo[s], pool'[s] = pool[s],
         loads[s][j].key = key, loads[s][j].slot = slot,
         loads'[s][j].key = key, loads'[s][j].slot = slot, loads'[s][j].mask = loads[s][j].mask,
         \A o \in 0..(LengthOf(s, key, i) - 1) :
           LET src == topo[s].plan[key][i].src
               a   == PlaceOf(s, slot, key, i) + o
           IN  /\ loads'[s][j].staging[src + o] = loads[s][j].staging[src + o]
               /\ mem'[s][AreaOf(s, slot)][a] = mem[s][AreaOf(s, slot)][a]
  PROVE  PieceHere(s, j, i)'
<1>1. flight \subseteq Queued /\ flight' \subseteq Queued'
  BY DEF Queued
<1>2. Due(s, j, i)' <=> Due(s, j, i)
  BY DEF Due, ReadsKept
<1>3. Waits(s, j, i)' <=> Waits(s, j, i)
  BY <1>1 DEF Waits, ReadsKept
<1>4. /\ \A o : PieceByte(s, key, i, o)' = PieceByte(s, key, i, o)
      /\ PlaceOf(s, slot, key, i)' = PlaceOf(s, slot, key, i) /\ AreaOf(s, slot)' = AreaOf(s, slot)
      /\ LengthOf(s, key, i)' = LengthOf(s, key, i)
  BY SameExpert
<1>5. Lost(s, slot, key)' = Lost(s, slot, key)
  BY SameTargets
<1>6. InBuffer(s, loads[s][j], i) => InBuffer(s, loads[s][j], i)'
  BY <1>4 DEF InBuffer
<1>7. InSlot(s, slot, key, i) => InSlot(s, slot, key, i)'
  BY <1>4 DEF InSlot
<1> QED
  BY <1>2, <1>3, <1>5, <1>6, <1>7 DEF PieceHere

\* A load's slot is for an expert of its group.
LEMMA LoadSuits ==
  ASSUME LoadInv, SlotsTaken, NEW s \in Up, NEW j \in InUse(s)
  PROVE  Suits(s, loads[s][j].slot, loads[s][j].key)
BY DEF LoadInv, LoadsTyped, IsLoad, SlotsTaken, Suits

\* A load is as it was, if it has the same reads and its slot the same bytes.
LEMMA ArrivedKept ==
  ASSUME LoadInv, SlotsTaken, Fits, NEW s \in Up, NEW j \in InUse(s), Arrived(s, j),
         \A i : ReadsKept(s, j, i), UNCHANGED source, topo'[s] = topo[s], pool'[s] = pool[s],
         loads'[s][j] = loads[s][j], SameBytes(s, loads[s][j].slot),
         slots'[s][loads[s][j].slot].key = slots[s][loads[s][j].slot].key
  PROVE  Arrived(s, j)'
<1>1. PICK slot, key : slot = loads[s][j].slot /\ key = loads[s][j].key
  OBVIOUS
<1>2. Suits(s, slot, key)
  BY <1>1, LoadSuits
<1> SUFFICES ASSUME ~loads[s][j].failed
             PROVE  /\ loads[s][j].mask = StagingMask(s, slot, topo[s].plan[key])'
                    /\ slots'[s][slot].key = key
                    /\ DOMAIN loads[s][j].staging = 0..(pool[s].staging - 1)
                    /\ \A i \in DOMAIN topo[s].plan[key] : PieceHere(s, j, i)'
  BY <1>1 DEF Arrived
<1>3. /\ loads[s][j].mask = StagingMask(s, slot, topo[s].plan[key])
      /\ slots[s][slot].key = key
      /\ DOMAIN loads[s][j].staging = 0..(pool[s].staging - 1)
      /\ \A i \in DOMAIN topo[s].plan[key] : PieceHere(s, j, i)
  BY <1>1 DEF Arrived
<1>4. StagingMask(s, slot, topo[s].plan[key])' = StagingMask(s, slot, topo[s].plan[key])
  BY SameTargets
<1>5. ASSUME NEW i \in DOMAIN topo[s].plan[key] PROVE PieceHere(s, j, i)'
  <2>1. ASSUME NEW o \in 0..(LengthOf(s, key, i) - 1)
        PROVE  LET a == PlaceOf(s, slot, key, i) + o
               IN  mem'[s][AreaOf(s, slot)][a] = mem[s][AreaOf(s, slot)][a]
    BY <1>1, <1>2, PieceInSlot DEF SameBytes
  <2>2. PieceHere(s, j, i) /\ ReadsKept(s, j, i)
    BY <1>3
  <2>3. /\ loads[s][j].key = key /\ loads[s][j].slot = slot
        /\ loads'[s][j].key = key /\ loads'[s][j].slot = slot /\ loads'[s][j].mask = loads[s][j].mask
        /\ loads'[s][j].staging = loads[s][j].staging
    BY <1>1
  <2>4. \A o \in 0..(LengthOf(s, key, i) - 1) :
          LET src == topo[s].plan[key][i].src
              a   == PlaceOf(s, slot, key, i) + o
          IN  /\ loads'[s][j].staging[src + o] = loads[s][j].staging[src + o]
              /\ mem'[s][AreaOf(s, slot)][a] = mem[s][AreaOf(s, slot)][a]
    BY <2>1, <2>3
  <2> QED
    BY <2>2, <2>3, <2>4, PieceKept
<1> QED
  BY <1>1, <1>3, <1>4, <1>5

\* A step that moves no byte, no read and no load.
LEMMA ExactQuiet ==
  ASSUME LoadInv, SlotsTaken, Fits, Exact, running' \subseteq running,
         UNCHANGED <<source, topo, pool, slots, mem, loads, flight>>, Queued' = Queued
  PROVE  Exact'
<1>1. Up' = Up /\ running \subseteq Up /\ \A u : InUse(u)' = InUse(u)
  BY DEF Up, InUse, LoadInv, SetUp
<1>2. \A s, x : SameBytes(s, x)
  BY DEF SameBytes
<1>3. ASSUME NEW s \in Up, NEW x \in DOMAIN slots[s], slots[s][x].state = "READY"
      PROVE  HoldsExpert(s, x, slots[s][x].key)'
  <2>1. PICK key : key = slots[s][x].key
    OBVIOUS
  <2>2. x \in Slots(pool[s]) /\ HoldsExpert(s, x, key)
    BY <1>3, <2>1 DEF LoadInv, LoadsTyped, Exact, LoadExact
  <2>3. HoldsExpert(s, x, key)'
    BY <1>2, <2>2, HoldsKept
  <2> QED
    BY <2>1, <2>3
<1>4. ASSUME NEW s \in running', NEW j \in InUse(s) PROVE Arrived(s, j)'
  <2>1. s \in Up /\ Arrived(s, j)
    BY <1>1 DEF Exact
  <2>2. \A i : ReadsKept(s, j, i)
    BY DEF ReadsKept
  <2> QED
    BY <1>2, <2>1, <2>2, ArrivedKept
<1> QED
  BY <1>1, <1>3, <1>4 DEF Exact, LoadExact


\* A slot keeps its expert, if its bytes and its key stay.
LEMMA ReadyKept ==
  ASSUME LoadInv, Fits, LoadExact, NEW s \in Up, NEW x \in DOMAIN slots[s], slots[s][x].state = "READY",
         slots'[s][x].key = slots[s][x].key, SameBytes(s, x),
         UNCHANGED source, topo'[s] = topo[s], pool'[s] = pool[s]
  PROVE  HoldsExpert(s, x, slots[s][x].key)'
<1>1. PICK key : key = slots[s][x].key
  OBVIOUS
<1>2. x \in Slots(pool[s]) /\ HoldsExpert(s, x, key)
  BY <1>1 DEF LoadInv, LoadsTyped, LoadExact
<1>3. HoldsExpert(s, x, key)'
  BY <1>2, HoldsKept
<1> QED
  BY <1>1, <1>3

\* A scheduler that is set up has neither a slot that is READY nor a load.
LEMMA ExactSetup ==
  ASSUME LoadInv, SlotsTaken, MemShape, Fits, Exact, NEW s \in Scheds, NEW main, SetupFrom(s, main)
  PROVE  Exact'
<1>1. PICK t, p : Start(s, t, p)
  BY DEF SetupFrom, Setup
<1> DEFINE fresh == [x \in Slots(p) |-> [state |-> "EMPTY", key |-> None]]
<1>2. /\ topo' = With(topo, s, t) /\ pool' = With(pool, s, p) /\ slots' = [slots EXCEPT ![s] = fresh]
      /\ running' = running \cup {s} /\ UNCHANGED <<source, loads, flight, port>>
  BY <1>1 DEF Start, engineVars
<1>3. s \notin Up /\ DOMAIN pool = Up /\ DOMAIN slots = Scheds /\ InUse(s) = {} /\ running \subseteq Up /\ Up \subseteq Scheds
  BY DEF SetupFrom, LoadInv, SetUp
<1>4. \A x \in DOMAIN fresh : fresh[x].state = "EMPTY"
  OBVIOUS
<1> HIDE DEF fresh
<1>5. /\ Up' = Up \cup {s} /\ slots'[s] = fresh
      /\ \A u \in Up : topo'[u] = topo[u] /\ pool'[u] = pool[u] /\ slots'[u] = slots[u]
  BY <1>2, <1>3 DEF Up, With
<1>6. \A u \in Up : mem'[u] = mem[u]
  BY SetupShape
<1>7. \A u \in Up : \A x : SameBytes(u, x)
  BY <1>6 DEF SameBytes
<1>8. Queued' = Queued
  <2>1. worker'.done = worker.done
    BY <1>1 DEF Start, LoadInv, Owned
  <2> QED
    BY <1>2, <2>1 DEF Queued
<1>9. ASSUME NEW u \in Up', NEW x \in DOMAIN slots'[u], slots'[u][x].state = "READY"
      PROVE  HoldsExpert(u, x, slots[u][x].key)'
  <2>1. u # s
    BY <1>4, <1>5, <1>9
  <2>2. u \in Up /\ slots'[u] = slots[u]
    BY <1>5, <2>1
  <2>3. HoldsExpert(u, x, slots[u][x].key)'
    BY <1>2, <1>5, <1>7, <1>9, <2>2, ReadyKept DEF Exact
  <2> QED
    BY <2>3
<1>10. ASSUME NEW u \in running', NEW j \in InUse(u)' PROVE Arrived(u, j)'
  <2>1. j \in InUse(u) /\ u # s
    BY <1>2, <1>3 DEF InUse
  <2>2. u \in Up /\ Arrived(u, j) /\ slots'[u] = slots[u]
    BY <1>2, <1>3, <1>5, <2>1 DEF Exact
  <2>3. \A i : ReadsKept(u, j, i)
    BY <1>2, <1>8 DEF ReadsKept
  <2>4. loads'[u][j] = loads[u][j]
    BY <1>2
  <2> QED
    BY <1>2, <1>5, <1>7, <2>1, <2>2, <2>3, <2>4, ArrivedKept
<1> QED
  BY <1>9, <1>10 DEF Exact, LoadExact

-----------------------------------------------------------------------------
\* A read that ends is in line, with its result; no other read has changed.
LEMMA KernelReads ==
  ASSUME LoadInv, NEW r \in flight, NEW err \in BOOLEAN, KernelCompletes(r, err)
  PROVE  \E q \in Queued' : /\ SameRead(q, r) /\ (q.err <=> err)
                            /\ \A x \in Queued \cup Queued' :
                                 x # r /\ x # q => (x \in flight' <=> x \in flight) /\ (x \in Queued' <=> x \in Queued)
<1> DEFINE q == [r EXCEPT !.err = err]
<1>1. /\ flight' = flight \ {r} /\ port' = Append(port, q) /\ UNCHANGED worker
  BY DEF KernelCompletes
<1>2. r \in Reads /\ port \in Seq(Reads)
  BY DEF LoadInv, Owned
<1>3. q \in Reads /\ SameRead(q, r) /\ (q.err <=> err)
  BY <1>2 DEF Reads, SameRead
<1> HIDE DEF q
<1>4. ToSet(port') = ToSet(port) \cup {q}
  <2>1. /\ DOMAIN port' = 1..(Len(port) + 1) /\ DOMAIN port = 1..Len(port) /\ Len(port) \in Nat
        /\ \A i \in 1..Len(port) : port'[i] = port[i]
        /\ port'[Len(port) + 1] = q
    BY <1>1, <1>2, <1>3
  <2> QED
    BY <2>1 DEF ToSet
<1>5. q \in Queued'
  BY <1>4 DEF Queued
<1>6. \A x : x # r /\ x # q => (x \in flight' <=> x \in flight) /\ (x \in Queued' <=> x \in Queued)
  BY <1>1, <1>4 DEF Queued
<1> QED
  BY <1>3, <1>5, <1>6

\* It leaves its bytes in the slot and in the staging buffer, unless it fails.
LEMMA KernelBytes ==
  ASSUME LoadInv, NEW s \in Up, NEW i \in InUse(s), NEW r \in flight, r.owner = <<s, i>>, NEW err \in BOOLEAN,
         KernelCompletes(r, err)
  PROVE  /\ \A u \in Up : \A j \in InUse(u) : <<u, j>> # <<s, i>> => loads'[u][j] = loads[u][j]
         /\ IF err THEN mem' = mem /\ loads' = loads
            ELSE /\ mem' = FillMem(s, loads[s][i], {r.slice})
                 /\ loads'[s][i].staging = FillStaging(s, loads[s][i], {r.slice})
<1> DEFINE v == FillStaging(s, loads[s][i], {r.slice})
           x == [loads[s][i] EXCEPT !.staging = v]
           g == [loads[s] EXCEPT ![i] = x]
<1>1. DOMAIN loads = Scheds /\ s \in Scheds /\ i \in DOMAIN loads[s] /\ Up \subseteq Scheds
  BY DEF LoadInv, SetUp, InUse
<1>2. DOMAIN loads[s][i] = LoadFields
  BY DEF LoadInv, LoadsTyped, IsLoad
<1>3. /\ err => mem' = mem /\ loads' = loads
      /\ ~err => mem' = FillMem(s, loads[s][i], {r.slice}) /\ loads' = [loads EXCEPT ![s] = g]
  BY DEF KernelCompletes
<1> HIDE DEF v
<1>4. x.staging = v
  BY <1>2 DEF LoadFields
<1> HIDE DEF x
<1>5. \A j \in DOMAIN loads[s] : g[j] = IF j = i THEN x ELSE loads[s][j]
  OBVIOUS
<1> HIDE DEF g
<1>6. ~err => \A u \in Scheds : loads'[u] = IF u = s THEN g ELSE loads[u]
  BY <1>1, <1>3
<1>7. ~err => loads'[s][i].staging = v
  BY <1>1, <1>4, <1>5, <1>6
<1>8. ASSUME NEW u \in Up, NEW j \in InUse(u), <<u, j>> # <<s, i>> PROVE loads'[u][j] = loads[u][j]
  <2>1. CASE u = s
    BY <1>1, <1>3, <1>5, <1>6, <1>8, <2>1 DEF InUse
  <2>2. CASE u # s
    BY <1>1, <1>3, <1>6, <2>2
  <2> QED
    BY <2>1, <2>2
<1> QED
  BY <1>3, <1>7, <1>8 DEF v

\* Where a piece is read to, by its bit.
LEMMA MaskFacts ==
  ASSUME LoadInv, NEW s \in Up, NEW slot, NEW key, Suits(s, slot, key), NEW i \in DOMAIN topo[s].plan[key]
  PROVE  IF i \in StagingMask(s, slot, topo[s].plan[key]) THEN Staged(s, slot, key, i)
         ELSE i \in Lost(s, slot, key) \/ ~Staged(s, slot, key, i)
<1>1. i \in Nat /\ MaskBits \in Nat
  BY EngineAssumption DEF LoadInv, SetUp, Suits
<1> QED
  BY <1>1 DEF StagingMask, Lost, Staged

\* A step that writes to one slot leaves the others their experts, and the other
\* loads what has arrived of theirs.
LEMMA OthersKept ==
  ASSUME LoadInv, SlotsTaken, Fits, MemShape, Exact, NEW s \in Up, NEW slot \in Slots(pool[s]),
         mem' = mem \/ WritesOnly(s, slot), UNCHANGED <<source, topo, pool>>
  PROVE  /\ \A u \in Up : \A x \in DOMAIN slots[u] :
              /\ slots[u][x].state = "READY" /\ slots'[u][x].key = slots[u][x].key /\ (u = s => x # slot)
              => HoldsExpert(u, x, slots[u][x].key)'
         /\ \A u \in running : \A j \in InUse(u) :
              /\ loads'[u][j] = loads[u][j] /\ (u = s => loads[u][j].slot # slot)
              /\ slots'[u][loads[u][j].slot].key = slots[u][loads[u][j].slot].key
              /\ \A i : ReadsKept(u, j, i)
              => Arrived(u, j)'
<1>1. ASSUME NEW u \in Up, NEW x \in Slots(pool[u]), u = s => x # slot PROVE SameBytes(u, x)
  <2>1. CASE mem' = mem
    BY <2>1 DEF SameBytes
  <2>2. CASE WritesOnly(s, slot)
    BY <1>1, <2>2, Untouched
  <2> QED
    BY <2>1, <2>2
<1>2. ASSUME NEW u \in Up, NEW x \in DOMAIN slots[u], slots[u][x].state = "READY",
             slots'[u][x].key = slots[u][x].key, u = s => x # slot
      PROVE  HoldsExpert(u, x, slots[u][x].key)'
  <2>1. x \in Slots(pool[u])
    BY DEF LoadInv, LoadsTyped
  <2>2. SameBytes(u, x)
    BY <1>1, <1>2, <2>1
  <2> QED
    BY <1>2, <2>2, ReadyKept DEF Exact
<1>3. ASSUME NEW u \in running, NEW j \in InUse(u), loads'[u][j] = loads[u][j], u = s => loads[u][j].slot # slot,
             slots'[u][loads[u][j].slot].key = slots[u][loads[u][j].slot].key, \A i : ReadsKept(u, j, i)
      PROVE  Arrived(u, j)'
  <2>1. u \in Up /\ Arrived(u, j)
    BY DEF LoadInv, SetUp, Exact
  <2>2. loads[u][j].slot \in Slots(pool[u])
    BY <2>1, LoadSuits DEF Suits
  <2>3. SameBytes(u, loads[u][j].slot)
    BY <1>1, <1>3, <2>1, <2>2
  <2> QED
    BY <1>3, <2>1, <2>3, ArrivedKept
<1> QED
  BY <1>2, <1>3

\* What a read brings is where its load will look for it.
LEMMA KernelArrived ==
  ASSUME LoadInv, Placed, Fits, PiecesRight, MemShape, NEW s \in Up, NEW i \in InUse(s), Arrived(s, i),
         NEW r \in flight, r.owner = <<s, i>>, NEW err \in BOOLEAN, KernelCompletes(r, err)
  PROVE  Arrived(s, i)'
<1>1. PICK load : load = loads[s][i]
  OBVIOUS
<1> DEFINE plan == topo[s].plan[load.key]
           p == r.slice
<1>2. Suits(s, load.slot, load.key)
  BY <1>1, LoadSuits DEF Placed
<1>3. /\ UNCHANGED <<source, topo, pool, slots>>
      /\ loads'[s][i].key = load.key /\ loads'[s][i].slot = load.slot
      /\ loads'[s][i].mask = load.mask /\ loads'[s][i].failed = load.failed
  <2>1. UNCHANGED <<topo, pool, slots>> /\ SameLoads
    BY KernelQueue
  <2>2. UNCHANGED source
    BY DEF KernelCompletes, setupVars
  <2> QED
    BY <1>1, <2>1, <2>2 DEF SameLoads
<1> SUFFICES ASSUME ~load.failed
             PROVE  /\ load.mask = StagingMask(s, load.slot, plan)'
                    /\ slots[s][load.slot].key = load.key
                    /\ DOMAIN loads'[s][i].staging = 0..(pool[s].staging - 1)
                    /\ \A k \in DOMAIN plan : PieceHere(s, i, k)'
  BY <1>3 DEF Arrived
<1>4. /\ load.mask = StagingMask(s, load.slot, plan)
      /\ slots[s][load.slot].key = load.key
      /\ DOMAIN load.staging = 0..(pool[s].staging - 1)
      /\ \A k \in DOMAIN plan : PieceHere(s, i, k)
  BY <1>1 DEF Arrived
<1>5. IF err THEN mem' = mem /\ loads' = loads
      ELSE mem' = FillMem(s, load, {p}) /\ loads'[s][i].staging = FillStaging(s, load, {p})
  BY <1>1, KernelBytes
<1>6. PICK q \in Queued' : /\ SameRead(q, r) /\ (q.err <=> err)
                           /\ \A x \in Queued \cup Queued' :
                                x # r /\ x # q => (x \in flight' <=> x \in flight) /\ (x \in Queued' <=> x \in Queued)
  BY KernelReads
<1>7. q.owner = <<s, i>> /\ q.slice = p
  BY <1>6 DEF SameRead
<1>8. p \in DOMAIN plan /\ {p} \subseteq DOMAIN plan
  <2>1. r \in Queued
    BY DEF Queued
  <2> QED
    BY <1>1, <2>1, PieceOf DEF Placed
<1>9. StagingMask(s, load.slot, plan)' = StagingMask(s, load.slot, plan)
  BY <1>3, SameTargets
<1>10. DOMAIN loads'[s][i].staging = DOMAIN load.staging
  BY <1>1, <1>5 DEF FillStaging, ReadInto
<1>11. ASSUME NEW k \in DOMAIN plan, NEW o \in 0..(LengthOf(s, load.key, k) - 1)
       PROVE  LET src == plan[k].src
                  a   == PlaceOf(s, load.slot, load.key, k) + o
              IN  /\ loads'[s][i].staging[src + o]
                       = IF ~err /\ k = p /\ Staged(s, load.slot, load.key, k) THEN PieceByte(s, load.key, k, o)
                         ELSE load.staging[src + o]
                  /\ mem'[s][AreaOf(s, load.slot)][a]
                       = IF ~err /\ k = p /\ ~Staged(s, load.slot, load.key, k) THEN PieceByte(s, load.key, k, o)
                         ELSE mem[s][AreaOf(s, load.slot)][a]
  <2>1. CASE err
    BY <1>1, <1>5, <2>1
  <2>2. CASE ~err
    <3>1. PICK sent : sent = {p}
      OBVIOUS
    <3>2. mem' = FillMem(s, load, sent) /\ loads'[s][i].staging = FillStaging(s, load, sent)
      BY <1>5, <2>2, <3>1
    <3>3. Fillable(s, load, sent) /\ (k \in sent <=> k = p)
      BY <1>2, <1>4, <1>8, <3>1 DEF Fillable
    <3>4. mem'[s][AreaOf(s, load.slot)][PlaceOf(s, load.slot, load.key, k) + o]
            = IF k \in sent /\ ~Staged(s, load.slot, load.key, k) THEN PieceByte(s, load.key, k, o)
              ELSE mem[s][AreaOf(s, load.slot)][PlaceOf(s, load.slot, load.key, k) + o]
      <4>1. SlotGets(s, load, sent, k, o)
        BY <3>2, <3>3, FillSlot
      <4> QED
        BY <4>1 DEF SlotGets
    <3>5. FillStaging(s, load, sent)[topo[s].plan[load.key][k].src + o]
            = IF k \in sent /\ Staged(s, load.slot, load.key, k) THEN PieceByte(s, load.key, k, o)
              ELSE load.staging[topo[s].plan[load.key][k].src + o]
      <4>1. BufferGets(s, load, sent, k, o)
        BY <3>3, FillBuffer
      <4> QED
        BY <4>1 DEF BufferGets
    <3> HIDE DEF p, plan
    <3>6. loads'[s][i].staging[plan[k].src + o]
            = IF k \in sent /\ Staged(s, load.slot, load.key, k) THEN PieceByte(s, load.key, k, o)
              ELSE load.staging[plan[k].src + o]
      BY <3>2, <3>5 DEF plan
    <3> QED
      BY <2>2, <3>3, <3>4, <3>6
  <2> QED
    BY <2>1, <2>2
<1> HIDE DEF p
<1>12. ASSUME NEW k \in DOMAIN plan, k # p PROVE PieceHere(s, i, k)'
  <2>1. ReadsKept(s, i, k)
    BY <1>6, <1>7, <1>12 DEF ReadsKept, p
  <2>2. /\ loads[s][i].key = load.key /\ loads[s][i].slot = load.slot
        /\ loads'[s][i].key = load.key /\ loads'[s][i].slot = load.slot /\ loads'[s][i].mask = loads[s][i].mask
    BY <1>1, <1>3
  <2>3. \A o \in 0..(LengthOf(s, load.key, k) - 1) :
          LET src == topo[s].plan[load.key][k].src
              a   == PlaceOf(s, load.slot, load.key, k) + o
          IN  /\ loads'[s][i].staging[src + o] = loads[s][i].staging[src + o]
              /\ mem'[s][AreaOf(s, load.slot)][a] = mem[s][AreaOf(s, load.slot)][a]
    <3>1. ASSUME NEW o \in 0..(LengthOf(s, load.key, k) - 1)
          PROVE  LET src == topo[s].plan[load.key][k].src
                     a   == PlaceOf(s, load.slot, load.key, k) + o
                 IN  /\ loads'[s][i].staging[src + o] = load.staging[src + o]
                     /\ mem'[s][AreaOf(s, load.slot)][a] = mem[s][AreaOf(s, load.slot)][a]
      BY <1>11, <1>12
    <3> QED
      BY <1>1, <3>1
  <2>4. PieceHere(s, i, k)
    BY <1>4
  <2> QED
    BY <1>3, <2>1, <2>2, <2>3, <2>4, PieceKept
<1>13. PieceHere(s, i, p)'
  <2>1. Due(s, i, p)'
    BY <1>6, <1>7 DEF Due
  <2>2. CASE err
    BY <1>6, <1>7, <2>2 DEF PieceHere, Waits
  <2>3. CASE ~err
    <3>1. /\ LengthOf(s, load.key, p)' = LengthOf(s, load.key, p) /\ AreaOf(s, load.slot)' = AreaOf(s, load.slot)
          /\ PlaceOf(s, load.slot, load.key, p)' = PlaceOf(s, load.slot, load.key, p)
          /\ \A o : PieceByte(s, load.key, p, o)' = PieceByte(s, load.key, p, o)
          /\ Lost(s, load.slot, load.key)' = Lost(s, load.slot, load.key)
      BY <1>3, SameExpert, SameTargets
    <3>2. CASE p \in load.mask
      <4>1. Staged(s, load.slot, load.key, p)
        BY <1>2, <1>4, <1>8, <3>2, MaskFacts
      <4>2. \A o \in 0..(LengthOf(s, load.key, p) - 1) :
              loads'[s][i].staging[topo[s].plan[load.key][p].src + o] = PieceByte(s, load.key, p, o)
        BY <1>8, <1>11, <2>3, <4>1
      <4>3. InBuffer(s, loads[s][i], p)'
        BY <1>3, <3>1, <4>2 DEF InBuffer
      <4> QED
        BY <1>3, <2>1, <3>2, <4>3 DEF PieceHere
    <3>3. CASE p \notin load.mask
      <4>1. p \in Lost(s, load.slot, load.key) \/ ~Staged(s, load.slot, load.key, p)
        BY <1>2, <1>4, <1>8, <3>3, MaskFacts
      <4>2. ASSUME ~Staged(s, load.slot, load.key, p) PROVE InSlot(s, load.slot, load.key, p)'
        <5>1. \A o \in 0..(LengthOf(s, load.key, p) - 1) :
                mem'[s][AreaOf(s, load.slot)][PlaceOf(s, load.slot, load.key, p) + o] = PieceByte(s, load.key, p, o)
          BY <1>8, <1>11, <2>3, <4>2
        <5> QED
          BY <3>1, <5>1 DEF InSlot
      <4> QED
        BY <1>3, <3>1, <3>3, <4>1, <4>2 DEF PieceHere
    <3> QED
      BY <3>2, <3>3
  <2> QED
    BY <2>2, <2>3
<1> QED
  BY <1>4, <1>9, <1>10, <1>12, <1>13

\* So a read that ends keeps Exact.
LEMMA ExactKernel ==
  ASSUME LoadInv, Placed, Fits, PiecesRight, MemShape, Exact,
         NEW r \in flight, NEW err \in BOOLEAN, KernelCompletes(r, err)
  PROVE  Exact'
<1>1. r \in Reads /\ r \in Queued
  BY DEF LoadInv, Owned, Queued
<1>2. PICK s \in Up : \E i \in InUse(s) : r.owner = <<s, i>>
  BY <1>1, OwnerOf
<1> PICK i \in InUse(s) : r.owner = <<s, i>>
  BY <1>2
<1>3. PICK load : load = loads[s][i]
  OBVIOUS
<1>4. UNCHANGED <<source, topo, pool, slots, running>> /\ SameLoads
  BY KernelQueue DEF KernelCompletes, setupVars
<1>5. Suits(s, load.slot, load.key) /\ slots[s][load.slot].state = "INFLIGHT"
  BY <1>3, LoadSuits DEF Placed, SlotsTaken
<1>6. mem' = mem \/ WritesOnly(s, load.slot)
  <2>1. mem' = mem \/ mem' = FillMem(s, load, {r.slice})
    BY <1>3, KernelBytes
  <2>2. {r.slice} \subseteq DOMAIN topo[s].plan[load.key]
    BY <1>1, <1>3, PieceOf DEF Placed
  <2>3. Inside(s, load.slot, load.key) /\ s \in Scheds /\ \A a \in DOMAIN mem[s] : DOMAIN mem[s][a] \subseteq Nat
    BY <1>5, FitsInside, Addresses DEF Suits, LoadInv, SetUp
  <2> QED
    BY <2>1, <2>2, <2>3, FillWrites
<1>7. ASSUME NEW u \in Up, NEW x \in DOMAIN slots[u], slots[u][x].state = "READY"
      PROVE  HoldsExpert(u, x, slots[u][x].key)'
  <2>1. slots'[u][x].key = slots[u][x].key /\ (u = s => x # load.slot)
    BY <1>4, <1>5, <1>7
  <2> QED
    BY <1>4, <1>5, <1>6, <1>7, <2>1, OthersKept DEF Suits, Placed
<1>8. ASSUME NEW u \in running, NEW j \in InUse(u) PROVE Arrived(u, j)'
  <2>1. u \in Up /\ Arrived(u, j)
    BY DEF LoadInv, SetUp, Exact
  <2>2. CASE u = s /\ j = i
    BY <2>1, <2>2, KernelArrived
  <2>3. CASE ~(u = s /\ j = i)
    <3>1. loads'[u][j] = loads[u][j]
      BY <2>1, <2>3, KernelBytes
    <3>2. u = s => loads[u][j].slot # load.slot
      BY <1>3, <2>1, <2>3 DEF Placed, SlotsTaken
    <3>3. PICK q \in Queued' : /\ SameRead(q, r)
                               /\ \A x \in Queued \cup Queued' :
                                    x # r /\ x # q => (x \in flight' <=> x \in flight) /\ (x \in Queued' <=> x \in Queued)
      BY KernelReads
    <3>4. \A k : ReadsKept(u, j, k)
      BY <2>3, <3>3 DEF ReadsKept, SameRead
    <3> QED
      BY <1>4, <1>5, <1>6, <3>1, <3>2, <3>4, OthersKept DEF Suits, Placed
  <2> QED
    BY <2>2, <2>3
<1>9. Up' = Up /\ \A u \in running : InUse(u)' = InUse(u)
  BY <1>4 DEF Up, SameLoads, LoadInv, SetUp
<1> QED
  BY <1>4, <1>7, <1>8, <1>9 DEF Exact, LoadExact

-----------------------------------------------------------------------------
\* What is queued is in flight or in line, after a step too.
LEMMA QueueNext == LoadInv' => (Queued = flight \cup ToSet(Line))'
<1>1. LoadInv => Queued = flight \cup ToSet(Line)
  BY QueueFacts DEF LoadInv
<1> QED
  BY <1>1, PTL

\* The read that is drained leaves the line, and is the only one of its piece.
LEMMA DispatchReads ==
  ASSUME LoadInv, LoadInv', Dispatch
  PROVE  LET r == Head(worker.done)
         IN  /\ flight' = flight /\ r \notin flight
             /\ \A x : x \in Queued' <=> x \in Queued /\ x # r
             /\ \A x \in Queued : SameRead(x, r) => x = r
<1> DEFINE r == Head(worker.done)
<1>1. worker.pc = "dispatch" /\ WorkerMoves /\ UNCHANGED <<flight, port>>
  BY DEF Dispatch, engineVars
<1>2. Line # <<>> /\ Head(Line) = r /\ Line' = Tail(Line)
  BY <1>1, FirstInLine
<1>3. Line \in Seq(Reads) /\ Queued = flight \cup ToSet(Line)
  BY QueueFacts DEF LoadInv
<1>4. (Queued = flight \cup ToSet(Line))'
  BY QueueNext
<1> HIDE DEF r
<1>5. \A x : x \in flight \cup ToSet(Tail(Line)) <=> x \in flight \cup ToSet(Line) /\ x # r
  <2>1. \A x : x \in flight \cup ToSet(Tail(Line)) <=> x \in flight \cup ToSet(Line) /\ x # Head(Line)
    BY <1>2, <1>3, DistinctTail DEF LoadInv, Apart
  <2> QED
    BY <1>2, <2>1
<1>6. /\ 1 \in DOMAIN Line /\ Line[1] = r
      /\ \A x \in ToSet(Line) : \E j \in DOMAIN Line : x = Line[j]
  BY <1>2, <1>3 DEF ToSet
<1>7. \A x \in flight : ~SameRead(x, r)
  BY <1>6 DEF LoadInv, Apart, Distinct
<1>8. ASSUME NEW x \in Queued, SameRead(x, r) PROVE x = r
  <2>1. x \in ToSet(Line)
    BY <1>3, <1>7, <1>8
  <2>2. PICK j \in DOMAIN Line : x = Line[j]
    BY <1>6, <2>1
  <2>3. j = 1
    BY <1>6, <1>8, <2>2 DEF LoadInv, Apart, Distinct
  <2> QED
    BY <1>6, <2>2, <2>3
<1>9. r \notin flight
  BY <1>7 DEF SameRead
<1>10. Queued' = flight \cup ToSet(Tail(Line))
  BY <1>1, <1>2, <1>4
<1> QED
  BY <1>1, <1>3, <1>5, <1>8, <1>9, <1>10 DEF r

\* What is copied, and what is left of the load and of its slot.
LEMMA DrainBytes ==
  ASSUME LoadInv, NEW s \in Up, NEW i \in InUse(s), NEW r \in Reads, r.owner = <<s, i>>, DrainCompletion(r)
  PROVE  LET load == loads[s][i]
         IN  /\ mem' = IF ~r.err /\ ~load.failed /\ r.slice \in load.mask THEN CopyOut(s, load, r.slice) ELSE mem
             /\ load.pending # 1 => loads'[s][i].staging = load.staging
             /\ load.pending = 1 /\ ~r.err /\ ~load.failed =>
                  slots'[s][load.slot].key = slots[s][load.slot].key
<1> DEFINE load == loads[s][i]
           next == [load EXCEPT !.pending = @ - 1, !.failed = @ \/ r.err]
           old  == slots[s][load.slot]
           st   == IF next.failed THEN "FAILED" ELSE "READY"
           done == [old EXCEPT !.state = st, !.key = IF next.failed THEN None ELSE @]
<1>1. /\ DOMAIN loads = Scheds /\ DOMAIN slots = Scheds /\ s \in Scheds /\ i \in DOMAIN loads[s]
      /\ load.slot \in DOMAIN slots[s] /\ DOMAIN load = LoadFields /\ load.pending \in Nat
      /\ DOMAIN old = {"state", "key"}
  BY DEF LoadInv, SetUp, LoadsTyped, IsLoad, InUse
<1>2. next.pending = load.pending - 1 /\ next.failed = (load.failed \/ r.err) /\ next.staging = load.staging
  BY <1>1 DEF LoadFields
<1>3. ~r.err /\ ~load.failed => done.key = old.key
  <2> DEFINE k == IF next.failed THEN None ELSE old.key
             mid == [old EXCEPT !.state = st]
  <2>1. done = [mid EXCEPT !.key = k]
    <3> HIDE DEF next, old, st
    <3> QED
      BY <1>1
  <2>2. DOMAIN mid = {"state", "key"}
    <3> HIDE DEF old, st
    <3> QED
      BY <1>1
  <2>3. ~r.err /\ ~load.failed => k = old.key
    BY <1>2
  <2> HIDE DEF mid, k, st, done
  <2> QED
    BY <2>1, <2>2, <2>3
<1>4. /\ mem' = IF ~r.err /\ ~load.failed /\ r.slice \in load.mask THEN CopyOut(s, load, r.slice) ELSE mem
      /\ loads' = IF next.pending = 0 THEN WithoutEntry(s, i) ELSE [loads EXCEPT ![s][i] = next]
      /\ slots' = IF next.pending = 0 THEN [slots EXCEPT ![s][load.slot] = done] ELSE slots
  BY DEF DrainCompletion
<1> HIDE DEF done, next, old
<1>5. load.pending = 1 => slots'[s][load.slot] = done
  <2> SUFFICES ASSUME load.pending = 1 PROVE slots'[s][load.slot] = done
    OBVIOUS
  <2> DEFINE g == [slots[s] EXCEPT ![load.slot] = done]
  <2>1. slots' = [slots EXCEPT ![s] = g]
    BY <1>1, <1>2, <1>4
  <2>2. g[load.slot] = done
    BY <1>1
  <2> HIDE DEF g
  <2> QED
    BY <1>1, <2>1, <2>2
<1>6. load.pending # 1 => loads'[s][i] = next
  <2> SUFFICES ASSUME load.pending # 1 PROVE loads'[s][i] = next
    OBVIOUS
  <2> DEFINE g == [loads[s] EXCEPT ![i] = next]
  <2>1. loads' = [loads EXCEPT ![s] = g]
    BY <1>1, <1>2, <1>4
  <2>2. g[i] = next
    BY <1>1
  <2> HIDE DEF g
  <2> QED
    BY <1>1, <2>1, <2>2
<1> QED
  BY <1>2, <1>3, <1>4, <1>5, <1>6 DEF old

\* The pieces of an expert that are in a slot make it that expert.
LEMMA PiecesMakeExpert ==
  ASSUME LoadInv, Fits, NEW s \in Up, NEW slot, NEW key, Suits(s, slot, key),
         UNCHANGED source, topo'[s] = topo[s], pool'[s] = pool[s],
         \A k \in DOMAIN topo[s].plan[key] : k \in Lost(s, slot, key) \/ InSlot(s, slot, key, k)'
  PROVE  HoldsExpert(s, slot, key)'
<1> DEFINE r == pool[s].regions[slot[1]]
           plan == topo[s].plan[key]
<1>1. slot \in Slots(pool[s]) /\ slot[1] \in DOMAIN pool[s].regions /\ key \in DOMAIN topo[s].plan
  BY DEF Suits, Slots
<1>2. ASSUME NEW c \in DOMAIN r.cols, NEW i \in (0..(r.cols[c].stride - 1)) \ LostAt(s, slot, key, c)
      PROVE  mem'[s][r.area][ColAddr(pool[s], slot, c) + i] = SliceByte(s, Branch(s, key[1], c), key[2], i)'
  <2>1. Fills(plan, r.cols)
    BY <1>1 DEF Fits, PiecesInside, Suits
  <2>2. PICK k \in DOMAIN plan : plan[k].column = c /\ plan[k].dst <= i /\ i < plan[k].dst + plan[k].bytes
    BY <2>1 DEF Fills
  <2> DEFINE d == plan[k].dst
             n == plan[k].bytes
             a == ColAddr(pool[s], slot, c)
  <2> PICK o : o = i - d
    OBVIOUS
  <2>3. d \in Nat /\ n \in Nat
    BY <1>1 DEF Fits, PiecesApart
  <2>4. a \in Nat /\ r.cols[c].stride \in Nat
    BY <1>1 DEF Fits, ColumnsApart
  <2>5. i \in Nat
    <3>1. i \in 0..(r.cols[c].stride - 1)
      BY <1>2
    <3> QED
      BY <2>4, <3>1
  <2>6. o \in 0..(n - 1) /\ d + o = i /\ a + d + o = a + i /\ i \in d..(d + n - 1)
    <3> HIDE DEF d, n, a
    <3>1. d <= i /\ i < d + n
      BY <2>2 DEF d, n
    <3> QED
      BY <2>3, <2>4, <2>5, <3>1
  <2>7. k \notin Lost(s, slot, key)
    BY <1>2, <2>2, <2>6 DEF LostAt
  <2>8. InSlot(s, slot, key, k)'
    BY <2>7
  <2>9. /\ \A p : PieceByte(s, key, k, p)' = PieceByte(s, key, k, p)
        /\ PlaceOf(s, slot, key, k)' = PlaceOf(s, slot, key, k) /\ AreaOf(s, slot)' = AreaOf(s, slot)
        /\ LengthOf(s, key, k)' = LengthOf(s, key, k)
    BY SameExpert
  <2>10. AreaOf(s, slot) = r.area /\ PlaceOf(s, slot, key, k) = a + d /\ LengthOf(s, key, k) = n
    BY <2>2 DEF AreaOf, PlaceOf, LengthOf
  <2>11. PieceByte(s, key, k, o)' = SliceByte(s, Branch(s, key[1], c), key[2], i)'
    <3>1. topo'[s].plan[key][k].column = c /\ topo'[s].plan[key][k].dst + o = i
      BY <2>2, <2>6
    <3> QED
      BY <3>1 DEF PieceByte
  <2> HIDE DEF a, d, n
  <2>12. mem'[s][r.area][a + d + o] = PieceByte(s, key, k, o)'
    BY <2>6, <2>8, <2>9, <2>10 DEF InSlot
  <2> QED
    BY <2>6, <2>11, <2>12 DEF a
<1>3. \A c : LostAt(s, slot, key, c)' = LostAt(s, slot, key, c)
  <2>1. Lost(s, slot, key)' = Lost(s, slot, key)
    BY SameTargets
  <2> QED
    BY <2>1 DEF LostAt
<1>4. \A c : ColAddr(pool[s], slot, c)' = ColAddr(pool[s], slot, c)
  BY DEF ColAddr
<1> QED
  BY <1>2, <1>3, <1>4 DEF HoldsExpert

\* A piece with a bit is copied to where it lies in the slot, nothing else is.
LEMMA CopyIfStaged ==
  ASSUME LoadInv, Fits, MemShape, NEW s \in Up, NEW load, Suits(s, load.slot, load.key),
         NEW p \in DOMAIN topo[s].plan[load.key], mem' = IF p \in load.mask THEN CopyOut(s, load, p) ELSE mem,
         NEW k \in DOMAIN topo[s].plan[load.key]
  PROVE  \A o \in 0..(LengthOf(s, load.key, k) - 1) :
           LET a == PlaceOf(s, load.slot, load.key, k) + o
           IN  mem'[s][AreaOf(s, load.slot)][a]
                 = IF p \in load.mask /\ k = p THEN load.staging[topo[s].plan[load.key][k].src + o]
                   ELSE mem[s][AreaOf(s, load.slot)][a]
<1>1. CASE p \in load.mask
  <2>1. mem' = CopyOut(s, load, p)
    BY <1>1
  <2>2. \A o \in 0..(LengthOf(s, load.key, k) - 1) : CopyGets(s, load, p, k, o)
    BY <2>1, CopySlot
  <2> QED
    BY <1>1, <2>2 DEF CopyGets
<1>2. CASE p \notin load.mask
  BY <1>2
<1> QED
  BY <1>1, <1>2

\* A piece that is drained is in the slot; the others stay where they are.
LEMMA DrainArrives ==
  ASSUME LoadInv, LoadInv', Placed, Fits, MemShape, Dispatch, NEW r, r = Head(worker.done), DrainCompletion(r),
         NEW s \in Up, NEW i \in InUse(s), r.owner = <<s, i>>, ~r.err,
         ~loads[s][i].failed, Arrived(s, i)
  PROVE  \A load : load = loads[s][i] => \A k \in DOMAIN topo[s].plan[load.key] :
           IF k = r.slice THEN ~Due(s, i, k)' /\ (k \in Lost(s, load.slot, load.key) \/ InSlot(s, load.slot, load.key, k)')
           ELSE \A o \in 0..(LengthOf(s, load.key, k) - 1) :
                  LET a == PlaceOf(s, load.slot, load.key, k) + o
                  IN  mem'[s][AreaOf(s, load.slot)][a] = mem[s][AreaOf(s, load.slot)][a]
<1>0. SUFFICES ASSUME NEW load, load = loads[s][i], NEW k \in DOMAIN topo[s].plan[load.key]
               PROVE  IF k = r.slice THEN ~Due(s, i, k)' /\ (k \in Lost(s, load.slot, load.key) \/ InSlot(s, load.slot, load.key, k)')
                      ELSE \A o \in 0..(LengthOf(s, load.key, k) - 1) :
                             LET a == PlaceOf(s, load.slot, load.key, k) + o
                             IN  mem'[s][AreaOf(s, load.slot)][a] = mem[s][AreaOf(s, load.slot)][a]
  OBVIOUS
<1>1. PICK p : p = r.slice
  OBVIOUS
<1>2. /\ r \in Queued /\ r \in Reads /\ UNCHANGED <<source, topo, pool>>
  BY DispatchQueue DEF Dispatch, setupVars
<1>3. Suits(s, load.slot, load.key)
  BY <1>0, LoadSuits DEF Placed
<1>4. p \in DOMAIN topo[s].plan[load.key]
  BY <1>0, <1>1, <1>2, PieceOf DEF Placed
<1>5. mem' = IF p \in load.mask THEN CopyOut(s, load, p) ELSE mem
  BY <1>0, <1>1, <1>2, DrainBytes
<1>6. \A o \in 0..(LengthOf(s, load.key, k) - 1) :
        LET a == PlaceOf(s, load.slot, load.key, k) + o
        IN  mem'[s][AreaOf(s, load.slot)][a]
              = IF p \in load.mask /\ k = p THEN load.staging[topo[s].plan[load.key][k].src + o]
                ELSE mem[s][AreaOf(s, load.slot)][a]
  BY <1>3, <1>4, <1>5, CopyIfStaged
<1>7. CASE k # p
  BY <1>1, <1>6, <1>7
<1>8. CASE k = p
  <2>1. r \notin flight /\ (\A x : x \in Queued' <=> x \in Queued /\ x # r) /\ \A x \in Queued : SameRead(x, r) => x = r
    BY DispatchReads
  <2>2. ~Due(s, i, k)'
    BY <1>1, <1>8, <2>1 DEF Due, SameRead
  <2>3. ~Waits(s, i, k) /\ Due(s, i, k)
    BY <1>1, <1>2, <1>8, <2>1 DEF Waits, Due, SameRead
  <2>4. PieceHere(s, i, k)
    BY <1>0 DEF Arrived
  <2>5. /\ LengthOf(s, load.key, k)' = LengthOf(s, load.key, k) /\ AreaOf(s, load.slot)' = AreaOf(s, load.slot)
        /\ PlaceOf(s, load.slot, load.key, k)' = PlaceOf(s, load.slot, load.key, k)
        /\ \A o : PieceByte(s, load.key, k, o)' = PieceByte(s, load.key, k, o)
    BY <1>2, SameExpert
  <2>6. CASE p \in load.mask
    <3>1. InBuffer(s, load, k)
      BY <1>0, <1>8, <2>3, <2>4, <2>6 DEF PieceHere
    <3>2. ASSUME NEW o \in 0..(LengthOf(s, load.key, k) - 1)
          PROVE  mem'[s][AreaOf(s, load.slot)][PlaceOf(s, load.slot, load.key, k) + o] = PieceByte(s, load.key, k, o)
      BY <1>6, <1>8, <2>6, <3>1 DEF InBuffer
    <3>3. InSlot(s, load.slot, load.key, k)'
      BY <2>5, <3>2 DEF InSlot
    <3> QED
      BY <1>1, <1>8, <2>2, <3>3
  <2>7. CASE p \notin load.mask
    <3>1. k \in Lost(s, load.slot, load.key) \/ InSlot(s, load.slot, load.key, k)
      BY <1>0, <1>8, <2>3, <2>4, <2>7 DEF PieceHere
    <3>2. InSlot(s, load.slot, load.key, k) => InSlot(s, load.slot, load.key, k)'
      BY <1>6, <2>5, <2>7 DEF InSlot
    <3> QED
      BY <1>1, <1>8, <2>2, <3>1, <3>2
  <2> QED
    BY <2>6, <2>7
<1> QED
  BY <1>7, <1>8

\* A load whose last read is drained leaves its expert in its slot.
LEMMA LastArrives ==
  ASSUME LoadInv, LoadInv', Placed, Fits, MemShape, Dispatch, NEW r, r = Head(worker.done), DrainCompletion(r),
         NEW s \in running, NEW i \in InUse(s), r.owner = <<s, i>>, ~r.err,
         NEW load, load = loads[s][i], ~load.failed, load.pending = 1, Arrived(s, i)
  PROVE  HoldsExpert(s, load.slot, load.key)' /\ slots'[s][load.slot].key = load.key
<1>1. s \in Up /\ r \in Queued /\ r \in Reads /\ UNCHANGED <<source, topo, pool>>
  BY DispatchQueue DEF Dispatch, setupVars, LoadInv, SetUp
<1>2. Suits(s, load.slot, load.key)
  BY <1>1, LoadSuits DEF Placed
<1>3. ASSUME NEW x \in Queued, x.owner = <<s, i>> PROVE x = r
  <2>1. Cardinality(OwnedBy(s, i)) = 1 /\ IsFiniteSet(OwnedBy(s, i))
    BY QueueFacts DEF LoadInv, Counted
  <2>2. x \in OwnedBy(s, i) /\ r \in OwnedBy(s, i)
    BY <1>1, <1>3 DEF OwnedBy
  <2>3. PICK y : OwnedBy(s, i) = {y}
    BY <2>1, FS_Singleton
  <2> QED
    BY <2>2, <2>3
<1>4. ASSUME NEW k \in DOMAIN topo[s].plan[load.key]
      PROVE  k \in Lost(s, load.slot, load.key) \/ InSlot(s, load.slot, load.key, k)'
  <2>1. CASE k = r.slice
    BY <1>1, <2>1, DrainArrives
  <2>2. CASE k # r.slice
    <3>1. ~Due(s, i, k) /\ ~Waits(s, i, k)
      BY <1>3, <2>2 DEF Due, Waits
    <3>2. PieceHere(s, i, k)
      BY DEF Arrived
    <3>3. k \in Lost(s, load.slot, load.key) \/ InSlot(s, load.slot, load.key, k)
      BY <3>1, <3>2 DEF PieceHere
    <3>4. \A o \in 0..(LengthOf(s, load.key, k) - 1) :
            LET a == PlaceOf(s, load.slot, load.key, k) + o
            IN  mem'[s][AreaOf(s, load.slot)][a] = mem[s][AreaOf(s, load.slot)][a]
      BY <1>1, <2>2, DrainArrives
    <3>5. /\ LengthOf(s, load.key, k)' = LengthOf(s, load.key, k) /\ AreaOf(s, load.slot)' = AreaOf(s, load.slot)
          /\ PlaceOf(s, load.slot, load.key, k)' = PlaceOf(s, load.slot, load.key, k)
          /\ \A o : PieceByte(s, load.key, k, o)' = PieceByte(s, load.key, k, o)
      BY <1>1, SameExpert
    <3>6. ASSUME InSlot(s, load.slot, load.key, k) PROVE InSlot(s, load.slot, load.key, k)'
      <4>1. \A o \in 0..(LengthOf(s, load.key, k) - 1) :
              mem'[s][AreaOf(s, load.slot)][PlaceOf(s, load.slot, load.key, k) + o] = PieceByte(s, load.key, k, o)
        BY <3>4, <3>6 DEF InSlot
      <4> QED
        BY <3>5, <4>1 DEF InSlot
    <3> QED
      BY <3>3, <3>6
  <2> QED
    BY <2>1, <2>2
<1>5. slots'[s][load.slot].key = slots[s][load.slot].key
  BY <1>1, DrainBytes
<1>6. slots[s][load.slot].key = load.key
  BY DEF Arrived
<1>7. HoldsExpert(s, load.slot, load.key)'
  BY <1>1, <1>2, <1>4, PiecesMakeExpert
<1> QED
  BY <1>5, <1>6, <1>7

\* A load that waits for more keeps what has arrived.
LEMMA MoreArrives ==
  ASSUME LoadInv, LoadInv', Placed, Fits, MemShape, Dispatch, NEW r, r = Head(worker.done), DrainCompletion(r),
         NEW s \in Up, NEW i \in InUse(s), r.owner = <<s, i>>,
         loads[s][i].pending # 1, Arrived(s, i)
  PROVE  Arrived(s, i)'
<1>0. PICK load : load = loads[s][i]
  OBVIOUS
<1> DEFINE plan == topo[s].plan[load.key]
<1>1. r \in Queued /\ r \in Reads /\ UNCHANGED <<source, topo, pool>>
  BY DispatchQueue DEF Dispatch, setupVars
<1>2. Drained(s, i)
  BY <1>1, DrainFacts
<1>3. /\ loads'[s][i].key = load.key /\ loads'[s][i].slot = load.slot
      /\ loads'[s][i].mask = load.mask /\ loads'[s][i].staging = load.staging
  BY <1>0, <1>1, <1>2, DrainBytes DEF Drained
<1>4. slots' = slots /\ loads'[s][i].failed = (load.failed \/ r.err)
  BY <1>0, <1>1, DrainSettles
<1> SUFFICES ASSUME ~load.failed, ~r.err
             PROVE  /\ load.mask = StagingMask(s, load.slot, plan)'
                    /\ slots[s][load.slot].key = load.key
                    /\ DOMAIN load.staging = 0..(pool[s].staging - 1)
                    /\ \A k \in DOMAIN plan : PieceHere(s, i, k)'
  BY <1>1, <1>3, <1>4 DEF Arrived
<1>5. /\ load.mask = StagingMask(s, load.slot, plan)
      /\ slots[s][load.slot].key = load.key
      /\ DOMAIN load.staging = 0..(pool[s].staging - 1)
      /\ \A k \in DOMAIN plan : PieceHere(s, i, k)
  BY <1>0 DEF Arrived
<1>6. StagingMask(s, load.slot, plan)' = StagingMask(s, load.slot, plan)
  BY <1>1, SameTargets
<1>7. ASSUME NEW k \in DOMAIN plan PROVE PieceHere(s, i, k)'
  <2>1. CASE k = r.slice
    <3>1. ~Due(s, i, k)' /\ (k \in Lost(s, load.slot, load.key) \/ InSlot(s, load.slot, load.key, k)')
      BY <1>0, <2>1, DrainArrives
    <3>2. Lost(s, load.slot, load.key)' = Lost(s, load.slot, load.key)
      BY <1>1, SameTargets
    <3> QED
      BY <1>3, <3>1, <3>2 DEF PieceHere
  <2>2. CASE k # r.slice
    <3>1. \A o \in 0..(LengthOf(s, load.key, k) - 1) :
            LET src == topo[s].plan[load.key][k].src
                a   == PlaceOf(s, load.slot, load.key, k) + o
            IN  /\ loads'[s][i].staging[src + o] = loads[s][i].staging[src + o]
                /\ mem'[s][AreaOf(s, load.slot)][a] = mem[s][AreaOf(s, load.slot)][a]
      <4>1. \A o \in 0..(LengthOf(s, load.key, k) - 1) :
              LET a == PlaceOf(s, load.slot, load.key, k) + o
              IN  mem'[s][AreaOf(s, load.slot)][a] = mem[s][AreaOf(s, load.slot)][a]
        BY <1>0, <2>2, DrainArrives
      <4> QED
        BY <1>0, <1>3, <4>1
    <3>2. ReadsKept(s, i, k)
      <4>1. flight' = flight /\ \A x : x \in Queued' <=> x \in Queued /\ x # r
        BY DispatchReads
      <4> QED
        BY <2>2, <4>1 DEF ReadsKept
    <3>3. /\ loads[s][i].key = load.key /\ loads[s][i].slot = load.slot
          /\ loads'[s][i].key = load.key /\ loads'[s][i].slot = load.slot /\ loads'[s][i].mask = loads[s][i].mask
      BY <1>0, <1>3
    <3>4. PieceHere(s, i, k)
      BY <1>5
    <3>5. UNCHANGED source /\ topo'[s] = topo[s] /\ pool'[s] = pool[s]
      BY <1>1
    <3> HIDE DEF plan
    <3> QED
      BY <3>1, <3>2, <3>3, <3>4, <3>5, PieceKept
  <2> QED
    BY <2>1, <2>2
<1> QED
  BY <1>5, <1>6, <1>7

\* So the worker keeps Exact, whatever it drains.
LEMMA ExactDispatch ==
  ASSUME LoadInv, LoadInv', Placed, Fits, MemShape, Exact, Dispatch
  PROVE  Exact'
<1>1. PICK r : r = Head(worker.done)
  OBVIOUS
<1>2. /\ r \in Queued /\ r \in Reads /\ UNCHANGED <<source, topo, pool, running>>
      /\ IF r.owner[1] \in running THEN DrainCompletion(r) ELSE UNCHANGED <<mem, loads, slots>>
  BY <1>1, DispatchQueue DEF Dispatch, setupVars
<1>3. PICK s \in Up : \E i \in InUse(s) : r.owner = <<s, i>>
  BY <1>2, OwnerOf
<1> PICK i \in InUse(s) : r.owner = <<s, i>>
  BY <1>3
<1>4. PICK load : load = loads[s][i]
  OBVIOUS
<1>5. Suits(s, load.slot, load.key) /\ slots[s][load.slot].state = "INFLIGHT"
  BY <1>4, LoadSuits DEF Placed, SlotsTaken
<1>6. Up' = Up /\ Up \subseteq Scheds /\ running \subseteq Up
  BY <1>2 DEF Up, LoadInv, SetUp
<1>7. ASSUME NEW u, NEW j, <<u, j>> # <<s, i>> PROVE \A k : ReadsKept(u, j, k)
  <2>1. flight' = flight /\ \A x : x \in Queued' <=> x \in Queued /\ x # r
    BY <1>1, DispatchReads
  <2> QED
    BY <1>7, <2>1 DEF ReadsKept
<1>8. load.slot \in Slots(pool[s]) /\ UNCHANGED <<source, topo, pool>> /\ SlotsTaken
  BY <1>2, <1>5 DEF Suits, Placed
<1>9. CASE s \notin running
  <2>1. UNCHANGED <<mem, loads, slots>>
    BY <1>2, <1>9
  <2>2. ASSUME NEW u \in Up, NEW x \in DOMAIN slots[u], slots[u][x].state = "READY"
        PROVE  HoldsExpert(u, x, slots[u][x].key)'
    <3>1. slots'[u][x].key = slots[u][x].key /\ (u = s => x # load.slot)
      BY <1>5, <2>1, <2>2
    <3> QED
      BY <1>8, <2>1, <2>2, <3>1, OthersKept
  <2>3. ASSUME NEW u \in running, NEW j \in InUse(u) PROVE Arrived(u, j)'
    <3>1. u # s /\ loads'[u][j] = loads[u][j] /\ slots'[u][loads[u][j].slot].key = slots[u][loads[u][j].slot].key
      BY <1>9, <2>1
    <3>2. \A k : ReadsKept(u, j, k)
      BY <1>7, <3>1
    <3> QED
      BY <1>8, <2>1, <3>1, <3>2, OthersKept
  <2>4. \A u : InUse(u)' = InUse(u)
    BY <2>1 DEF InUse
  <2> QED
    BY <1>2, <1>6, <2>1, <2>2, <2>3, <2>4 DEF Exact, LoadExact
<1>10. CASE s \in running
  <2>1. DrainCompletion(r)
    BY <1>2, <1>10
  <2>2. mem' = mem \/ WritesOnly(s, load.slot)
    <3>1. mem' = mem \/ mem' = CopyOut(s, load, r.slice)
      BY <1>2, <1>4, <2>1, DrainBytes
    <3>2. r.slice \in DOMAIN topo[s].plan[load.key]
      BY <1>2, <1>4, PieceOf DEF Placed
    <3>3. Inside(s, load.slot, load.key) /\ s \in Scheds /\ \A a \in DOMAIN mem[s] : DOMAIN mem[s][a] \subseteq Nat
      BY <1>5, <1>6, FitsInside, Addresses DEF Suits
    <3> QED
      BY <3>1, <3>2, <3>3, CopyWrites
  <2>3. IF load.pending = 1
        THEN /\ slots'[s][load.slot].state = IF load.failed \/ r.err THEN "FAILED" ELSE "READY"
             /\ DOMAIN slots'[s] = DOMAIN slots[s]
             /\ \A x \in DOMAIN slots[s] \ {load.slot} : slots'[s][x] = slots[s][x]
        ELSE slots' = slots
    BY <1>2, <1>4, <2>1, DrainSettles
  <2>4. /\ \A u \in Up \ {s} : loads'[u] = loads[u] /\ slots'[u] = slots[u] /\ InUse(u)' = InUse(u)
        /\ \A j \in InUse(s) \ {i} : loads'[s][j] = loads[s][j]
        /\ InUse(s)' = IF load.pending = 1 THEN InUse(s) \ {i} ELSE InUse(s)
    <3>1. Drained(s, i)
      BY <1>2, <2>1, DrainFacts
    <3>2. /\ \A u \in Up \ {s} : loads'[u] = loads[u] /\ slots'[u] = slots[u]
          /\ \A j \in InUse(s) \ {i} : loads'[s][j] = loads[s][j]
          /\ InUse(s)' = IF load.pending = 1 THEN InUse(s) \ {i} ELSE InUse(s)
      BY <1>4, <1>6, <3>1 DEF Drained
    <3> QED
      BY <3>2 DEF InUse
  <2>5. ASSUME NEW u \in Up, NEW x \in DOMAIN slots[u], u = s => x # load.slot
        PROVE  slots'[u][x] = slots[u][x]
    BY <2>3, <2>4, <2>5
  <2>6. ASSUME NEW u \in Up, NEW x \in DOMAIN slots'[u], slots'[u][x].state = "READY"
        PROVE  HoldsExpert(u, x, slots[u][x].key)'
    <3>1. CASE u = s /\ x = load.slot
      <4>1. load.pending = 1 /\ ~load.failed /\ ~r.err
        BY <1>5, <2>3, <2>6, <3>1
      <4>2. HoldsExpert(s, load.slot, load.key)' /\ slots'[s][load.slot].key = load.key
        <5>1. Arrived(s, i)
          BY <1>10 DEF Exact
        <5> QED
          BY <1>1, <1>4, <1>10, <2>1, <4>1, <5>1, LastArrives
      <4> QED
        BY <3>1, <4>2
    <3>2. CASE ~(u = s /\ x = load.slot)
      <4>1. x \in DOMAIN slots[u]
        BY <2>3, <2>4
      <4>2. slots'[u][x] = slots[u][x]
        BY <2>5, <3>2, <4>1
      <4>3. slots[u][x].state = "READY" /\ slots'[u][x].key = slots[u][x].key
        BY <2>6, <4>2
      <4>4. HoldsExpert(u, x, slots[u][x].key)'
        BY <1>8, <2>2, <3>2, <4>1, <4>3, OthersKept
      <4> QED
        BY <4>4
    <3> QED
      BY <3>1, <3>2
  <2>7. ASSUME NEW u \in running, NEW j \in InUse(u)' PROVE Arrived(u, j)'
    <3>1. u \in Up /\ j \in InUse(u)
      BY <1>6, <2>4
    <3>2. Arrived(u, j)
      BY <3>1 DEF Exact
    <3>3. CASE u = s /\ j = i
      <4>1. load.pending # 1
        BY <2>4, <3>3
      <4> QED
        BY <1>1, <1>4, <2>1, <3>2, <3>3, <4>1, MoreArrives
    <3>4. CASE ~(u = s /\ j = i)
      <4>1. loads'[u][j] = loads[u][j]
        BY <2>4, <3>1, <3>4
      <4>2. u = s => loads[u][j].slot # load.slot
        BY <1>4, <1>8, <3>1, <3>4 DEF SlotsTaken
      <4>3. loads[u][j].slot \in DOMAIN slots[u]
        BY <3>1 DEF LoadInv, LoadsTyped, IsLoad
      <4>4. slots'[u][loads[u][j].slot].key = slots[u][loads[u][j].slot].key
        BY <2>5, <3>1, <4>2, <4>3
      <4>5. \A k : ReadsKept(u, j, k)
        BY <1>7, <3>4
      <4> QED
        BY <1>8, <2>2, <3>1, <4>1, <4>2, <4>4, <4>5, OthersKept
    <3> QED
      BY <3>3, <3>4
  <2> QED
    BY <1>2, <1>6, <2>6, <2>7 DEF Exact, LoadExact
<1> QED
  BY <1>9, <1>10

-----------------------------------------------------------------------------
\* What start_async_load leaves in more detail, if it submits the reads `sent`: what
\* the engine has read already, or the reads that it will do.
Begun(s, slot, key, sent, idx, load, x, c, failed) ==
  /\ c = Cardinality(sent) /\ failed = (sent # DOMAIN topo[s].plan[key])
  /\ slots' = [slots EXCEPT ![s][slot] = [state |-> "INFLIGHT", key |-> key]]
  /\ load.key = key /\ load.slot = slot /\ DOMAIN load.staging = 0..(pool[s].staging - 1)
  /\ Started(s, idx, slot, key, c, failed)
  /\ loads' = [loads EXCEPT ![s] = With(loads[s], idx, x)]
  /\ x.mask = StagingMask(s, slot, topo[s].plan[key])
  /\ \/ mem' = FillMem(s, load, sent) /\ x.staging = FillStaging(s, load, sent)
     \/ /\ mem' = mem /\ x.staging = load.staging
        /\ ToSet([i \in 1..c |-> Request(<<s, idx>>, i, FALSE)]) \subseteq flight'

\* A load that submits a read takes an entry of the pool, and begins like this.
LEMMA LoadBegins ==
  ASSUME LoadInv, NEW s \in running, NEW slot, NEW key \in DOMAIN topo[s].plan, NEW refused,
         StartAsyncLoad(s, slot, key, refused), NEW sent, sent = Submitted(s, slot, topo[s].plan[key], refused),
         sent # {}
  PROVE  \E idx, load, x, c, failed : Begun(s, slot, key, sent, idx, load, x, c, failed)
<1> DEFINE plan == topo[s].plan[key]
           idx  == CHOOSE i \in FreeEntries(s) : TRUE
           new  == [key |-> key, slot |-> slot, pending |-> Cardinality(sent),
                    failed |-> sent # DOMAIN plan, mask |-> StagingMask(s, slot, plan),
                    staging |-> [a \in 0..(pool[s].staging - 1) |-> Hole]]
           reqs == [i \in 1..Cardinality(sent) |-> Request(<<s, idx>>, i, FALSE)]
<1>1. StagingMask(s, slot, plan) \subseteq DOMAIN plan
  BY DEF StagingMask
<1>2. /\ FreeEntries(s) # {}
      /\ slots' = [slots EXCEPT ![s][slot] = [state |-> "INFLIGHT", key |-> key]]
      /\ IF os = "posix"
         THEN /\ mem' = FillMem(s, new, sent)
              /\ loads' = [loads EXCEPT ![s] = With(@, idx, [new EXCEPT !.staging = FillStaging(s, new, sent)])]
              /\ port' = port \o reqs
              /\ UNCHANGED flight
         ELSE /\ loads' = [loads EXCEPT ![s] = With(@, idx, new)]
              /\ flight' = flight \cup ToSet(reqs)
              /\ UNCHANGED <<mem, port>>
  BY DEF StartAsyncLoad
<1>3. idx \notin InUse(s)
  BY <1>2 DEF FreeEntries
<1>4. ASSUME NEW v
      PROVE  LET x == [new EXCEPT !.staging = v]
             IN  /\ DOMAIN x = LoadFields /\ x.key = key /\ x.slot = slot
                 /\ x.failed = (sent # DOMAIN plan)
                 /\ x.mask = StagingMask(s, slot, plan) /\ x.pending = Cardinality(sent) /\ x.staging = v
  BY DEF LoadFields
<1>5. /\ new = [new EXCEPT !.staging = new.staging]
      /\ new.key = key /\ new.slot = slot /\ DOMAIN new.staging = 0..(pool[s].staging - 1)
  OBVIOUS
<1> HIDE DEF idx, new, plan
<1>6. PICK x : /\ DOMAIN x = LoadFields /\ x.key = key /\ x.slot = slot /\ x.failed = (sent # DOMAIN plan)
               /\ x.mask = StagingMask(s, slot, plan) /\ x.pending = Cardinality(sent)
               /\ loads' = [loads EXCEPT ![s] = With(loads[s], idx, x)]
               /\ \/ mem' = FillMem(s, new, sent) /\ x.staging = FillStaging(s, new, sent)
                     /\ port' = port \o reqs /\ flight' = flight
                  \/ mem' = mem /\ x.staging = new.staging /\ flight' = flight \cup ToSet(reqs) /\ port' = port
  <2>1. CASE os = "posix"
    <3> DEFINE v == FillStaging(s, new, sent)
    <3>1. /\ mem' = FillMem(s, new, sent) /\ port' = port \o reqs /\ flight' = flight
          /\ loads' = [loads EXCEPT ![s] = With(loads[s], idx, [new EXCEPT !.staging = v])]
      BY <1>2, <2>1
    <3> HIDE DEF v
    <3> QED
      BY <1>4, <3>1 DEF v
  <2>2. CASE os # "posix"
    <3>1. /\ mem' = mem /\ flight' = flight \cup ToSet(reqs) /\ port' = port
          /\ loads' = [loads EXCEPT ![s] = With(loads[s], idx, [new EXCEPT !.staging = new.staging])]
      BY <1>2, <1>5, <2>2
    <3> QED
      BY <1>4, <3>1
  <2> QED
    BY <2>1, <2>2
<1>7. Started(s, idx, slot, key, Cardinality(sent), sent # DOMAIN plan)
  BY <1>1, <1>3, <1>6 DEF Started, plan
<1>8. PICK c, failed : c = Cardinality(sent) /\ failed = (sent # DOMAIN plan)
  OBVIOUS
<1>9. Started(s, idx, slot, key, c, failed)
  BY <1>7, <1>8
<1>10. Begun(s, slot, key, sent, idx, new, x, c, failed)
  BY <1>2, <1>5, <1>6, <1>8, <1>9 DEF Begun, plan
<1> QED
  BY <1>10

\* What is read at once is where the load will look for it; the rest waits.
LEMMA BegunArrived ==
  ASSUME LoadInv, Fits, PiecesRight, MemShape, NEW s \in running, NEW slot \in DOMAIN slots[s],
         NEW key \in DOMAIN topo[s].plan, pool[s].regions[slot[1]].group = GroupOf(topo[s], key[1]),
         NEW sent, sent \subseteq DOMAIN topo[s].plan[key], NEW idx, NEW load, NEW x, NEW c, NEW failed,
         Begun(s, slot, key, sent, idx, load, x, c, failed), UNCHANGED <<source, topo, pool, worker>>
  PROVE  c \in Nat /\ Arrived(s, idx)'
<1>1. s \in Up /\ Suits(s, slot, key)
  BY DEF LoadInv, SetUp, LoadsTyped, Suits
<1>2. Suits(s, load.slot, load.key) /\ load.key = key /\ load.slot = slot
  BY <1>1 DEF Begun
<1>3. /\ slots' = [slots EXCEPT ![s][slot] = [state |-> "INFLIGHT", key |-> key]]
      /\ Started(s, idx, slot, key, c, failed)
      /\ loads' = [loads EXCEPT ![s] = With(loads[s], idx, x)]
  BY DEF Begun
<1>4. DOMAIN load.staging = 0..(pool[s].staging - 1) /\ x.mask = StagingMask(s, slot, topo[s].plan[key])
  BY DEF Begun
<1>5. c \in Nat /\ (~failed => sent = DOMAIN topo[s].plan[key] /\ sent = 1..c)
  <2>1. c = Cardinality(sent) /\ failed = (sent # DOMAIN topo[s].plan[key])
    BY DEF Begun
  <2>2. PICK n \in Nat : DOMAIN topo[s].plan[key] = 1..n
    BY <1>1 DEF LoadInv, SetUp
  <2>3. IsFiniteSet(1..n) /\ Cardinality(1..n) = n
    <3>1. \A m \in Nat : IsFiniteSet(1..m) /\ Cardinality(1..m) = m
      BY FS_Interval
    <3> QED
      BY <3>1
  <2>4. IsFiniteSet(sent)
    BY <2>2, <2>3, FS_Subset
  <2>5. Cardinality(sent) \in Nat
    BY <2>4, FS_CardinalityType
  <2> QED
    BY <2>1, <2>2, <2>3, <2>5
<1>6. worker' = worker
  OBVIOUS
<1>7. loads'[s][idx].slot = slot /\ loads'[s][idx].key = key /\ loads'[s][idx].failed = failed
  <2>1. /\ \A u \in Up \ {s} : loads'[u] = loads[u] /\ InUse(u)' = InUse(u)
        /\ idx \notin InUse(s) /\ InUse(s)' = InUse(s) \cup {idx}
        /\ loads'[s][idx].slot = slot /\ loads'[s][idx].key = key /\ loads'[s][idx].failed = failed
        /\ \A j \in InUse(s) : loads'[s][j] = loads[s][j]
        /\ \A q \in Queued' : \/ q \in Queued
                              \/ q.owner = <<s, idx>> /\ q.slice \in 1..c /\ ~q.err
    BY <1>3, <1>5, <1>6, TakenFacts
  <2> QED
    BY <2>1
<1>8. ASSUME mem' = FillMem(s, load, sent),
             NEW k \in DOMAIN topo[s].plan[load.key], NEW o \in 0..(LengthOf(s, load.key, k) - 1)
      PROVE  mem'[s][AreaOf(s, load.slot)][PlaceOf(s, load.slot, load.key, k) + o]
               = IF k \in sent /\ ~Staged(s, load.slot, load.key, k) THEN PieceByte(s, load.key, k, o)
                 ELSE mem[s][AreaOf(s, load.slot)][PlaceOf(s, load.slot, load.key, k) + o]
  <2>1. Fillable(s, load, sent)
    BY <1>2, <1>4 DEF Fillable
  <2>2. SlotGets(s, load, sent, k, o)
    BY <1>1, <1>8, <2>1, FillSlot
  <2> QED
    BY <2>2 DEF SlotGets
<1>9. ASSUME NEW k \in DOMAIN topo[s].plan[load.key], NEW o \in 0..(LengthOf(s, load.key, k) - 1)
      PROVE  FillStaging(s, load, sent)[topo[s].plan[load.key][k].src + o]
               = IF k \in sent /\ Staged(s, load.slot, load.key, k) THEN PieceByte(s, load.key, k, o)
                 ELSE load.staging[topo[s].plan[load.key][k].src + o]
  <2>1. Fillable(s, load, sent)
    BY <1>2, <1>4 DEF Fillable
  <2>2. BufferGets(s, load, sent, k, o)
    BY <1>1, <2>1, FillBuffer
  <2> QED
    BY <2>2 DEF BufferGets
<1>10. loads'[s][idx] = x
  <2> DEFINE g == With(loads[s], idx, x)
  <2>1. g[idx] = x
    BY DEF With
  <2> HIDE DEF g
  <2>2. loads'[s] = g
    BY <1>1, <1>3 DEF LoadInv, SetUp, g
  <2> QED
    BY <2>1, <2>2
<1>11. slots'[s][slot].key = key
  <2>1. /\ \A u \in Up \ {s} : slots'[u] = slots[u]
        /\ DOMAIN slots'[s] = DOMAIN slots[s] /\ slots'[s][slot].state = "INFLIGHT" /\ slots'[s][slot].key = key
        /\ \A y \in DOMAIN slots[s] \ {slot} : slots'[s][y] = slots[s][y]
    BY <1>1, <1>3, TakenSlots
  <2> QED
    BY <2>1
<1> DEFINE reqs == [i \in 1..c |-> Request(<<s, idx>>, i, FALSE)]
<1>12. /\ \A q \in ToSet(reqs) : q \in Queued'
       /\ \A i \in 1..c : Request(<<s, idx>>, i, FALSE) \in ToSet(reqs)
  <2>1. /\ \A q \in ToSet(reqs) : q.owner = <<s, idx>> /\ q.slice \in 1..c /\ ~q.err
        /\ \A q : q \in Queued' <=> q \in Queued \/ q \in ToSet(reqs)
        /\ \A q : /\ q \in flight => q \in flight'
                  /\ q \in flight' => q \in flight \/ q \in ToSet(reqs)
    BY <1>3, <1>5, <1>6, StartedReads
  <2>2. \A i \in 1..c : Request(<<s, idx>>, i, FALSE) \in ToSet(reqs)
    BY DEF ToSet
  <2> QED
    BY <2>1, <2>2
<1>13. \/ mem' = FillMem(s, load, sent) /\ x.staging = FillStaging(s, load, sent)
       \/ mem' = mem /\ x.staging = load.staging /\ ToSet(reqs) \subseteq flight'
  BY DEF Begun
<1>14. \A i : Request(<<s, idx>>, i, FALSE).owner = <<s, idx>> /\ Request(<<s, idx>>, i, FALSE).slice = i
  BY DEF Request
<1> HIDE DEF reqs
<1>15. ASSUME ~failed
       PROVE  /\ x.mask = StagingMask(s, slot, topo[s].plan[key])'
              /\ DOMAIN x.staging = 0..(pool[s].staging - 1)
              /\ \A k \in DOMAIN topo[s].plan[key] : PieceHere(s, idx, k)'
  <2>1. /\ StagingMask(s, slot, topo[s].plan[key])' = StagingMask(s, slot, topo[s].plan[key])
        /\ Lost(s, slot, key)' = Lost(s, slot, key)
    BY SameTargets
  <2>2. DOMAIN x.staging = DOMAIN load.staging
    BY <1>13 DEF FillStaging, ReadInto
  <2>3. ASSUME NEW k \in DOMAIN topo[s].plan[key] PROVE PieceHere(s, idx, k)'
    <3>1. k \in 1..c /\ k \in sent
      BY <1>5, <1>15
    <3>2. PICK q \in ToSet(reqs) : q.owner = <<s, idx>> /\ q.slice = k
      BY <1>12, <1>14, <3>1
    <3>3. q \in Queued' /\ Due(s, idx, k)'
      BY <1>12, <3>2 DEF Due
    <3>4. CASE mem' = FillMem(s, load, sent) /\ x.staging = FillStaging(s, load, sent)
      <4>0. ASSUME NEW o \in 0..(LengthOf(s, key, k) - 1)
            PROVE  /\ mem'[s][AreaOf(s, slot)][PlaceOf(s, slot, key, k) + o]
                        = IF k \in sent /\ ~Staged(s, slot, key, k) THEN PieceByte(s, key, k, o)
                          ELSE mem[s][AreaOf(s, slot)][PlaceOf(s, slot, key, k) + o]
                   /\ FillStaging(s, load, sent)[topo[s].plan[key][k].src + o]
                        = IF k \in sent /\ Staged(s, slot, key, k) THEN PieceByte(s, key, k, o)
                          ELSE load.staging[topo[s].plan[key][k].src + o]
        <5>1. k \in DOMAIN topo[s].plan[load.key] /\ o \in 0..(LengthOf(s, load.key, k) - 1)
          BY <1>2
        <5>2. mem'[s][AreaOf(s, load.slot)][PlaceOf(s, load.slot, load.key, k) + o]
                = IF k \in sent /\ ~Staged(s, load.slot, load.key, k) THEN PieceByte(s, load.key, k, o)
                  ELSE mem[s][AreaOf(s, load.slot)][PlaceOf(s, load.slot, load.key, k) + o]
          BY <1>8, <3>4, <5>1
        <5>3. FillStaging(s, load, sent)[topo[s].plan[load.key][k].src + o]
                = IF k \in sent /\ Staged(s, load.slot, load.key, k) THEN PieceByte(s, load.key, k, o)
                  ELSE load.staging[topo[s].plan[load.key][k].src + o]
          BY <1>9, <5>1
        <5>4. /\ AreaOf(s, load.slot) = AreaOf(s, slot) /\ PlaceOf(s, load.slot, load.key, k) = PlaceOf(s, slot, key, k)
              /\ Staged(s, load.slot, load.key, k) <=> Staged(s, slot, key, k)
              /\ PieceByte(s, load.key, k, o) = PieceByte(s, key, k, o)
              /\ topo[s].plan[load.key][k].src = topo[s].plan[key][k].src
          BY <1>2
        <5>5. mem'[s][AreaOf(s, slot)][PlaceOf(s, slot, key, k) + o]
                = IF k \in sent /\ ~Staged(s, slot, key, k) THEN PieceByte(s, key, k, o)
                  ELSE mem[s][AreaOf(s, slot)][PlaceOf(s, slot, key, k) + o]
          BY <5>2, <5>4
        <5>6. FillStaging(s, load, sent)[topo[s].plan[key][k].src + o]
                = IF k \in sent /\ Staged(s, slot, key, k) THEN PieceByte(s, key, k, o)
                  ELSE load.staging[topo[s].plan[key][k].src + o]
          BY <5>3, <5>4
        <5> QED
          BY <5>5, <5>6
      <4>1. ASSUME NEW o \in 0..(LengthOf(s, key, k) - 1)
            PROVE  /\ Staged(s, slot, key, k) => x.staging[topo[s].plan[key][k].src + o] = PieceByte(s, key, k, o)
                   /\ ~Staged(s, slot, key, k) =>
                        mem'[s][AreaOf(s, slot)][PlaceOf(s, slot, key, k) + o] = PieceByte(s, key, k, o)
        <5>1. mem'[s][AreaOf(s, slot)][PlaceOf(s, slot, key, k) + o]
                = IF k \in sent /\ ~Staged(s, slot, key, k) THEN PieceByte(s, key, k, o)
                  ELSE mem[s][AreaOf(s, slot)][PlaceOf(s, slot, key, k) + o]
          BY <3>4, <4>0
        <5>2. FillStaging(s, load, sent)[topo[s].plan[key][k].src + o]
                = IF k \in sent /\ Staged(s, slot, key, k) THEN PieceByte(s, key, k, o)
                  ELSE load.staging[topo[s].plan[key][k].src + o]
          BY <4>0
        <5> QED
          BY <3>1, <3>4, <5>1, <5>2
      <4>2. /\ LengthOf(s, key, k)' = LengthOf(s, key, k) /\ AreaOf(s, slot)' = AreaOf(s, slot)
            /\ PlaceOf(s, slot, key, k)' = PlaceOf(s, slot, key, k)
            /\ \A o : PieceByte(s, key, k, o)' = PieceByte(s, key, k, o)
        BY SameExpert
      <4>3. Staged(s, slot, key, k) => InBuffer(s, loads[s][idx], k)'
        BY <1>7, <1>10, <4>1, <4>2 DEF InBuffer
      <4>4. ~Staged(s, slot, key, k) => InSlot(s, slot, key, k)'
        BY <4>1, <4>2 DEF InSlot
      <4>5. IF k \in x.mask THEN Staged(s, slot, key, k) ELSE k \in Lost(s, slot, key) \/ ~Staged(s, slot, key, k)
        BY <1>1, <1>4, MaskFacts
      <4> QED
        BY <1>7, <1>10, <2>1, <3>3, <4>3, <4>4, <4>5 DEF PieceHere
    <3>5. CASE ToSet(reqs) \subseteq flight'
      BY <3>2, <3>3, <3>5 DEF PieceHere, Waits
    <3> QED
      BY <1>13, <3>4, <3>5
  <2> QED
    BY <1>4, <2>1, <2>2, <2>3
<1>16. Arrived(s, idx)'
  BY <1>7, <1>10, <1>11, <1>15 DEF Arrived
<1> QED
  BY <1>5, <1>16

\* start_async_load takes a slot that holds no expert and is not being filled, and
\* moves nothing of the others'.
LEMMA ExactLoad ==
  ASSUME LoadInv, Placed, Fits, PiecesRight, MemShape, Exact,
         NEW s \in running, NEW slot \in DOMAIN slots[s], NEW key \in DOMAIN topo[s].plan,
         NEW refused \in 0..Len(topo[s].plan[key]), Load(s, slot, key, refused)
  PROVE  Exact'
<1>1. PICK sent : sent = Submitted(s, slot, topo[s].plan[key], refused)
  OBVIOUS
<1>2. /\ StartAsyncLoad(s, slot, key, refused) /\ Available(s, slot, key)
      /\ UNCHANGED <<source, topo, pool, running, worker>>
  BY DEF Load, setupVars
<1>3. s \in Up /\ Up' = Up /\ running \subseteq Up /\ sent \subseteq DOMAIN topo[s].plan[key] /\ SlotsTaken
  BY <1>1, <1>2 DEF LoadInv, SetUp, Up, Submitted, Placed
<1>4. slots[s][slot].state # "INFLIGHT" /\ pool[s].regions[slot[1]].group = GroupOf(topo[s], key[1])
  BY <1>2, <1>3, AvailableFacts
<1>5. slot \in Slots(pool[s])
  BY <1>3 DEF LoadInv, LoadsTyped
<1>6. PICK v : slots' = [slots EXCEPT ![s][slot] = [state |-> "INFLIGHT", key |-> v]]
  BY <1>2, StartFacts
<1>7. /\ \A u \in Up \ {s} : slots'[u] = slots[u]
      /\ DOMAIN slots'[s] = DOMAIN slots[s] /\ slots'[s][slot].state = "INFLIGHT" /\ slots'[s][slot].key = v
      /\ \A x \in DOMAIN slots[s] \ {slot} : slots'[s][x] = slots[s][x]
  BY <1>3, <1>6, TakenSlots
<1>8. ASSUME NEW u \in Up, NEW x \in DOMAIN slots[u], u = s => x # slot
      PROVE  slots'[u][x] = slots[u][x]
  BY <1>7, <1>8
<1>9. ASSUME NEW u \in Up, NEW j \in InUse(u)
      PROVE  /\ u = s => loads[u][j].slot # slot
             /\ slots'[u][loads[u][j].slot].key = slots[u][loads[u][j].slot].key
  <2>1. slots[u][loads[u][j].slot].state = "INFLIGHT" /\ loads[u][j].slot \in DOMAIN slots[u]
    BY <1>3 DEF SlotsTaken, LoadInv, LoadsTyped, IsLoad
  <2>2. u = s => loads[u][j].slot # slot
    BY <1>4, <2>1
  <2>3. slots'[u][loads[u][j].slot] = slots[u][loads[u][j].slot]
    BY <1>8, <2>1, <2>2
  <2> QED
    BY <2>2, <2>3
\* Whatever is read goes to the slot.
<1>10. mem' = mem \/ WritesOnly(s, slot)
  <2>1. Inside(s, slot, key) /\ s \in Scheds /\ \A a \in DOMAIN mem[s] : DOMAIN mem[s][a] \subseteq Nat
    BY <1>3, <1>4, <1>5, FitsInside, Addresses DEF LoadInv, SetUp
  <2>2. mem' = mem \/ \E load : load.slot = slot /\ load.key = key /\ mem' = FillMem(s, load, sent)
    <3> DEFINE new == [key |-> key, slot |-> slot, pending |-> Cardinality(sent),
                       failed |-> sent # DOMAIN topo[s].plan[key], mask |-> StagingMask(s, slot, topo[s].plan[key]),
                       staging |-> [a \in 0..(pool[s].staging - 1) |-> Hole]]
    <3>1. mem' = mem \/ mem' = FillMem(s, new, sent)
      BY <1>1, <1>2 DEF StartAsyncLoad
    <3>2. new.slot = slot /\ new.key = key
      OBVIOUS
    <3> HIDE DEF new
    <3> QED
      BY <3>1, <3>2
  <2>3. ASSUME NEW load, load.slot = slot, load.key = key, mem' = FillMem(s, load, sent)
        PROVE  WritesOnly(s, load.slot)
    <3>1. Inside(s, load.slot, load.key) /\ sent \subseteq DOMAIN topo[s].plan[load.key]
      BY <1>3, <2>1, <2>3
    <3> QED
      BY <2>1, <2>3, <3>1, FillWrites
  <2> QED
    BY <2>2, <2>3
<1>11. \A u \in Up : \A x \in DOMAIN slots[u] :
         /\ slots[u][x].state = "READY" /\ slots'[u][x].key = slots[u][x].key /\ (u = s => x # slot)
         => HoldsExpert(u, x, slots[u][x].key)'
  BY <1>2, <1>3, <1>5, <1>10, OthersKept
<1>12. \A u \in running : \A j \in InUse(u) :
         /\ loads'[u][j] = loads[u][j] /\ (u = s => loads[u][j].slot # slot)
         /\ slots'[u][loads[u][j].slot].key = slots[u][loads[u][j].slot].key
         /\ \A i : ReadsKept(u, j, i)
         => Arrived(u, j)'
  BY <1>2, <1>3, <1>5, <1>10, OthersKept
\* A slot is READY only if it was before.
<1>13. LoadExact'
  <2>1. ASSUME NEW u \in Up, NEW x \in DOMAIN slots'[u], slots'[u][x].state = "READY"
        PROVE  HoldsExpert(u, x, slots[u][x].key)'
    <3>1. x \in DOMAIN slots[u] /\ (u = s => x # slot)
      BY <1>7, <2>1
    <3>2. slots'[u][x] = slots[u][x]
      BY <1>8, <3>1
    <3>3. PICK k : k = slots[u][x].key
      OBVIOUS
    <3>4. HoldsExpert(u, x, k)'
      BY <1>11, <2>1, <3>1, <3>2, <3>3
    <3> QED
      BY <3>2, <3>3, <3>4
  <2> QED
    BY <1>3, <2>1 DEF LoadExact
<1>14. CASE sent = {}
  <2>1. UNCHANGED <<mem, loads, flight, port>>
    BY <1>1, <1>2, <1>14 DEF StartAsyncLoad
  <2>2. Queued' = Queued /\ \A u : InUse(u)' = InUse(u)
    BY <1>2, <2>1 DEF Queued, InUse
  <2>3. \A u, j, i : ReadsKept(u, j, i)
    BY <2>1, <2>2 DEF ReadsKept
  <2>4. ASSUME NEW u \in running, NEW j \in InUse(u) PROVE Arrived(u, j)'
    BY <1>3, <1>9, <1>12, <2>1, <2>3
  <2> QED
    BY <1>2, <1>13, <2>2, <2>4 DEF Exact
<1>15. CASE sent # {}
  <2>1. PICK idx, load, x, c, failed : Begun(s, slot, key, sent, idx, load, x, c, failed)
    BY <1>1, <1>2, <1>15, LoadBegins
  <2>2. c \in Nat /\ Arrived(s, idx)'
    BY <1>2, <1>3, <1>4, <2>1, BegunArrived
  <2>3. slots' = [slots EXCEPT ![s][slot] = [state |-> "INFLIGHT", key |-> key]] /\ Started(s, idx, slot, key, c, failed)
    BY <2>1 DEF Begun
  <2>4. worker' = worker
    BY <1>2
  <2>5. /\ \A u \in Up \ {s} : loads'[u] = loads[u] /\ InUse(u)' = InUse(u)
        /\ idx \notin InUse(s) /\ InUse(s)' = InUse(s) \cup {idx}
        /\ loads'[s][idx].slot = slot /\ loads'[s][idx].key = key /\ loads'[s][idx].failed = failed
        /\ \A j \in InUse(s) : loads'[s][j] = loads[s][j]
        /\ \A q \in Queued' : \/ q \in Queued
                              \/ q.owner = <<s, idx>> /\ q.slice \in 1..c /\ ~q.err
    BY <2>2, <2>3, <2>4, TakenFacts
  <2> DEFINE reqs == [i \in 1..c |-> Request(<<s, idx>>, i, FALSE)]
  <2>6. /\ \A q \in ToSet(reqs) : q.owner = <<s, idx>> /\ q.slice \in 1..c /\ ~q.err
        /\ \A q : q \in Queued' <=> q \in Queued \/ q \in ToSet(reqs)
        /\ \A q : /\ q \in flight => q \in flight'
                  /\ q \in flight' => q \in flight \/ q \in ToSet(reqs)
    BY <2>2, <2>3, <2>4, StartedReads
  <2> HIDE DEF reqs
  <2>7. ASSUME NEW u, NEW j, <<u, j>> # <<s, idx>> PROVE \A i : ReadsKept(u, j, i)
    BY <2>6, <2>7 DEF ReadsKept
  <2>8. ASSUME NEW u \in running, NEW j \in InUse(u)' PROVE Arrived(u, j)'
    <3>1. CASE u = s /\ j = idx
      BY <2>2, <3>1
    <3>2. CASE ~(u = s /\ j = idx)
      <4>1. j \in InUse(u) /\ loads'[u][j] = loads[u][j] /\ <<u, j>> # <<s, idx>>
        BY <1>3, <2>5, <2>8, <3>2
      <4>2. \A i : ReadsKept(u, j, i)
        BY <2>7, <4>1
      <4> QED
        BY <1>3, <1>9, <1>12, <4>1, <4>2
    <3> QED
      BY <3>1, <3>2
  <2> QED
    BY <1>2, <1>13, <2>8 DEF Exact
<1> QED
  BY <1>14, <1>15

\* Every action keeps Exact.
LEMMA ExactStep ==
  ASSUME LoadInv, LoadInv', Placed, Fits, PiecesRight, MemShape, Exact, [Next]_vars
  PROVE  Exact'
<1> USE DEF vars, setupVars, schedVars, engineVars
<1>1. SlotsTaken
  BY DEF Placed
<1>2. ASSUME NEW main, NEW fmt, Convert(main, fmt) PROVE Exact'
  BY <1>1, <1>2, ExactQuiet DEF Convert, Queued
<1>3. ASSUME NEW s \in Scheds, NEW main, SetupFrom(s, main) PROVE Exact'
  BY <1>1, <1>3, ExactSetup
<1>4. ASSUME NEW s \in Scheds, StopFlag(s) \/ Unregister(s) PROVE Exact'
  BY <1>1, <1>4, ExactQuiet DEF StopFlag, Unregister, Queued
<1>5. ASSUME NEW s \in running, NEW slot \in DOMAIN slots[s], NEW key \in DOMAIN topo[s].plan,
             NEW refused \in 0..Len(topo[s].plan[key]), Load(s, slot, key, refused)
      PROVE  Exact'
  BY <1>5, ExactLoad
<1>6. CASE Snapshot \/ Harvest \/ EndTick
  <2>1. UNCHANGED <<topo, pool, running, slots, loads, flight>> /\ Queued' = Queued
    BY <1>6, TickFacts
  <2>2. UNCHANGED <<source, mem>>
    BY <1>6 DEF Snapshot, Harvest, EndTick
  <2> QED
    BY <1>1, <2>1, <2>2, ExactQuiet
<1>7. CASE Dispatch
  BY <1>7, ExactDispatch
<1>8. ASSUME NEW r \in flight, NEW err \in BOOLEAN, KernelCompletes(r, err) PROVE Exact'
  BY <1>8, ExactKernel
<1>9. CASE UNCHANGED vars
  BY <1>1, <1>9, ExactQuiet DEF Queued
<1> QED
  BY <1>2, <1>3, <1>4, <1>5, <1>6, <1>7, <1>8, <1>9 DEF Next, WorkerStep, KernelStep

\* Where every plan and every pool that the setup makes is as PlansFit and
\* PoolPartition have it, a slot that is READY holds all that the file has of its
\* expert: all reads of the load are done when it is published, a read that failed
\* or was refused marks the load, each piece was read to its slot or copied there
\* from the load's own staging buffer, and nothing was written over it since
\* (start_async_load, drain_completions).
THEOREM ReadyExact == Spec /\ []PlansFit /\ []PoolPartition => []LoadExact
<1>1. Init => Placed /\ MemShape
  BY PlacedInit
<1>2. Init => Exact
  BY DEF Init, Up, Exact, LoadExact
<1>3. LoadInv /\ LoadInv' /\ Placed /\ [Next]_vars => Placed'
  BY PlacedStep
<1>4. LoadInv /\ Placed /\ MemShape /\ Fits /\ [Next]_vars => MemShape'
  BY ShapeStep
<1>5. LoadInv /\ LoadInv' /\ Placed /\ Fits /\ PiecesRight /\ MemShape /\ Exact /\ [Next]_vars => Exact'
  BY ExactStep
<1>6. PlansFit /\ PoolPartition => Fits /\ PiecesRight
  BY DEF PlansFit, PoolPartition, Fits
<1>7. Exact => LoadExact
  BY DEF Exact
<1> QED
  BY <1>1, <1>2, <1>3, <1>4, <1>5, <1>6, <1>7, LoadInvariant, PTL DEF Spec

-----------------------------------------------------------------------------
(* What build_expert_read_plan makes of pieces anywhere in their files.    *)

\* Whole sectors.
Sectors == {q * Sector : q \in Nat}

\* Sectors add up; the ends of a window are sectors, and the piece is inside.
LEMMA SectorFacts ==
  /\ \A a \in Sectors : a \in Nat /\ Aligned(a)
  /\ 0 \in Sectors /\ \A a, b \in Sectors : a + b \in Sectors /\ (a <= b => b - a \in Sectors)
  /\ \A n \in Nat : AlignUp(n) \in Sectors /\ n <= AlignUp(n) /\ AlignDown(n) \in Sectors /\ AlignDown(n) <= n
<1>1. Sector \in Nat /\ Sector > 0
  BY SectorAssumption
<1>2. ASSUME NEW q \in Nat PROVE q * Sector \in Nat /\ Aligned(q * Sector)
  BY <1>1 DEF Aligned
<1>3. ASSUME NEW p \in Nat, NEW q \in Nat
      PROVE  /\ p * Sector + q * Sector = (p + q) * Sector
             /\ q * Sector - p * Sector = (q - p) * Sector
             /\ p * Sector <= q * Sector => p <= q
  BY <1>1
<1>4. ASSUME NEW a \in Sectors, NEW b \in Sectors
      PROVE  a + b \in Sectors /\ (a <= b => b - a \in Sectors)
  <2>1. PICK p \in Nat : a = p * Sector
    BY DEF Sectors
  <2>2. PICK q \in Nat : b = q * Sector
    BY DEF Sectors
  <2>3. a + b = (p + q) * Sector /\ p + q \in Nat
    BY <1>3, <2>1, <2>2
  <2>4. a <= b => b - a = (q - p) * Sector /\ q - p \in Nat
    BY <1>3, <2>1, <2>2
  <2> QED
    BY <2>3, <2>4 DEF Sectors
<1>5. ASSUME NEW n \in Nat
      PROVE  /\ n \div Sector \in Nat /\ (n \div Sector) * Sector <= n
             /\ n < (n \div Sector) * Sector + Sector
  BY <1>1
<1>6. ASSUME NEW n \in Nat
      PROVE  AlignUp(n) \in Sectors /\ n <= AlignUp(n) /\ AlignDown(n) \in Sectors /\ AlignDown(n) <= n
  <2> DEFINE m == n + Sector - 1
             q == m \div Sector
  <2>1. m \in Nat
    BY <1>1
  <2>2. q \in Nat /\ m < q * Sector + Sector /\ q * Sector \in Nat
    <3> HIDE DEF m
    <3> QED
      BY <1>2, <1>5, <2>1
  <2>3. AlignUp(n) = q * Sector
    BY DEF AlignUp
  <2> HIDE DEF q
  <2>4. n <= q * Sector
    BY <1>1, <2>2
  <2>5. AlignDown(n) \in Sectors /\ AlignDown(n) <= n
    BY <1>5 DEF AlignDown, Sectors
  <2> QED
    BY <2>2, <2>3, <2>4, <2>5 DEF Sectors
<1>7. 0 \in Sectors
  <2>1. 0 = 0 * Sector
    BY <1>1
  <2> QED
    BY <2>1 DEF Sectors
<1> QED
  BY <1>2, <1>4, <1>6, <1>7 DEF Sectors

\* The window around a piece is whole sectors and holds it.
LEMMA WindowFacts ==
  ASSUME NEW r, r.off \in Nat, r.len \in Nat
  PROVE  LET w == Window(r)
         IN  w.start \in Sectors /\ w.len \in Sectors /\ w.start <= r.off /\ r.off + r.len <= w.start + w.len
<1> DEFINE a == AlignDown(r.off)
           b == AlignUp(r.off + r.len)
<1>1. r.off + r.len \in Nat
  OBVIOUS
<1>2. a \in Sectors /\ a <= r.off /\ b \in Sectors /\ r.off + r.len <= b /\ a \in Nat /\ b \in Nat
  BY <1>1, SectorFacts
<1>3. Window(r).start = a /\ Window(r).len = b - a
  BY DEF Window
<1> HIDE DEF a, b
<1>4. a <= b
  BY <1>2
<1>5. b - a \in Sectors
  BY <1>2, <1>4, SectorFacts
<1> QED
  BY <1>2, <1>3, <1>5

\* Each piece is staged after the one before it, on a sector.
LEMMA StagedAtFacts ==
  ASSUME NEW reqs, NEW n \in Nat, DOMAIN reqs = 1..n,
         \A i \in 1..n : reqs[i].off \in Nat /\ reqs[i].len \in Nat
  PROVE  /\ \A i \in 1..n : StagedAt(reqs)[i] \in Sectors
         /\ \A i \in 1..n : i # n =>
              StagedAt(reqs)[i] + Window(reqs[i]).len <= StagedAt(reqs)[i + 1]
<1> DEFINE w == [i \in 1..n |-> AlignUp(Window(reqs[i]).len)]
           at == StagedAt(reqs)
<1>1. \A i \in 1..n : w[i] \in Sectors /\ Window(reqs[i]).len \in Sectors /\ Window(reqs[i]).len <= w[i]
  <2> SUFFICES ASSUME NEW i \in 1..n
               PROVE  w[i] \in Sectors /\ Window(reqs[i]).len \in Sectors /\ Window(reqs[i]).len <= w[i]
    OBVIOUS
  <2>1. Window(reqs[i]).len \in Sectors
    BY WindowFacts
  <2> QED
    BY <2>1, SectorFacts
<1>2. at = CHOOSE f : f = [i \in 1..n |-> IF i = 1 THEN 0 ELSE f[i - 1] + AlignUp(Window(reqs[i - 1]).len)]
  BY DEF StagedAt
<1>3. \A i \in 1..n : i # 1 => i - 1 \in 1..n /\ w[i - 1] = AlignUp(Window(reqs[i - 1]).len)
  OBVIOUS
<1> HIDE DEF w
<1>4. \E f : f = [i \in 1..n |-> IF i = 1 THEN 0 ELSE f[i - 1] + AlignUp(Window(reqs[i - 1]).len)]
  <2>1. PICK f : f = [i \in 1..n |-> IF i = 1 THEN 0 ELSE f[i - 1] + w[i - 1]]
    BY PartialSums
  <2>2. [i \in 1..n |-> IF i = 1 THEN 0 ELSE f[i - 1] + w[i - 1]]
          = [i \in 1..n |-> IF i = 1 THEN 0 ELSE f[i - 1] + AlignUp(Window(reqs[i - 1]).len)]
    BY <1>3
  <2> QED
    BY <2>1, <2>2
<1>5. at = [i \in 1..n |-> IF i = 1 THEN 0 ELSE at[i - 1] + AlignUp(Window(reqs[i - 1]).len)]
  BY <1>2, <1>4
<1> HIDE DEF at
<1>6. \A i \in 1..n : at[i] = IF i = 1 THEN 0 ELSE at[i - 1] + w[i - 1]
  BY <1>3, <1>5
<1> DEFINE S == {m \in Nat : m \in 1..n => at[m] \in Sectors}
<1>7. Nat \subseteq S
  <2>1. 0 \in S
    OBVIOUS
  <2>2. ASSUME NEW m \in Nat, m \in S, m + 1 \in 1..n PROVE at[m + 1] \in Sectors
    <3>1. CASE m = 0
      <4>1. 1 \in 1..n /\ m + 1 = 1
        BY <2>2, <3>1
      <4>2. at[1] = 0
        BY <1>6, <4>1
      <4>3. 0 \in Sectors
        BY SectorFacts
      <4> QED
        BY <4>1, <4>2, <4>3
    <3>2. CASE m # 0
      <4>0. m \in 1..n /\ m + 1 # 1 /\ (m + 1) - 1 = m
        BY <2>2, <3>2
      <4>1. at[m + 1] = at[m] + w[m] /\ at[m] \in Sectors /\ w[m] \in Sectors
        <5>1. at[m] \in Sectors
          BY <2>2, <4>0
        <5>2. at[m + 1] = at[(m + 1) - 1] + w[(m + 1) - 1]
          BY <1>6, <2>2, <4>0
        <5> QED
          BY <1>1, <4>0, <5>1, <5>2
      <4> QED
        BY <4>1, SectorFacts
    <3> QED
      BY <3>1, <3>2
  <2>3. ASSUME NEW m \in Nat, m \in S PROVE m + 1 \in S
    <3>1. m + 1 \in Nat
      OBVIOUS
    <3>2. m + 1 \in 1..n => at[m + 1] \in Sectors
      <4> HIDE DEF S
      <4> QED
        BY <2>2, <2>3
    <3> QED
      BY <3>1, <3>2
  <2> HIDE DEF S
  <2>4. \A m \in Nat : m \in S => m + 1 \in S
    BY <2>3
  <2> QED
    BY <2>1, <2>4, SetInduction
<1>8. ASSUME NEW i \in 1..n, i # n PROVE at[i] + Window(reqs[i]).len <= at[i + 1]
  <2>1. i + 1 \in 1..n /\ at[i + 1] = at[i] + w[i]
    BY <1>6, <1>8
  <2>2. at[i] \in Nat /\ w[i] \in Nat /\ Window(reqs[i]).len \in Nat
    <3>1. at[i] \in Sectors /\ w[i] \in Sectors /\ Window(reqs[i]).len \in Sectors
      BY <1>1, <1>7
    <3> HIDE DEF S
    <3> QED
      BY <3>1, SectorFacts
  <2> QED
    BY <1>1, <2>1, <2>2
<1> QED
  BY <1>7, <1>8 DEF at

\* Wherever the pieces of an expert are in their files, their plan reads whole
\* sectors into places of the staging buffer that begin on a sector, hold the
\* piece and end before the next piece's (build_expert_read_plan).
THEOREM PiecesFit ==
  ASSUME NEW reqs, Len(reqs) \in 1..MaxSubTensors, DOMAIN reqs = 1..Len(reqs),
         \A i \in 1..Len(reqs) : reqs[i].off \in Nat /\ reqs[i].len \in Nat
  PROVE  LET plan == ReadPlan(reqs)
         IN  /\ DOMAIN plan = DOMAIN reqs
             /\ \A i \in DOMAIN plan :
                  LET p == plan[i]
                      end == p.staging + p.len
                  IN  /\ Aligned(p.start) /\ Aligned(p.len) /\ Aligned(p.staging)
                      /\ p.start <= reqs[i].off /\ reqs[i].off + p.bytes <= p.start + p.len
                      /\ p.staging <= p.src /\ p.src + p.bytes <= end
                      /\ i # Len(plan) => end <= plan[i + 1].staging
<1> DEFINE n == Len(reqs)
           plan == ReadPlan(reqs)
           at == StagedAt(reqs)
<1>1. n \in Nat /\ DOMAIN reqs = 1..n /\ \A i \in 1..n : reqs[i].off \in Nat /\ reqs[i].len \in Nat
  BY PlanAssumption
<1>2. /\ DOMAIN plan = 1..n
      /\ \A i \in 1..n :
           LET r == reqs[i]
               w == Window(r)
           IN  /\ plan[i].start = w.start /\ plan[i].len = w.len /\ plan[i].staging = at[i]
               /\ plan[i].src = at[i] + r.off - w.start /\ plan[i].bytes = r.len
  BY DEF ReadPlan
<1>3. Len(plan) = n
  <2>1. n \in 1..MaxSubTensors
    OBVIOUS
  <2>2. Len(plan) \in Nat /\ DOMAIN plan = 1..Len(plan)
    BY ReadPlanFacts
  <2> HIDE DEF plan, n
  <2> QED
    BY <1>1, <1>2, <2>2
<1> HIDE DEF n, plan, at
<1>4. /\ \A i \in 1..n : at[i] \in Sectors
      /\ \A i \in 1..n : i # n => at[i] + Window(reqs[i]).len <= at[i + 1]
  BY <1>1, StagedAtFacts DEF at
<1>5. ASSUME NEW i \in 1..n
      PROVE  LET p == plan[i]
                 end == p.staging + p.len
             IN  /\ Aligned(p.start) /\ Aligned(p.len) /\ Aligned(p.staging)
                 /\ p.start <= reqs[i].off /\ reqs[i].off + p.bytes <= p.start + p.len
                 /\ p.staging <= p.src /\ p.src + p.bytes <= end
                 /\ i # n => end <= plan[i + 1].staging
  <2> DEFINE r == reqs[i]
             start == Window(r).start
             len == Window(r).len
  <2>1. /\ start \in Sectors /\ len \in Sectors /\ start <= r.off /\ r.off + r.len <= start + len
        /\ r.off \in Nat /\ r.len \in Nat
    BY <1>1, WindowFacts
  <2>2. /\ plan[i].start = start /\ plan[i].len = len /\ plan[i].staging = at[i]
        /\ plan[i].src = at[i] + r.off - start /\ plan[i].bytes = r.len
        /\ i # n => at[i] + len <= at[i + 1] /\ plan[i + 1].staging = at[i + 1]
    <3>1. i # n => i + 1 \in 1..n
      BY <1>1
    <3> QED
      BY <1>2, <1>4, <3>1
  <2> HIDE DEF r, start, len
  <2>3. at[i] \in Nat /\ start \in Nat /\ len \in Nat /\ Aligned(at[i]) /\ Aligned(start) /\ Aligned(len)
    BY <1>4, <2>1, SectorFacts
  <2>4. /\ at[i] <= at[i] + r.off - start
        /\ at[i] + r.off - start + r.len <= at[i] + len
    <3>1. /\ start <= r.off /\ r.off + r.len <= start + len
          /\ r.off \in Nat /\ r.len \in Nat /\ at[i] \in Nat /\ start \in Nat /\ len \in Nat
      BY <2>1, <2>3
    <3> QED
      BY <3>1
  <2> QED
    BY <2>1, <2>2, <2>3, <2>4 DEF r
<1> QED
  BY <1>1, <1>2, <1>3, <1>5 DEF n, plan
=============================================================================
