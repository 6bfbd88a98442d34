-------------------------- MODULE AccountingProofs --------------------------
(***************************************************************************)
(* Who holds which pin in ExpertScheduler, for every size of model, pools  *)
(* and ring, with and without I/O errors; and from that, that              *)
(* expert_scheduler implements PinService.                                 *)
(*                                                                         *)
(* A pin of slot s is either recorded in a handle, or given to the call by *)
(* the scheduler and not recorded yet: on the ledger while the request is  *)
(* active, on its way to exec afterwards.  Since an expert has one copy    *)
(* (OneCopyOneSlot), no slot is pinned twice, so a refcount is 1 or 0, and *)
(* PinsExact says which.  It is inductive with what a call has and lacks   *)
(* in each of its phases (CallSets, CallStage) and with the ledger         *)
(* (LedgerExact).                                                          *)
(***************************************************************************)
EXTENDS ExpertSchedulerProofs, PinRefinement

\* Where the copy of expert e of the current layer is.
Mine(e) == scan(<<elayer, e>>)

\* The experts whose slot exec has recorded.
Recorded == {e \in Experts : handle[e] # None}

\* The B items pinned for exec that it has not recorded yet.
Given ==
  IF active.on THEN missing \ active.still
  ELSE IF epc = "wait" /\ queue = None /\ ~await.failed THEN missing
  ELSE IF epc = "collect" THEN visit
  ELSE {}

\* What exec has recorded in each phase of its call.
CallSets ==
  /\ epc = "idle" => Recorded = {} /\ missing = {}
  /\ epc = "scan" => /\ visit \cup missing \subseteq needed /\ visit \cap missing = {}
                     /\ Recorded = needed \ (visit \cup missing)
  /\ epc = "wait" => missing \subseteq needed /\ Recorded = needed \ missing
  /\ epc = "collect" => visit \subseteq needed /\ Recorded = needed \ visit
  /\ epc = "compute" => Recorded = needed

\* Where its request stands: queued, active, or neither.
CallStage ==
  /\ epc # "wait" => queue = None /\ ~active.on
  /\ ~active.on => active = NoActive
  /\ queue # None =>
       /\ ~active.on /\ missing # {}
       /\ queue = [layer |-> elayer, needed |-> missing, target |-> Cardinality(missing)]
       /\ await = [done |-> 0, failed |-> FALSE, target |-> Cardinality(missing)]
  /\ active.on =>
       /\ ~await.failed /\ active.layer = elayer /\ active.still \subseteq missing
       /\ active.left = Cardinality(active.still) /\ active.left > 0
       /\ await.done + active.left = await.target
       /\ \A e \in active.still : Mine(e) = None

\* The ledger has each given slot once, and nothing when no request is active.
LedgerExact ==
  \A s \in Slots :
    ledger[s] = IF active.on /\ \E e \in missing \ active.still : Mine(e) = s THEN 1 ELSE 0

\* What is recorded or given has its copy where it was pinned ...
PinsPlaced ==
  /\ \A e \in Recorded : handle[e] = Mine(e)
  /\ \A e \in Given : Mine(e) # None

\* ... and those are all the pins there are.
PinsExact ==
  \A s \in Slots :
    slot[s].rc = IF \E e \in Recorded \cup Given : Mine(e) = s THEN 1 ELSE 0

Accounted == CallSets /\ CallStage /\ LedgerExact /\ PinsPlaced /\ PinsExact
-----------------------------------------------------------------------------
\* A scan finds the one copy of its key, in a READY slot of its own.
ScanExact ==
  /\ \A k \in Keys : scan(k) \in Slots \cup {None}
  /\ \A k \in Keys, p \in Pools : dir[p][k].st = "READY" => scan(k) = dir[p][k].slot
  /\ \A k \in Keys : scan(k) # None =>
       /\ slot[scan(k)].st = "READY" /\ content[scan(k)] = k
       /\ \E p \in Pools : dir[p][k].st = "READY" /\ dir[p][k].slot = scan(k)
  /\ \A j, k \in Keys : scan(j) # None /\ scan(j) = scan(k) => j = k

Sound == Typed /\ Residency

\* ScanExact follows from Residency: at most one pool has the key.
LEMMA ScanFacts == Sound => ScanExact
<1> SUFFICES ASSUME Typed, Residency PROVE ScanExact
  BY DEF Sound
<1>1. "ram" \in Pools /\ "dev" \in Pools /\ None \notin Slots
  BY SlotAssumption DEF Pools
<1>2. ASSUME NEW k \in Keys, NEW p \in Pools, dir[p][k].st = "READY"
      PROVE  scan(k) = dir[p][k].slot
  <2>1. p = "ram" \/ (p = "dev" /\ dir["ram"][k].st = "ABSENT")
    BY <1>1, <1>2 DEF Residency, Core, OneCopyOneSlot, Pools
  <2> QED
    BY <1>2, <2>1 DEF scan
<1>3. ASSUME NEW k \in Keys, scan(k) # None
      PROVE  \E p \in Pools : dir[p][k].st = "READY" /\ dir[p][k].slot = scan(k)
  BY <1>1, <1>3 DEF scan
<1>4. ASSUME NEW k \in Keys, scan(k) # None
      PROVE  slot[scan(k)].st = "READY" /\ content[scan(k)] = k
  BY <1>3, <1>4 DEF Residency, Core, ReadyIsResident
<1>5. ASSUME NEW j \in Keys, NEW k \in Keys, scan(j) # None, scan(j) = scan(k)
      PROVE  j = k
  BY <1>4, <1>5
<1>6. \A k \in Keys : scan(k) \in Slots \cup {None}
  BY ScanType DEF Typed
<1> QED
  BY <1>2, <1>3, <1>4, <1>5, <1>6 DEF ScanExact

\* The same for the experts of the current layer.
LEMMA MineFacts ==
  ASSUME Sound
  PROVE  /\ \A e \in Experts : /\ Mine(e) \in Slots \cup {None}
                               /\ Mine(e) # None => slot[Mine(e)].st = "READY"
         /\ \A d, e \in Experts : Mine(d) # None /\ Mine(d) = Mine(e) => d = e
<1>1. \A e \in Experts : <<elayer, e>> \in Keys
  BY ConstantFacts DEF Sound, Typed, TypeOK
<1>2. ScanExact
  BY ScanFacts
<1> QED
  BY <1>1, <1>2 DEF ScanExact, Mine

\* The experts exec has recorded and those it is given are needed experts, and
\* different ones.
LEMMA HeldApartFacts ==
  ASSUME Sound, CallSets, CallStage
  PROVE  /\ Recorded \subseteq Experts /\ Given \subseteq Experts
         /\ Recorded \cap Given = {} /\ Recorded \cup Given \subseteq needed
<1>1. /\ epc \in {"idle", "scan", "wait", "collect", "compute"}
      /\ missing \subseteq Experts /\ visit \subseteq Experts
  BY DEF Sound, Typed, TypeOK
<1>2. active.on => epc = "wait"
  BY DEF CallStage
<1>3. Given \subseteq missing \/ (epc = "collect" /\ Given = visit)
  BY <1>2 DEF Given
<1>4. Given # {} /\ epc # "collect" => epc = "wait"
  BY <1>2 DEF Given
<1>5. Recorded \subseteq Experts
  BY DEF Recorded
<1>6. Given # {} => Given \subseteq needed /\ Recorded \cap Given = {}
  <2>1. CASE epc = "wait"
    <3>1. missing \subseteq needed /\ Recorded = needed \ missing
      BY <2>1 DEF CallSets
    <3>2. Given \subseteq missing
      BY <1>3, <2>1
    <3> QED
      BY <3>1, <3>2
  <2>2. CASE epc = "collect"
    <3>1. visit \subseteq needed /\ Recorded = needed \ visit
      BY <2>2 DEF CallSets
    <3>2. Given \subseteq visit
      BY <1>2, <2>2 DEF Given
    <3> QED
      BY <3>1, <3>2
  <2> QED
    BY <1>4, <2>1, <2>2
<1>7. Recorded \subseteq needed
  <2>1. CASE epc = "wait"
    BY <2>1 DEF CallSets
  <2>2. CASE epc # "wait"
    BY <1>1, <2>2 DEF CallSets
  <2> QED
    BY <2>1, <2>2
<1> QED
  BY <1>1, <1>3, <1>5, <1>6, <1>7

\* A slot is named by one handle or none.
LEMMA HandlesOne ==
  ASSUME Sound, PinsPlaced, NEW s \in Slots
  PROVE  Handles(handle, s) = IF \E e \in Recorded : Mine(e) = s THEN 1 ELSE 0
<1> DEFINE H == {e \in Experts : handle[e] = s}
<1>1. None \notin Slots
  BY SlotAssumption
<1>2. \A e \in Experts : handle[e] = s <=> e \in Recorded /\ Mine(e) = s
  BY <1>1 DEF PinsPlaced, Recorded
<1>3. CASE \E e \in Recorded : Mine(e) = s
  <2>1. PICK e \in Recorded : Mine(e) = s
    BY <1>3
  <2>2. e \in Experts /\ handle[e] = s
    BY <1>2, <2>1 DEF Recorded
  <2>3. \A d \in Experts : handle[d] = s => d = e
    BY <1>1, <1>2, <2>1, <2>2, MineFacts
  <2>4. H = {e}
    BY <2>2, <2>3
  <2> QED
    BY <1>3, <2>4, FS_Singleton DEF Handles
<1>4. CASE ~(\E e \in Recorded : Mine(e) = s)
  <2>1. H = {}
    BY <1>2, <1>4
  <2> QED
    BY <1>4, <2>1, FS_EmptySet DEF Handles
<1> QED
  BY <1>3, <1>4

-----------------------------------------------------------------------------
\* What every step does to the directory: pinned copies stay, and the keys in
\* L are those whose copy may become READY.
PinsStay ==
  \A p \in Pools, k \in Keys :
    dir[p][k].st = "READY" /\ slot[dir[p][k].slot].rc > 0 => dir'[p][k] = dir[p][k]
LandsOnly(L) ==
  \A p \in Pools, k \in Keys : dir'[p][k].st = "READY" => dir[p][k].st = "READY" \/ k \in L

\* So a scan goes on finding what is pinned, and finds nothing new elsewhere.
LEMMA ScanStep ==
  ASSUME Sound, Sound', PinsStay, NEW L, LandsOnly(L)
  PROVE  /\ \A k \in Keys : scan(k) # None /\ slot[scan(k)].rc > 0 => scan(k)' = scan(k)
         /\ \A k \in Keys : scan(k) = None /\ k \notin L => scan(k)' = None
<1>1. ScanExact /\ ScanExact'
  BY ScanFacts, PTL
<1>2. ASSUME NEW k \in Keys, scan(k) # None, slot[scan(k)].rc > 0
      PROVE  scan(k)' = scan(k)
  <2>1. PICK p \in Pools : dir[p][k].st = "READY" /\ dir[p][k].slot = scan(k)
    BY <1>1, <1>2 DEF ScanExact
  <2>2. dir'[p][k] = dir[p][k]
    BY <1>2, <2>1 DEF PinsStay
  <2>3. scan(k)' = dir'[p][k].slot
    BY <1>1, <2>1, <2>2 DEF ScanExact
  <2> QED
    BY <2>1, <2>2, <2>3
<1>3. ASSUME NEW k \in Keys, scan(k) = None, k \notin L, scan(k)' # None PROVE FALSE
  <2>1. PICK p \in Pools : dir'[p][k].st = "READY" /\ dir'[p][k].slot = scan(k)'
    BY <1>1, <1>3 DEF ScanExact
  <2>2. dir[p][k].st = "READY"
    BY <1>3, <2>1 DEF LandsOnly
  <2>3. dir[p][k].slot \in Slots
    BY <2>2, ConstantFacts DEF Sound, Typed, EntryInPool, InPool
  <2> QED
    BY <1>1, <1>3, <2>2, <2>3, SlotAssumption DEF ScanExact
<1> QED
  BY <1>2, <1>3

\* What a step of the scheduler does to the call: nothing, it pins more of it,
\* or it makes the request fail and gives back the rest.
Effect ==
  /\ UNCHANGED <<epc, elayer, needed, Recorded>>
  /\ \/ Given' = Given /\ await'.failed = await.failed
     \/ epc = "wait" /\ ~await.failed /\ ~await'.failed /\ Given \subseteq Given'
     \/ /\ epc = "wait" /\ ~await.failed /\ await'.failed
        /\ Given' = {} /\ Resident' = Resident

\* The keys a scan finds are those with a READY copy.
LEMMA ResidentSame ==
  ASSUME Sound, Sound',
         \A p \in Pools, k \in Keys : dir'[p][k].st = "READY" <=> dir[p][k].st = "READY"
  PROVE  Resident' = Resident
<1>1. ScanExact /\ ScanExact'
  BY ScanFacts, PTL
<1>2. \A p \in Pools, k \in Keys : dir[p][k].st = "READY" => dir[p][k].slot # None
  BY ConstantFacts, SlotAssumption DEF Sound, Typed, EntryInPool, InPool
<1>3. \A p \in Pools, k \in Keys : dir'[p][k].st = "READY" => dir'[p][k].slot # None
  BY ConstantFacts, SlotAssumption DEF Sound, Typed, EntryInPool, InPool
<1>4. \A k \in Keys : scan(k) # None <=> \E p \in Pools : dir[p][k].st = "READY"
  BY <1>1, <1>2 DEF ScanExact
<1>5. \A k \in Keys : scan(k)' # None <=> \E p \in Pools : dir'[p][k].st = "READY"
  BY <1>1, <1>3 DEF ScanExact
<1> QED
  BY <1>4, <1>5 DEF Resident

\* What is recorded or given is in a slot pinned once.
LEMMA PinnedFacts ==
  ASSUME Sound, Accounted
  PROVE  /\ \A e \in Recorded \cup Given : /\ e \in Experts /\ <<elayer, e>> \in Keys
                                           /\ Mine(e) \in Slots /\ slot[Mine(e)].rc = 1
         /\ active.on => Given = missing \ active.still
<1>1. Recorded \subseteq Experts /\ Given \subseteq Experts
  BY HeldApartFacts DEF Accounted
<1>2. \A e \in Experts : <<elayer, e>> \in Keys
  BY ConstantFacts DEF Sound, Typed, TypeOK
<1>3. \A e \in Recorded \cup Given : Mine(e) # None
  BY DEF Accounted, PinsPlaced, Recorded
<1>4. \A e \in Recorded \cup Given : Mine(e) \in Slots
  BY <1>1, <1>3, MineFacts
<1>5. \A e \in Recorded \cup Given : slot[Mine(e)].rc = 1
  BY <1>4 DEF Accounted, PinsExact
<1> QED
  BY <1>1, <1>2, <1>4, <1>5 DEF Given

\* A step of the scheduler that settles and pins nothing of the current call.
LEMMA Undisturbed ==
  ASSUME Sound, Sound', Accounted, UNCHANGED <<execVars, await, queue, active, ledger>>,
         \A s \in Slots : slot'[s].rc = slot[s].rc, PinsStay,
         NEW L, LandsOnly(L), \A k \in L : ~IsActiveItem(k)
  PROVE  Accounted' /\ Effect
<1> USE DEF execVars
<1>1. \A e \in Recorded \cup Given : Mine(e)' = Mine(e)
  <2>1. ASSUME NEW e \in Recorded \cup Given PROVE Mine(e)' = Mine(e)
    <3>1. <<elayer, e>> \in Keys /\ Mine(e) \in Slots /\ slot[Mine(e)].rc > 0
      BY PinnedFacts
    <3>2. Mine(e) # None
      BY <3>1, SlotAssumption
    <3>3. scan(<<elayer, e>>)' = scan(<<elayer, e>>)
      BY <3>1, <3>2, ScanStep DEF Mine
    <3> QED
      BY <3>3 DEF Mine
  <2> QED
    BY <2>1
<1>2. active.on => \A e \in active.still : Mine(e)' = None
  <2>1. ASSUME active.on, NEW e \in active.still PROVE Mine(e)' = None
    <3>1. /\ active.layer = elayer /\ Mine(e) = None /\ e \in missing
      BY <2>1 DEF Accounted, CallStage
    <3>2. <<elayer, e>> \in Keys
      BY <3>1, ConstantFacts DEF Sound, Typed, TypeOK
    <3>3. <<elayer, e>> \notin L
      BY <2>1, <3>1 DEF IsActiveItem
    <3>4. scan(<<elayer, e>>)' = None
      BY <3>1, <3>2, <3>3, ScanStep DEF Mine
    <3> QED
      BY <3>4 DEF Mine
  <2> QED
    BY <2>1
<1>3. Recorded' = Recorded /\ Given' = Given
  BY DEF Recorded, Given
<1>4. CallSets'
  BY <1>3 DEF Accounted, CallSets
<1>5. CallStage'
  BY <1>2 DEF Accounted, CallStage
<1>6. LedgerExact'
  <2>1. active.on => \A e \in missing \ active.still : Mine(e)' = Mine(e)
    BY <1>1, PinnedFacts
  <2> QED
    BY <2>1 DEF Accounted, LedgerExact
<1>7. PinsPlaced'
  BY <1>1, <1>3 DEF Accounted, PinsPlaced
<1>8. PinsExact'
  BY <1>1, <1>3 DEF Accounted, PinsExact
<1> QED
  BY <1>3, <1>4, <1>5, <1>6, <1>7, <1>8 DEF Accounted, Effect

\* n calls of unpin leave n pins less, and never less than none.
LEMMA UnpinnedRc ==
  ASSUME NEW w \in Word, NEW n \in Nat
  PROVE  unpinned(w, n).rc = IF w.rc >= n THEN w.rc - n ELSE 0
  BY DEF Word, unpinned

\* active_fail releases what is on the ledger, which is all the request was
\* given: what exec recorded itself stays pinned.
LEMMA FailStep ==
  ASSUME Sound, Sound', Accounted, active.on, UNCHANGED <<execVars, queue>>,
         NEW sl, \A s \in Slots : sl[s] \in Word /\ sl[s].rc = slot[s].rc,
         active_fail(sl), PinsStay,
         \A p \in Pools, k \in Keys : dir'[p][k].st = "READY" <=> dir[p][k].st = "READY"
  PROVE  Accounted' /\ Effect
<1> USE DEF execVars
<1>0. LandsOnly({}) /\ Resident' = Resident
  BY ResidentSame DEF LandsOnly
<1>1. /\ epc = "wait" /\ queue = None /\ Recorded = needed \ missing
      /\ Given = missing \ active.still /\ ~await.failed
  BY PinnedFacts DEF Accounted, CallStage, CallSets
<1>2. /\ active' = NoActive /\ ledger' = EmptyLedger
      /\ await' = [await EXCEPT !.failed = TRUE]
      /\ slot' = [s \in Slots |-> unpinned(sl[s], ledger[s])]
  BY DEF active_fail, active_clear_state
<1>3. ~active'.on /\ await'.failed
  BY <1>2 DEF NoActive, Sound, Typed, TypeOK
<1>4. Given' = {} /\ Recorded' = Recorded
  BY <1>1, <1>3 DEF Given, Recorded
<1>5. CallSets' /\ CallStage'
  BY <1>1, <1>2, <1>3, <1>4 DEF Accounted, CallSets, CallStage, NoActive
<1>6. LedgerExact'
  BY <1>2, <1>3 DEF LedgerExact, EmptyLedger
<1>7. \A e \in Recorded : Mine(e)' = Mine(e)
  <2>1. ASSUME NEW e \in Recorded PROVE Mine(e)' = Mine(e)
    <3>1. <<elayer, e>> \in Keys /\ Mine(e) \in Slots /\ slot[Mine(e)].rc > 0
      BY PinnedFacts
    <3>2. Mine(e) # None
      BY <3>1, SlotAssumption
    <3>3. scan(<<elayer, e>>)' = scan(<<elayer, e>>)
      BY <1>0, <3>1, <3>2, ScanStep DEF Mine
    <3> QED
      BY <3>3 DEF Mine
  <2> QED
    BY <2>1
<1>8. PinsPlaced'
  BY <1>4, <1>7 DEF Accounted, PinsPlaced
<1>9. PinsExact'
  <2>1. ASSUME NEW s \in Slots
        PROVE  slot'[s].rc = IF \E e \in Recorded : Mine(e) = s THEN 1 ELSE 0
    <3>1. slot'[s] = unpinned(sl[s], ledger[s]) /\ ledger[s] \in Nat
      BY <1>2 DEF Sound, Typed, TypeOK
    <3>2. slot'[s].rc = IF slot[s].rc >= ledger[s] THEN slot[s].rc - ledger[s] ELSE 0
      BY <3>1, UnpinnedRc
    <3>3. ledger[s] = IF \E e \in Given : Mine(e) = s THEN 1 ELSE 0
      BY <1>1 DEF Accounted, LedgerExact
    <3>4. slot[s].rc = IF \E e \in Recorded \cup Given : Mine(e) = s THEN 1 ELSE 0
      BY DEF Accounted, PinsExact
    <3>5. ASSUME NEW d \in Recorded, NEW e \in Given, Mine(d) = s, Mine(e) = s PROVE FALSE
      <4>1. d \in Experts /\ e \in Experts /\ Mine(d) # None
        BY <3>5, PinnedFacts, SlotAssumption
      <4>2. d = e
        BY <3>5, <4>1, MineFacts
      <4> QED
        BY <3>5, <4>2, HeldApartFacts DEF Accounted
    <3> QED
      BY <3>2, <3>3, <3>4, <3>5
  <2> QED
    BY <1>4, <1>7, <2>1 DEF PinsExact
<1> QED
  BY <1>0, <1>1, <1>3, <1>4, <1>5, <1>6, <1>8, <1>9 DEF Accounted, Effect

\* One element less.
LEMMA OneLess ==
  ASSUME NEW S, IsFiniteSet(S), NEW x \in S
  PROVE  /\ Cardinality(S) \in Nat /\ Cardinality(S \ {x}) = Cardinality(S) - 1
         /\ Cardinality(S) = 1 => S = {x}
<1>1. Cardinality(S) \in Nat /\ Cardinality(S \ {x}) = Cardinality(S) - 1
  BY FS_CardinalityType, FS_RemoveElement
<1>2. CASE Cardinality(S) = 1
  <2>1. PICK y : S = {y}
    BY <1>2, FS_Singleton
  <2> QED
    BY <1>1, <2>1
<1> QED
  BY <1>1, <1>2

\* Expert e of the active request becomes READY in slot s and is pinned there:
\* the failing exits of active_settle cannot be taken.
LEMMA SettledStep ==
  ASSUME Sound, Sound', Accounted, NEW k \in Keys, IsActiveItem(k),
         NEW s \in Slots, NEW sl \in [Slots -> Word], \A t \in Slots : sl[t].rc = slot[t].rc,
         sl[s].st = "READY", slot[s].rc = 0,
         NEW p \in Pools, dir'[p][k].st = "READY", dir'[p][k].slot = s,
         active_settle(k, s, sl), UNCHANGED <<execVars, queue>>,
         PinsStay, LandsOnly({k})
  PROVE  Accounted' /\ Effect
<1> USE DEF execVars
<1> DEFINE e0 == k[2]
<1>1. /\ e0 \in active.still /\ e0 \in Experts /\ e0 \in missing /\ k = <<elayer, e0>>
      /\ epc = "wait" /\ queue = None /\ ~await.failed
      /\ Recorded = needed \ missing /\ Given = missing \ active.still
      /\ active.on /\ active.layer = elayer /\ active.still \subseteq missing
      /\ active.left = Cardinality(active.still) /\ active.left > 0
      /\ await.done + active.left = await.target
  <2>1. /\ active.on /\ active.still \subseteq missing /\ missing \subseteq Experts
        /\ e0 \in active.still /\ k = <<active.layer, e0>>
    BY DEF IsActiveItem, Accounted, CallStage, Sound, Typed, TypeOK, Keys
  <2> QED
    BY <2>1, PinnedFacts DEF Accounted, CallStage, CallSets
<1>2. /\ active.on = TRUE /\ active.left \in Nat /\ await.done \in Nat
      /\ IsFiniteSet(active.still)
  <2>1. active.still \subseteq Experts /\ active.left \in Nat /\ await.done \in Nat
    BY DEF Sound, Typed, TypeOK, Active
  <2> QED
    BY <1>1, <2>1, ConstantFacts, FS_Subset DEF Sound, Typed, TypeOK, Active
<1>3. /\ slot' = [sl EXCEPT ![s] = pinned(@)]
      /\ await' = [await EXCEPT !.done = @ + 1]
      /\ IF active.left = 1 THEN active_clear_state
         ELSE /\ active' = [active EXCEPT !.still = @ \ {k[2]}, !.left = @ - 1]
              /\ ledger' = [ledger EXCEPT ![s] = @ + 1]
              /\ clock' = "off"
  BY <1>1 DEF active_settle, CanPin
<1> HIDE DEF e0
<1>4. Mine(e0)' = s
  <2>1. ScanExact'
    BY ScanFacts, PTL
  <2>2. scan(k)' = s
    BY <2>1 DEF ScanExact
  <2> QED
    BY <1>1, <2>2 DEF Mine
<1>5. \A e \in Recorded \cup Given : Mine(e)' = Mine(e)
  <2>1. ASSUME NEW e \in Recorded \cup Given PROVE Mine(e)' = Mine(e)
    <3>1. <<elayer, e>> \in Keys /\ Mine(e) \in Slots /\ slot[Mine(e)].rc > 0
      BY PinnedFacts
    <3>2. Mine(e) # None
      BY <3>1, SlotAssumption
    <3>3. scan(<<elayer, e>>)' = scan(<<elayer, e>>)
      BY <3>1, <3>2, ScanStep DEF Mine
    <3> QED
      BY <3>3 DEF Mine
  <2> QED
    BY <2>1
<1>6. \A e \in active.still \ {e0} : Mine(e)' = None
  <2>1. ASSUME NEW e \in active.still \ {e0} PROVE Mine(e)' = None
    <3>1. <<elayer, e>> \in Keys /\ <<elayer, e>> \notin {k} /\ Mine(e) = None
      BY <1>1, ConstantFacts DEF Sound, Typed, TypeOK, Accounted, CallStage
    <3>2. scan(<<elayer, e>>)' = None
      BY <3>1, ScanStep DEF Mine
    <3> QED
      BY <3>2 DEF Mine
  <2> QED
    BY <2>1
<1>7. ~(\E e \in Recorded \cup Given : Mine(e) = s)
  <2>1. ASSUME NEW e \in Recorded \cup Given PROVE Mine(e) # s
    <3>1. slot[Mine(e)].rc = 1
      BY PinnedFacts
    <3> QED
      BY <3>1
  <2> QED
    BY <2>1
<1>8. /\ Recorded' = Recorded /\ Given' = Given \cup {e0}
      /\ CallStage' /\ ~await'.failed
      /\ active'.on => Given' = missing \ active'.still
      /\ \A t \in Slots : ledger'[t] = IF active'.on
                                       THEN IF t = s THEN ledger[t] + 1 ELSE ledger[t]
                                       ELSE 0
  <2>1. await'.done = await.done + 1 /\ await'.failed = FALSE /\ await'.target = await.target
    BY <1>1, <1>3 DEF Sound, Typed, TypeOK
  <2>2. CASE active.left = 1
    <3>1. active.still = {e0}
      BY <1>1, <1>2, <2>2, OneLess
    <3>2. active' = NoActive /\ ledger' = EmptyLedger
      BY <1>3, <2>2 DEF active_clear_state
    <3>3. ~active'.on
      BY <3>2 DEF NoActive
    <3>4. CallStage'
      BY <1>1, <3>2, <3>3 DEF CallStage, NoActive
    <3>5. Given' = missing
      BY <1>1, <2>1, <3>3 DEF Given
    <3>6. \A t \in Slots : ledger'[t] = 0
      BY <3>2 DEF EmptyLedger
    <3> QED
      BY <1>1, <2>1, <3>1, <3>3, <3>4, <3>5, <3>6 DEF Recorded
  <2>3. CASE active.left # 1
    <3> DEFINE S == active.still \ {e0}
    <3>1. /\ active' = [active EXCEPT !.still = @ \ {e0}, !.left = @ - 1]
          /\ ledger' = [ledger EXCEPT ![s] = @ + 1]
      BY <1>3, <2>3 DEF e0
    <3>2. /\ active'.on /\ active'.layer = elayer /\ active'.still = S
          /\ active'.left = active.left - 1
      BY <1>1, <3>1 DEF Sound, Typed, TypeOK, Active
    <3>3. Cardinality(S) = active.left - 1
      BY <1>1, <1>2, OneLess
    <3>4. active'.left > 0 /\ await'.done + active'.left = await'.target
      BY <1>1, <1>2, <2>1, <2>3, <3>2
    <3>5. CallStage'
      BY <1>1, <1>6, <2>1, <3>2, <3>3, <3>4 DEF CallStage
    <3>6. Given' = missing \ S
      BY <3>2 DEF Given
    <3>7. \A t \in Slots : ledger'[t] = IF t = s THEN ledger[t] + 1 ELSE ledger[t]
      BY <3>1 DEF Sound, Typed, TypeOK
    <3> QED
      BY <1>1, <2>1, <3>2, <3>5, <3>6, <3>7 DEF Recorded
  <2> QED
    BY <2>2, <2>3
<1>9. CallSets'
  BY <1>8 DEF Accounted, CallSets
<1>10. \A t \in Slots :
         (\E e \in Given' : Mine(e)' = t) <=> t = s \/ \E e \in Given : Mine(e) = t
  BY <1>4, <1>5, <1>8
<1>11. LedgerExact'
  <2>1. ASSUME NEW t \in Slots, active'.on
        PROVE  ledger'[t] = IF \E e \in Given' : Mine(e)' = t THEN 1 ELSE 0
    <3>1. ledger[t] = IF \E e \in Given : Mine(e) = t THEN 1 ELSE 0
      BY <1>1 DEF Accounted, LedgerExact
    <3> QED
      BY <1>7, <1>8, <1>10, <2>1, <3>1
  <2> QED
    BY <1>8, <2>1 DEF LedgerExact
<1>12. PinsPlaced'
  <2>1. s # None
    BY SlotAssumption
  <2> QED
    BY <1>4, <1>5, <1>8, <2>1 DEF Accounted, PinsPlaced
<1>13. PinsExact'
  <2>1. ASSUME NEW t \in Slots
        PROVE  slot'[t].rc = IF \E e \in Recorded' \cup Given' : Mine(e)' = t THEN 1 ELSE 0
    <3>1. slot[t].rc = IF \E e \in Recorded \cup Given : Mine(e) = t THEN 1 ELSE 0
      BY DEF Accounted, PinsExact
    <3>2. slot'[t].rc = IF t = s THEN 1 ELSE slot[t].rc
      <4>1. pinned(sl[s]).rc = 1
        BY WordFacts
      <4> QED
        BY <1>3, <4>1
    <3>3. (\E e \in Recorded' : Mine(e)' = t) <=> \E e \in Recorded : Mine(e) = t
      BY <1>5, <1>8
    <3> QED
      BY <1>10, <3>1, <3>2, <3>3
  <2> QED
    BY <2>1 DEF PinsExact
<1> QED
  BY <1>1, <1>8, <1>9, <1>11, <1>12, <1>13 DEF Accounted, Effect

\* active_register pins what is READY by now: of each queued expert, either the
\* copy is pinned and on the ledger, or there is none.
LEMMA RegisterAccounted ==
  ASSUME Sound, Sound', Accounted, active_register
  PROVE  Accounted' /\ Effect
<1> DEFINE R == {e \in missing : Mine(e) # None}
           C == Cardinality(R)
<1>1. /\ epc = "wait" /\ ~await.failed /\ ~active.on /\ missing # {}
      /\ queue.layer = elayer /\ queue.needed = missing
      /\ queue.target = Cardinality(missing) /\ await.done = 0
      /\ await.target = Cardinality(missing) /\ missing \subseteq Experts
      /\ missing \subseteq needed /\ Recorded = needed \ missing /\ Given = {}
  <2>1. ~active.on /\ queue # None
    BY DEF active_register
  <2>2. /\ epc = "wait" /\ missing # {}
        /\ queue = [layer |-> elayer, needed |-> missing, target |-> Cardinality(missing)]
        /\ await = [done |-> 0, failed |-> FALSE, target |-> Cardinality(missing)]
    BY <2>1 DEF Accounted, CallStage
  <2> QED
    BY <2>1, <2>2 DEF Accounted, CallSets, Given, Sound, Typed, TypeOK
<1>2. UNCHANGED <<execVars, dir>> /\ queue' = None /\ \A e : Mine(e)' = Mine(e)
  BY DEF active_register, Mine, scan, execVars
<1> USE DEF execVars
<1>3. ReadyItems = R
  BY <1>1, MineFacts DEF ReadyItems, Mine, CanPin
<1>4. ReadySlots = {Mine(e) : e \in R}
  BY <1>1, <1>3 DEF ReadySlots, Mine
<1>5. /\ slot' = [s \in Slots |-> IF s \in ReadySlots THEN pinned(slot[s]) ELSE slot[s]]
      /\ await' = [await EXCEPT !.done = @ + C]
      /\ IF queue.target = C
         THEN active_clear_state
         ELSE /\ active' = [on |-> TRUE, layer |-> queue.layer,
                            still |-> queue.needed \ R, left |-> queue.target - C]
              /\ ledger' = [s \in Slots |-> IF s \in ReadySlots THEN 1 ELSE 0]
              /\ clock' = "off"
  BY <1>3 DEF active_register
<1>6. /\ C \in Nat /\ Cardinality(missing) \in Nat /\ C <= Cardinality(missing)
      /\ Cardinality(missing \ R) = Cardinality(missing) - C
      /\ Cardinality(missing) = C => R = missing
  <2>1. IsFiniteSet(missing) /\ R \subseteq missing /\ missing \cap R = R
    BY <1>1, ConstantFacts, FS_Subset
  <2>2. IsFiniteSet(R)
    BY <2>1, FS_Subset
  <2> HIDE DEF R
  <2> QED
    BY <2>1, <2>2, FS_Subset, FS_CardinalityType, FS_Difference
<1>7. /\ Recorded' = Recorded /\ Given' = R /\ CallStage' /\ ~await'.failed
      /\ active'.on => Given' = missing \ active'.still
      /\ \A s \in Slots : ledger'[s] = IF active'.on /\ s \in ReadySlots THEN 1 ELSE 0
  <2>1. await'.done = C /\ await'.failed = FALSE /\ await'.target = Cardinality(missing)
    BY <1>1, <1>5, <1>6 DEF Sound, Typed, TypeOK
  <2>2. CASE queue.target = C
    <3>1. active' = NoActive /\ ledger' = EmptyLedger
      BY <1>5, <2>2 DEF active_clear_state
    <3>2. ~active'.on /\ R = missing
      BY <1>1, <1>6, <2>2, <3>1 DEF NoActive
    <3> HIDE DEF R
    <3>3. Given' = missing
      BY <1>1, <1>2, <2>1, <3>2 DEF Given
    <3>4. CallStage'
      BY <1>1, <1>2, <3>1, <3>2 DEF CallStage, NoActive
    <3> QED
      BY <1>2, <2>1, <3>1, <3>2, <3>3, <3>4 DEF Recorded, EmptyLedger
  <2>3. CASE queue.target # C
    <3>1. /\ active'.on /\ active'.layer = elayer /\ active'.still = missing \ R
          /\ active'.left = Cardinality(missing) - C
      BY <1>1, <1>5, <2>3
    <3>2. Given' = R
      BY <1>2, <3>1 DEF Given
    <3>3. active'.left > 0 /\ await'.done + active'.left = await'.target
      BY <1>1, <1>6, <2>1, <2>3, <3>1
    <3>4. \A e \in missing \ R : Mine(e)' = None
      BY <1>2
    <3>5. CallStage'
      BY <1>1, <1>2, <1>6, <2>1, <3>1, <3>3, <3>4 DEF CallStage
    <3> QED
      BY <1>2, <1>5, <2>1, <2>3, <3>1, <3>2, <3>5 DEF Recorded
  <2> QED
    BY <2>2, <2>3
<1>8. CallSets'
  BY <1>1, <1>2, <1>7 DEF CallSets
<1>9. LedgerExact'
  BY <1>2, <1>4, <1>7 DEF LedgerExact
<1>10. PinsPlaced'
  BY <1>2, <1>7 DEF Accounted, PinsPlaced
<1>11. PinsExact'
  <2>1. ASSUME NEW s \in Slots
        PROVE  slot'[s].rc = IF \E e \in Recorded \cup R : Mine(e) = s THEN 1 ELSE 0
    <3>1. slot[s].rc = IF \E e \in Recorded : Mine(e) = s THEN 1 ELSE 0
      BY <1>1 DEF Accounted, PinsExact
    <3>2. slot[s] \in Word
      BY DEF Sound, Typed, TypeOK
    <3>3. slot'[s].rc = IF s \in ReadySlots THEN slot[s].rc + 1 ELSE slot[s].rc
      BY <1>5, <3>2, WordFacts
    <3>4. s \in ReadySlots <=> \E e \in R : Mine(e) = s
      BY <1>4
    <3>5. ASSUME NEW d \in Recorded, NEW e \in R, Mine(d) = s, Mine(e) = s PROVE FALSE
      <4>1. d \in Experts /\ e \in Experts /\ Mine(e) # None
        BY <1>1 DEF Recorded
      <4>2. d = e
        BY <3>5, <4>1, MineFacts
      <4> QED
        BY <1>1, <4>2
    <3> QED
      BY <3>1, <3>3, <3>4, <3>5
  <2> QED
    BY <1>2, <1>7, <2>1 DEF PinsExact
<1> QED
  BY <1>1, <1>2, <1>7, <1>8, <1>9, <1>10, <1>11 DEF Accounted, Effect

-----------------------------------------------------------------------------
\* When nothing is given any more, unpinning every handle leaves no pin.
LEMMA UnpinAllClears ==
  ASSUME Sound, Accounted, Given = {}, NEW s \in Slots
  PROVE  unpin_all(handle)[s].rc = 0
<1>1. slot[s] \in Word /\ Handles(handle, s) \in Nat
  BY HandlesNat DEF Sound, Typed, TypeOK
<1>2. unpin_all(handle)[s].rc = IF slot[s].rc >= Handles(handle, s)
                                THEN slot[s].rc - Handles(handle, s) ELSE 0
  BY <1>1, UnpinnedRc DEF unpin_all
<1>3. Handles(handle, s) = IF \E e \in Recorded : Mine(e) = s THEN 1 ELSE 0
  BY HandlesOne DEF Accounted
<1>4. slot[s].rc = IF \E e \in Recorded : Mine(e) = s THEN 1 ELSE 0
  BY DEF Accounted, PinsExact
<1> QED
  BY <1>2, <1>3, <1>4

\* The end of a call: nothing recorded, given or pinned.
LEMMA CallEnds ==
  ASSUME Sound, Accounted, Given = {}, ~active.on, queue = None,
         epc' = "idle", handle' = NoHandles, missing' = {}, slot' = unpin_all(handle),
         UNCHANGED <<active, ledger, queue>>
  PROVE  Accounted'
<1>1. Recorded' = {} /\ Given' = {}
  BY DEF Recorded, Given, NoHandles
<1>2. \A s \in Slots : slot'[s].rc = 0
  BY UnpinAllClears
<1>3. CallSets' /\ CallStage' /\ PinsPlaced' /\ PinsExact'
  BY <1>1, <1>2 DEF Accounted, CallSets, CallStage, PinsPlaced, PinsExact
<1>4. LedgerExact'
  BY DEF Accounted, LedgerExact
<1> QED
  BY <1>3, <1>4 DEF Accounted

\* The least expert of the loop over visit is one of them.
LEMMA NextVisited == ASSUME Sound, visit # {} PROVE Least(visit) \in visit /\ Least(visit) \in Experts
<1>1. visit \subseteq Experts /\ Experts \subseteq Nat
  BY ConstantFacts DEF Sound, Typed, TypeOK
<1> QED
  BY <1>1, LeastInSet

\* The scan pins a copy nobody has pinned, or leaves the expert to the scheduler.
LEMMA PinScanAccounted == ASSUME Sound, Sound', Accounted, PinScan PROVE Accounted'
<1> DEFINE e0 == Least(visit)
           s == Mine(e0)
<1>1. /\ epc = "scan" /\ epc' = "scan" /\ visit' = visit \ {e0} /\ elayer' = elayer
      /\ UNCHANGED <<needed, await, dir, queue, active, ledger>>
      /\ IF s # None /\ CanPin(slot[s])
         THEN /\ slot' = [slot EXCEPT ![s] = pinned(@)]
              /\ handle' = [handle EXCEPT ![e0] = s]
              /\ UNCHANGED missing
         ELSE /\ missing' = missing \cup {e0}
              /\ UNCHANGED <<slot, handle>>
  BY DEF PinScan, actVars, Mine
<1>2. /\ e0 \in visit /\ e0 \in Experts /\ e0 \notin missing /\ e0 \notin Recorded
      /\ Recorded = needed \ (visit \cup missing) /\ visit \cup missing \subseteq needed
      /\ visit \cap missing = {} /\ Given = {} /\ ~active.on /\ queue = None
  <2>1. e0 \in visit /\ e0 \in Experts
    BY NextVisited DEF PinScan
  <2> QED
    BY <1>1, <2>1 DEF Accounted, CallSets, CallStage, Given
<1>3. \A e : Mine(e)' = Mine(e)
  BY <1>1 DEF Mine, scan
<1> HIDE DEF e0
<1>4. Given' = {} /\ CallStage'
  BY <1>1, <1>2 DEF Given, Accounted, CallStage
<1>5. LedgerExact'
  BY <1>1, <1>2 DEF Accounted, LedgerExact
<1>6. CASE s # None /\ CanPin(slot[s])
  <2>1. /\ slot' = [slot EXCEPT ![s] = pinned(@)] /\ handle' = [handle EXCEPT ![e0] = s]
        /\ missing' = missing /\ s \in Slots
    BY <1>1, <1>2, <1>6, MineFacts
  <2>2. /\ handle'[e0] = s /\ \A e \in Experts : e # e0 => handle'[e] = handle[e]
    BY <1>2, <2>1 DEF Sound, Typed, TypeOK
  <2>3. Recorded' = Recorded \cup {e0}
    BY <1>2, <1>6, <2>2 DEF Recorded
  <2>4. CallSets'
    BY <1>1, <1>2, <2>1, <2>3 DEF CallSets
  <2>5. PinsPlaced'
    BY <1>2, <1>3, <1>4, <2>2, <2>3 DEF Accounted, PinsPlaced, Recorded
  <2>6. \A d \in Recorded : Mine(d) # s
    BY <1>2, <1>6, MineFacts DEF Recorded
  <2>7. PinsExact'
    <3>1. ASSUME NEW t \in Slots
          PROVE  slot'[t].rc = IF \E e \in Recorded \cup {e0} : Mine(e) = t THEN 1 ELSE 0
      <4>1. slot[t].rc = IF \E e \in Recorded : Mine(e) = t THEN 1 ELSE 0
        BY <1>2 DEF Accounted, PinsExact
      <4>2. slot \in [Slots -> Word] /\ slot[s] \in Word
        BY <2>1 DEF Sound, Typed, TypeOK
      <4>3. slot'[t].rc = IF t = s THEN slot[s].rc + 1 ELSE slot[t].rc
        BY <2>1, <4>2, WordFacts
      <4> QED
        BY <2>6, <4>1, <4>3
    <3> QED
      BY <1>3, <1>4, <2>3, <3>1 DEF PinsExact
  <2> QED
    BY <1>4, <1>5, <2>4, <2>5, <2>7 DEF Accounted
<1>7. CASE ~(s # None /\ CanPin(slot[s]))
  <2>1. UNCHANGED <<slot, handle>> /\ missing' = missing \cup {e0}
    BY <1>1, <1>7
  <2>2. Recorded' = Recorded
    BY <2>1 DEF Recorded
  <2>3. CallSets'
    BY <1>1, <1>2, <2>1, <2>2 DEF CallSets
  <2>4. PinsPlaced' /\ PinsExact'
    BY <1>2, <1>3, <1>4, <2>1, <2>2 DEF Accounted, PinsPlaced, PinsExact
  <2> QED
    BY <1>4, <1>5, <2>3, <2>4 DEF Accounted
<1> QED
  BY <1>6, <1>7

\* Recording a B item moves its pin from what is given to what is recorded; the
\* branch for a copy that is not found cannot be taken.
LEMMA PinCollectAccounted == ASSUME Sound, Sound', Accounted, PinCollect PROVE Accounted'
<1> DEFINE e0 == Least(visit)
           s == Mine(e0)
<1>1. /\ epc = "collect" /\ elayer' = elayer
      /\ UNCHANGED <<needed, await, dir, queue, active, ledger>>
      /\ s # None => /\ visit' = visit \ {e0} /\ handle' = [handle EXCEPT ![e0] = s]
                     /\ UNCHANGED <<epc, missing, slot>>
  BY DEF PinCollect, actVars, Mine
<1>2. /\ e0 \in visit /\ e0 \in Experts /\ Given = visit /\ ~active.on /\ queue = None
      /\ visit \subseteq needed /\ Recorded = needed \ visit
  <2>1. e0 \in visit /\ e0 \in Experts
    BY NextVisited DEF PinCollect
  <2> QED
    BY <1>1, <2>1 DEF Accounted, CallSets, CallStage, Given
<1> HIDE DEF e0
<1>3. s # None /\ \A e : Mine(e)' = Mine(e)
  BY <1>1, <1>2 DEF Accounted, PinsPlaced, Mine, scan
<1>4. /\ handle'[e0] = s /\ \A e \in Experts : e # e0 => handle'[e] = handle[e]
  BY <1>1, <1>2, <1>3 DEF Sound, Typed, TypeOK
<1>5. Recorded' = Recorded \cup {e0} /\ Given' = visit \ {e0}
  BY <1>1, <1>2, <1>3, <1>4 DEF Recorded, Given
<1>6. CallSets' /\ CallStage' /\ LedgerExact'
  BY <1>1, <1>2, <1>3, <1>5 DEF Accounted, CallSets, CallStage, LedgerExact
<1>7. PinsPlaced'
  BY <1>2, <1>3, <1>4, <1>5 DEF Accounted, PinsPlaced, Recorded
<1>8. Recorded' \cup Given' = Recorded \cup Given
  BY <1>2, <1>5
<1>9. PinsExact'
  BY <1>1, <1>3, <1>8 DEF Accounted, PinsExact
<1> QED
  BY <1>6, <1>7, <1>9 DEF Accounted

\* Every step of pin_layer and of its caller keeps Accounted.
LEMMA AccountedExec == ASSUME Sound, Sound', Accounted, Exec PROVE Accounted'
<1> USE DEF actVars
<1>1. ASSUME NEW l \in Layers, NEW E \in SUBSET Experts, PinBegin(l, E) PROVE Accounted'
  <2>1. /\ epc = "idle" /\ epc' = "scan" /\ needed' = E /\ visit' = E
        /\ UNCHANGED <<missing, handle, await, slot, queue, active, ledger>>
    BY <1>1 DEF PinBegin
  <2>2. /\ Recorded = {} /\ missing = {} /\ Given = {} /\ ~active.on /\ queue = None
    BY <2>1 DEF Accounted, CallSets, CallStage, Given
  <2>3. Recorded' = {} /\ Given' = {}
    BY <2>1, <2>2 DEF Recorded, Given
  <2> QED
    BY <2>1, <2>2, <2>3
    DEF Accounted, CallSets, CallStage, LedgerExact, PinsPlaced, PinsExact
<1>2. CASE PinHit
  <2>1. /\ epc = "scan" /\ visit = {} /\ missing = {} /\ epc' = "compute"
        /\ UNCHANGED <<elayer, needed, missing, handle, await, slot, dir, queue, active, ledger>>
    BY <1>2 DEF PinHit
  <2>2. /\ Recorded = needed /\ Given = {} /\ ~active.on /\ queue = None
    BY <2>1 DEF Accounted, CallSets, CallStage, Given
  <2>3. Recorded' = Recorded /\ Given' = {} /\ \A e : Mine(e)' = Mine(e)
    BY <2>1, <2>2 DEF Recorded, Given, Mine, scan
  <2> QED
    BY <2>1, <2>2, <2>3
    DEF Accounted, CallSets, CallStage, LedgerExact, PinsPlaced, PinsExact
<1>3. CASE PinSubmit
  <2>1. /\ epc = "scan" /\ visit = {} /\ missing # {} /\ epc' = "wait"
        /\ queue' = [layer |-> elayer, needed |-> missing, target |-> Cardinality(missing)]
        /\ await' = [done |-> 0, failed |-> FALSE, target |-> Cardinality(missing)]
        /\ UNCHANGED <<elayer, needed, missing, handle, slot, dir, active, ledger>>
    BY <1>3 DEF PinSubmit
  <2>2. /\ missing \subseteq needed /\ Recorded = needed \ missing /\ Given = {}
        /\ ~active.on
    BY <2>1 DEF Accounted, CallSets, CallStage, Given
  <2>3. queue' # None
    <3>1. elayer \in Layers /\ missing \in SUBSET Experts /\ IsFiniteSet(missing)
      BY ConstantFacts, FS_Subset DEF Sound, Typed, TypeOK
    <3>2. Cardinality(missing) \in Nat
      BY <3>1, FS_CardinalityType
    <3>3. queue' \in Request
      BY <2>1, <3>1, <3>2 DEF Request
    <3> QED
      BY <3>3, EmptyAssumption
  <2>4. Recorded' = Recorded /\ Given' = {} /\ \A e : Mine(e)' = Mine(e)
    BY <2>1, <2>2, <2>3 DEF Recorded, Given, Mine, scan
  <2>5. CallSets' /\ CallStage'
    BY <2>1, <2>2, <2>4 DEF Accounted, CallSets, CallStage
  <2> QED
    BY <2>1, <2>2, <2>4, <2>5 DEF Accounted, LedgerExact, PinsPlaced, PinsExact
<1>4. CASE PinFailed
  <2>1. epc = "wait" /\ await.failed
    BY <1>4 DEF PinFailed
  <2>2. ~active.on /\ queue = None /\ Given = {}
    BY <2>1 DEF Accounted, CallStage, Given
  <2> QED
    BY <1>4, <2>2, CallEnds DEF PinFailed
<1>5. CASE PinWake
  <2>1. /\ epc = "wait" /\ await.done >= await.target /\ ~await.failed
        /\ epc' = "collect" /\ visit' = missing
        /\ UNCHANGED <<elayer, needed, missing, handle, await, slot, dir, queue, active, ledger>>
    BY <1>5 DEF PinWake
  <2>2. queue = None
    <3>1. SUFFICES ASSUME queue # None PROVE FALSE
      OBVIOUS
    <3>2. await.done = 0 /\ await.target = Cardinality(missing) /\ missing # {}
      BY <3>1 DEF Accounted, CallStage
    <3>3. IsFiniteSet(missing)
      BY ConstantFacts, FS_Subset DEF Sound, Typed, TypeOK
    <3>4. Cardinality(missing) \in Nat /\ Cardinality(missing) # 0
      BY <3>2, <3>3, FS_CardinalityType, FS_EmptySet
    <3> QED
      BY <2>1, <3>2, <3>4
  <2>3. ~active.on
    <3>1. SUFFICES ASSUME active.on PROVE FALSE
      OBVIOUS
    <3>2. active.left > 0 /\ await.done + active.left = await.target
      BY <3>1 DEF Accounted, CallStage
    <3>3. active.left \in Nat /\ await.done \in Nat /\ await.target \in Nat
      BY DEF Sound, Typed, TypeOK, Active
    <3> QED
      BY <2>1, <3>2, <3>3
  <2>4. /\ missing \subseteq needed /\ Recorded = needed \ missing /\ Given = missing
    BY <2>1, <2>2, <2>3 DEF Accounted, CallSets, Given
  <2>5. Recorded' = Recorded /\ Given' = missing /\ \A e : Mine(e)' = Mine(e)
    BY <2>1, <2>3 DEF Recorded, Given, Mine, scan
  <2> QED
    BY <2>1, <2>2, <2>3, <2>4, <2>5
    DEF Accounted, CallSets, CallStage, LedgerExact, PinsPlaced, PinsExact
<1>6. CASE PinReturn
  <2>1. /\ epc = "collect" /\ visit = {} /\ epc' = "compute"
        /\ UNCHANGED <<elayer, needed, visit, missing, handle, await, slot, dir, queue, active,
                       ledger>>
    BY <1>6 DEF PinReturn
  <2>2. Recorded = needed /\ Given = {} /\ ~active.on /\ queue = None
    BY <2>1 DEF Accounted, CallSets, CallStage, Given
  <2>3. Recorded' = Recorded /\ Given' = {} /\ \A e : Mine(e)' = Mine(e)
    BY <2>1, <2>2 DEF Recorded, Given, Mine, scan
  <2> QED
    BY <2>1, <2>2, <2>3
    DEF Accounted, CallSets, CallStage, LedgerExact, PinsPlaced, PinsExact
<1>7. CASE Unpin
  <2>1. ~active.on /\ queue = None /\ Given = {}
    BY <1>7 DEF Unpin, Accounted, CallStage, Given
  <2> QED
    BY <1>7, <2>1, CallEnds DEF Unpin
<1> QED
  BY <1>1, <1>2, <1>3, <1>4, <1>5, <1>6, <1>7, PinScanAccounted, PinCollectAccounted DEF Exec

-----------------------------------------------------------------------------
\* d is the directory without some copies nobody has pinned.
Dropped(d) ==
  \A p \in Pools, k \in Keys :
    \/ d[p][k] = dir[p][k]
    \/ d[p][k].st = "ABSENT" /\ slot[dir[p][k].slot].rc = 0

\* Clearing the entry of an unpinned copy drops it.
LEMMA DropOne ==
  ASSUME NEW d \in [Pools -> [Keys -> Entry]], Dropped(d), NEW p \in Pools, NEW v \in Keys,
         slot[dir[p][v].slot].rc = 0
  PROVE  Dropped(transition(d, p, v, "ABSENT", None))
<1> DEFINE c == transition(d, p, v, "ABSENT", None)
<1>1. /\ c[p][v] = [st |-> "ABSENT", slot |-> None]
      /\ \A q \in Pools, j \in Keys : p # q \/ v # j => c[q][j] = d[q][j]
  BY TransitionFacts
<1> HIDE DEF c
<1>2. ASSUME NEW q \in Pools, NEW j \in Keys
      PROVE  \/ c[q][j] = dir[q][j]
             \/ c[q][j].st = "ABSENT" /\ slot[dir[q][j].slot].rc = 0
  <2>1. CASE q = p /\ j = v
    BY <1>1, <2>1
  <2>2. CASE ~(q = p /\ j = v)
    <3>1. c[q][j] = d[q][j]
      BY <1>1, <2>2
    <3> QED
      BY <3>1 DEF Dropped
  <2> QED
    BY <2>1, <2>2
<1> QED
  BY <1>2 DEF Dropped, c

\* alloc_or_evict, for a load or a demotion, drops unpinned copies and
\* publishes a transfer: nothing of the current call is touched.
LEMMA TakeAccounted ==
  ASSUME Sound, Sound', Accounted, NEW d \in [Pools -> [Keys -> Entry]], Dropped(d),
         NEW p \in Pools, NEW k \in Keys, NEW st \in {"LOADING", "MOVING_IN"}, NEW s \in Slots,
         d[p][k].st = "ABSENT", dir' = transition(d, p, k, st, s),
         \A t \in Slots : slot'[t].rc = slot[t].rc,
         UNCHANGED <<execVars, await, queue, active, ledger>>
  PROVE  Accounted' /\ Effect
<1>1. /\ dir'[p][k] = [st |-> st, slot |-> s]
      /\ \A q \in Pools, j \in Keys : p # q \/ k # j => dir'[q][j] = d[q][j]
  BY TransitionFacts
<1>2. ASSUME NEW q \in Pools, NEW j \in Keys
      PROVE  /\ dir[q][j].st = "READY" /\ slot[dir[q][j].slot].rc > 0 => dir'[q][j] = dir[q][j]
             /\ dir'[q][j].st = "READY" => dir[q][j].st = "READY"
  <2>1. \/ d[q][j] = dir[q][j]
        \/ d[q][j].st = "ABSENT" /\ slot[dir[q][j].slot].rc = 0
    BY DEF Dropped
  <2>2. CASE q = p /\ j = k
    BY <1>1, <2>1, <2>2
  <2>3. CASE ~(q = p /\ j = k)
    <3>1. dir'[q][j] = d[q][j]
      BY <1>1, <2>3
    <3> QED
      BY <2>1, <3>1
  <2> QED
    BY <2>2, <2>3
<1>3. PinsStay /\ LandsOnly({})
  BY <1>2 DEF PinsStay, LandsOnly
<1> QED
  BY <1>3, Undisturbed

\* A free slot is not pinned, and taking it for the item disturbs no pin.
LEMMA FreeAccounted ==
  ASSUME Sound, Sound', Accounted, spc \in {"device", "ram"}, NEW p \in Pools, NEW s,
         AllocFree(p, s)
  PROVE  Accounted' /\ Effect
<1>1. /\ s \in Slots /\ slot[s].st = "EMPTY" /\ Item \in Keys /\ slot \in [Slots -> Word]
      /\ dir \in [Pools -> [Keys -> Entry]] /\ dir[p][Item].st = "ABSENT"
  BY ConstantFacts, ItemInKeys
  DEF AllocFree, EmptySlots, Sound, Typed, TypeOK, Residency, ItemAbsent
<1>2. slot[s].rc = 0
  BY <1>1 DEF Sound, Residency, Core, PinsReady, Word
<1>3. \A t \in Slots : slot'[t].rc = slot[t].rc
  BY <1>1, <1>2, ConstantWords DEF AllocFree
<1>4. Dropped(dir)
  BY DEF Dropped
<1> QED
  BY <1>1, <1>3, <1>4, TakeAccounted DEF AllocFree, actVars

\* A victim is not pinned, and evicting it for the item disturbs no pin.
LEMMA EvictAccounted ==
  ASSUME Sound, Sound', Accounted, spc \in {"device", "ram"}, NEW p \in Pools, NEW v,
         AllocEvict(p, v)
  PROVE  Accounted' /\ Effect
<1> DEFINE d == transition(dir, p, v, "ABSENT", None)
           s == dir[p][v].slot
<1>1. /\ v \in Keys /\ s \in Slots /\ slot[s].rc = 0 /\ dir[p][v].st = "READY"
      /\ Item \in Keys /\ slot \in [Slots -> Word]
      /\ dir \in [Pools -> [Keys -> Entry]] /\ dir[p][Item].st = "ABSENT"
      /\ dir' = transition(d, p, Item, "LOADING", s)
      /\ slot' = [slot EXCEPT ![s] = begin_reload]
  BY VictimFacts, ItemInKeys DEF AllocEvict, Sound, Typed, TypeOK, Residency, ItemAbsent
<1>2. /\ d \in [Pools -> [Keys -> Entry]]
      /\ \A q \in Pools, j \in Keys : p # q \/ v # j => d[q][j] = dir[q][j]
  <2>1. dir \in [Pools -> [Keys -> Entry]] /\ v \in Keys
    BY <1>1
  <2>2. d \in [Pools -> [Keys -> Entry]]
    BY <2>1, TransitionFacts
  <2>3. \A q \in Pools, j \in Keys : p # q \/ v # j => d[q][j] = dir[q][j]
    BY <2>1 DEF transition
  <2> QED
    BY <2>2, <2>3
<1>3. Dropped(d)
  <2>1. Dropped(dir)
    BY DEF Dropped
  <2> QED
    BY <1>1, <2>1, DropOne
<1>4. \A t \in Slots : slot'[t].rc = slot[t].rc
  BY <1>1, ConstantWords
<1> HIDE DEF d
<1>5. d[p][Item].st = "ABSENT"
  BY <1>1, <1>2
<1> QED
  BY <1>1, <1>2, <1>3, <1>4, <1>5, TakeAccounted DEF AllocEvict, actVars

\* A demotion, with a free or an evicted RAM slot t, disturbs no pin either.
LEMMA DemoteAccounted ==
  ASSUME Sound, Sound', Accounted, NEW v \in Victims(active.layer, "dev"), NEW t \in RamSlots,
         slot[t].rc = 0, NEW b \in [Pools -> [Keys -> Entry]], Dropped(b),
         dir' = transition(b, "ram", v, "MOVING_IN", t),
         slot' = [slot EXCEPT ![dir["dev"][v].slot] = begin_evict(@), ![t] = begin_reload],
         UNCHANGED <<execVars, await, queue, active, ledger>>
  PROVE  Accounted' /\ Effect
<1> DEFINE s == dir["dev"][v].slot
<1>1. /\ v \in Keys /\ s \in Slots /\ s \in DevSlots /\ slot[s].rc = 0 /\ t \in Slots /\ t # s
      /\ "ram" \in Pools /\ "dev" \in Pools /\ dir["dev"][v].st = "READY"
  BY VictimFacts, ConstantFacts, SlotAssumption DEF Pools, PoolSlots, Sound
<1>2. b["ram"][v].st = "ABSENT"
  <2>1. dir["ram"][v].st = "ABSENT"
    BY <1>1 DEF Sound, Residency, Core, OneCopyOneSlot
  <2> QED
    BY <1>1, <2>1 DEF Dropped
<1>3. \A u \in Slots : slot'[u].rc = slot[u].rc
  <2>1. slot[s] \in Word /\ slot \in [Slots -> Word]
    BY <1>1 DEF Sound, Typed, TypeOK
  <2> HIDE DEF s
  <2>2. slot' = [[slot EXCEPT ![s] = begin_evict(slot[s])] EXCEPT ![t] = begin_reload]
    BY <1>1 DEF s
  <2>3. begin_evict(slot[s]).rc = 0
    BY <1>1, <2>1, WordFacts
  <2> QED
    BY <1>1, <2>1, <2>2, <2>3, ConstantWords
<1> QED
  BY <1>1, <1>2, <1>3, TakeAccounted

\* Both ways to demote.
LEMMA DemotionsAccounted ==
  ASSUME Sound, Sound', Accounted, NEW v \in Keys,
         (\E t \in RamSlots : DemoteToFree(v, t)) \/ (\E w \in Keys : DemoteEvicting(v, w))
  PROVE  Accounted' /\ Effect
<1> DEFINE a == transition(dir, "dev", v, "ABSENT", None)
<1>1. /\ "ram" \in Pools /\ "dev" \in Pools /\ dir \in [Pools -> [Keys -> Entry]]
      /\ v \in Victims(active.layer, "dev")
  BY DEF DemoteToFree, DemoteEvicting, Sound, Typed, TypeOK, Pools
<1>2. a \in [Pools -> [Keys -> Entry]] /\ Dropped(a)
  <2>1. slot[dir["dev"][v].slot].rc = 0 /\ Dropped(dir)
    BY <1>1, VictimFacts DEF Dropped, Sound
  <2> QED
    BY <1>1, <2>1, DropOne, TransitionFacts
<1>3. ASSUME NEW t \in RamSlots, DemoteToFree(v, t) PROVE Accounted' /\ Effect
  <2>1. slot[t].rc = 0
    <3>1. slot[t].st = "EMPTY" /\ slot[t] \in Word /\ t \in Slots
      BY <1>3, ConstantFacts DEF DemoteToFree, EmptySlots, Sound, Typed, TypeOK
    <3> QED
      BY <3>1 DEF Sound, Residency, Core, PinsReady, Word
  <2> QED
    BY <1>1, <1>2, <1>3, <2>1, DemoteAccounted DEF DemoteToFree, actVars
<1>4. ASSUME NEW w \in Keys, DemoteEvicting(v, w) PROVE Accounted' /\ Effect
  <2> DEFINE b == transition(a, "ram", w, "ABSENT", None)
             t == dir["ram"][w].slot
  <2>1. t \in RamSlots /\ slot[t].rc = 0
    BY <1>1, <1>4, VictimFacts DEF DemoteEvicting, PoolSlots, Sound
  <2> HIDE DEF a
  <2>2. b \in [Pools -> [Keys -> Entry]] /\ Dropped(b)
    BY <1>1, <1>2, <2>1, DropOne, TransitionFacts
  <2>3. /\ dir' = transition(b, "ram", v, "MOVING_IN", t)
        /\ slot' = [slot EXCEPT ![dir["dev"][v].slot] = begin_evict(@), ![t] = begin_reload]
        /\ UNCHANGED <<execVars, await, queue, active, ledger>>
    BY <1>4 DEF DemoteEvicting, a, actVars
  <2> HIDE DEF b, t
  <2> QED
    BY <1>1, <2>1, <2>2, <2>3, DemoteAccounted
<1> QED
  BY <1>3, <1>4

\* The end of a transfer whose copy does not come: the load failed.
LEMMA FailedLoadAccounted ==
  ASSUME Sound, Sound', Accounted, NEW x \in Load,
         dir[PoolOf(x.slot)][x.key] = [st |-> "LOADING", slot |-> x.slot],
         SettleFailed(x), UNCHANGED <<execVars, queue>>
  PROVE  Accounted' /\ Effect
<1> DEFINE sl == [slot EXCEPT ![x.slot] = mark_failed(@)]
           p == PoolOf(x.slot)
<1>1. /\ x.slot \in Slots /\ x.key \in Keys /\ p \in Pools /\ slot \in [Slots -> Word]
      /\ dir \in [Pools -> [Keys -> Entry]] /\ dir[p][x.key].st = "LOADING"
  BY ConstantFacts DEF Load, Sound, Typed, TypeOK
<1>2. /\ dir' = transition(dir, p, x.key, "ABSENT", None)
      /\ IF IsActiveItem(x.key) THEN active_fail(sl)
         ELSE slot' = sl /\ UNCHANGED <<await, actVars>>
  BY DEF SettleFailed
<1>3. \A t \in Slots : sl[t] \in Word /\ sl[t].rc = slot[t].rc
  <2>1. mark_failed(slot[x.slot]) \in Word /\ mark_failed(slot[x.slot]).rc = slot[x.slot].rc
    BY <1>1, WordFacts
  <2> QED
    BY <1>1, <2>1
<1> HIDE DEF sl, p
<1>4. /\ dir'[p][x.key].st = "ABSENT"
      /\ \A q \in Pools, j \in Keys : p # q \/ x.key # j => dir'[q][j] = dir[q][j]
  <2>1. /\ dir'[p][x.key] = [st |-> "ABSENT", slot |-> None]
        /\ \A q \in Pools, j \in Keys : p # q \/ x.key # j => dir'[q][j] = dir[q][j]
    BY <1>1, <1>2, TransitionFacts
  <2> QED
    BY <2>1
<1>5. /\ PinsStay /\ LandsOnly({})
      /\ \A q \in Pools, j \in Keys : dir'[q][j].st = "READY" <=> dir[q][j].st = "READY"
  BY <1>1, <1>4 DEF PinsStay, LandsOnly
<1>6. CASE IsActiveItem(x.key)
  <2>1. active.on /\ active_fail(sl)
    BY <1>2, <1>6 DEF IsActiveItem
  <2> QED
    BY <1>3, <1>5, <2>1, FailStep
<1>7. CASE ~IsActiveItem(x.key)
  <2>1. slot' = sl /\ UNCHANGED <<await, active, ledger>>
    BY <1>2, <1>7 DEF actVars
  <2> QED
    BY <1>3, <1>5, <2>1, Undisturbed
<1> QED
  BY <1>6, <1>7

\* The end of a transfer into slot s: the copy of key k is READY there.
LEMMA LandedAccounted ==
  ASSUME Sound, Sound', Accounted, NEW p \in Pools, NEW k \in Keys, NEW s \in Slots,
         dir[p][k].st \in {"LOADING", "MOVING_IN"}, dir[p][k].slot = s,
         dir' = transition(dir, p, k, "READY", s),
         NEW sl \in [Slots -> Word], \A t \in Slots : sl[t].rc = slot[t].rc,
         sl[s].st = "READY", active_settle(k, s, sl), UNCHANGED <<execVars, queue>>
  PROVE  Accounted' /\ Effect
<1>1. slot[s].rc = 0
  <2>1. slot[s].st = "IO_INFLIGHT" /\ slot[s] \in Word
    BY DEF Sound, Typed, TypeOK, Residency, Core, ComingSlots
  <2> QED
    BY <2>1 DEF Sound, Residency, Core, PinsReady, Word
<1>2. /\ dir'[p][k].st = "READY" /\ dir'[p][k].slot = s
      /\ \A q \in Pools, j \in Keys : p # q \/ k # j => dir'[q][j] = dir[q][j]
  <2>1. dir \in [Pools -> [Keys -> Entry]]
    BY DEF Sound, Typed, TypeOK
  <2>2. /\ dir'[p][k] = [st |-> "READY", slot |-> s]
        /\ \A q \in Pools, j \in Keys : p # q \/ k # j => dir'[q][j] = dir[q][j]
    BY <2>1, TransitionFacts
  <2> QED
    BY <2>2
<1>3. PinsStay /\ LandsOnly({k})
  BY <1>2 DEF PinsStay, LandsOnly
<1>4. CASE IsActiveItem(k)
  BY <1>1, <1>2, <1>3, <1>4, SettledStep
<1>5. CASE ~IsActiveItem(k)
  <2>1. slot' = sl /\ UNCHANGED <<await, active, ledger>>
    BY <1>5 DEF active_settle, actVars
  <2>2. \A j \in {k} : ~IsActiveItem(j)
    BY <1>5
  <2> QED
    BY <1>3, <2>1, <2>2, Undisturbed
<1> QED
  BY <1>4, <1>5

\* drain_completions keeps Accounted.
LEMMA DrainAccounted ==
  ASSUME Sound, Sound', Accounted, NEW i \in Elems, NEW r \in {"ok", "error"},
         drain_completions(i, r)
  PROVE  Accounted' /\ Effect
<1> DEFINE x == Drained(load[i], r)
<1>1. /\ load[i] \in Load /\ load[i] # None
      /\ IF r = "ok" THEN load[i].ok > 0 ELSE load[i].bad > 0
  BY DEF drain_completions, Sound, Typed, LoadCount
<1>2. x \in Load /\ x.key = load[i].key /\ x.slot = load[i].slot
  BY <1>1, DrainedFacts
<1>3. /\ UNCHANGED <<execVars, queue>>
      /\ \/ UNCHANGED <<slot, dir, await, active, ledger>>
         \/ SettleFailed(x)
         \/ SettleLoaded(x)
  BY DEF drain_completions, actVars
<1> HIDE DEF x
<1>4. dir[PoolOf(x.slot)][x.key] = [st |-> "LOADING", slot |-> x.slot]
  BY <1>1, <1>2 DEF Sound, Residency, Core, LoadsPublished
<1>5. CASE UNCHANGED <<slot, dir, await, active, ledger>>
  <2>1. PinsStay /\ LandsOnly({})
    BY <1>5 DEF PinsStay, LandsOnly
  <2> QED
    BY <1>3, <1>5, <2>1, Undisturbed
<1>6. CASE SettleFailed(x)
  BY <1>2, <1>3, <1>4, <1>6, FailedLoadAccounted
<1>7. CASE SettleLoaded(x)
  <2> DEFINE sl == [slot EXCEPT ![x.slot] = mark_ready(@)]
  <2>1. /\ x.slot \in Slots /\ x.key \in Keys /\ PoolOf(x.slot) \in Pools
        /\ slot \in [Slots -> Word]
        /\ dir[PoolOf(x.slot)][x.key].st = "LOADING"
        /\ dir[PoolOf(x.slot)][x.key].slot = x.slot
    BY <1>2, <1>4, ConstantFacts DEF Load, Sound, Typed, TypeOK
  <2>2. slot[x.slot].st = "IO_INFLIGHT"
    BY <2>1 DEF Sound, Residency, Core, ComingSlots
  <2>3. /\ sl \in [Slots -> Word] /\ sl[x.slot].st = "READY"
        /\ \A t \in Slots : sl[t].rc = slot[t].rc
    BY <2>1, <2>2, WordFacts
  <2>4. /\ dir' = transition(dir, PoolOf(x.slot), x.key, "READY", x.slot)
        /\ active_settle(x.key, x.slot, sl)
    BY <1>7 DEF SettleLoaded
  <2> HIDE DEF sl
  <2> QED
    BY <1>3, <2>1, <2>3, <2>4, LandedAccounted
<1> QED
  BY <1>3, <1>5, <1>6, <1>7

\* drain_moves keeps Accounted.
LEMMA MovedAccounted ==
  ASSUME Sound, Sound', Accounted, NEW m \in movedone, drain_moves(m)
  PROVE  Accounted' /\ Effect
<1> DEFINE sl == [slot EXCEPT ![m.dst] = mark_ready(@), ![m.src] = release_to_empty]
<1>1. /\ m \in Moves /\ m.key \in Keys /\ m.dst \in RamSlots /\ m.dst \in Slots
      /\ m.src \in Slots /\ m.src # m.dst /\ "ram" \in Pools /\ slot \in [Slots -> Word]
  BY ConstantFacts, SlotAssumption DEF Sound, Typed, TypeOK, Moves, Move, Pools
<1>2. /\ dir["ram"][m.key] = [st |-> "MOVING_IN", slot |-> m.dst]
      /\ slot[m.src].st = "EVICTING"
  BY <1>1 DEF Sound, Residency, Core, MovesPublished
<1>3. dir["ram"][m.key].st = "MOVING_IN" /\ dir["ram"][m.key].slot = m.dst
  BY <1>2
<1>4. slot[m.dst].st = "IO_INFLIGHT" /\ slot[m.src].rc = 0
  <2>1. slot[m.src] \in Word
    BY <1>1
  <2> QED
    BY <1>1, <1>2, <1>3, <2>1 DEF Sound, Residency, Core, ComingSlots, PinsReady, Word
<1>5. /\ sl \in [Slots -> Word] /\ sl[m.dst].st = "READY"
      /\ \A t \in Slots : sl[t].rc = slot[t].rc
  <2>1. /\ sl \in [Slots -> Word] /\ sl[m.dst] = mark_ready(slot[m.dst])
        /\ sl[m.src] = release_to_empty
        /\ \A t \in Slots : t # m.dst /\ t # m.src => sl[t] = slot[t]
    BY <1>1, WordFacts, ConstantWords
  <2>2. mark_ready(slot[m.dst]).st = "READY" /\ mark_ready(slot[m.dst]).rc = slot[m.dst].rc
    BY <1>1, <1>4, WordFacts
  <2> HIDE DEF sl
  <2> QED
    BY <1>4, <2>1, <2>2, ConstantWords
<1>6. /\ active_settle(m.key, m.dst, sl)
      /\ dir' = transition(dir, "ram", m.key, "READY", m.dst)
      /\ UNCHANGED <<execVars, queue>>
  BY DEF drain_moves
<1> HIDE DEF sl
<1> QED
  BY <1>1, <1>3, <1>5, <1>6, LandedAccounted

\* Every step of worker_loop keeps Accounted.
LEMMA AccountedScheduler == ASSUME Sound, Sound', Accounted, Scheduler PROVE Accounted' /\ Effect
<1> USE DEF actVars, moveVars
<1>1. ASSUME UNCHANGED <<execVars, await, queue, slot, dir, active, ledger>> PROVE Accounted' /\ Effect
  <2>1. PinsStay /\ LandsOnly({})
    BY <1>1 DEF PinsStay, LandsOnly
  <2> QED
    BY <1>1, <2>1, Undisturbed
<1>2. CASE DrainEnd \/ AcceptActive \/ AcceptNothing \/ DeviceNone \/ RamNone \/ ServeEnd \/ MovesEnd
  BY <1>1, <1>2
  DEF DrainEnd, AcceptActive, AcceptNothing, DeviceNone, RamNone, ServeEnd, MovesEnd
<1>3. CASE active_register
  BY <1>3, RegisterAccounted
<1>4. CASE ServeItem
  <2> DEFINE e0 == Least(Todo)
             k == <<active.layer, e0>>
  <2>1. /\ e0 \in active.still /\ e0 \in Experts
    <3>1. Todo \subseteq Experts /\ Todo # {} /\ Todo \subseteq active.still
      BY <1>4 DEF ServeItem, Sound, Typed, TypeOK, Todo, Pass
    <3> QED
      BY <3>1, LeastInSet, ConstantFacts
  <2>2. active.on => scan(k) = None
    BY <2>1 DEF Accounted, CallStage, Mine
  <2>3. UNCHANGED <<execVars, dir, queue>>
    BY <1>4 DEF ServeItem
  <2>4. UNCHANGED <<slot, await, active, ledger>>
    <3>1. scan(k) # None => active_settle(k, scan(k), slot)
      BY <1>4 DEF ServeItem
    <3>2. scan(k) = None => UNCHANGED <<slot, await, actVars>>
      BY <1>4 DEF ServeItem
    <3> HIDE DEF k
    <3> QED
      BY <2>2, <3>1, <3>2 DEF active_settle, IsActiveItem
  <2> QED
    BY <1>1, <2>3, <2>4
<1>5. ASSUME NEW v \in Keys,
             (\E t \in RamSlots : DemoteToFree(v, t)) \/ (\E w \in Keys : DemoteEvicting(v, w))
      PROVE  Accounted' /\ Effect
  BY <1>5, DemotionsAccounted
<1>6. ASSUME NEW v \in Keys, DemoteDrop(v) PROVE Accounted' /\ Effect
  BY <1>6, EvictAccounted DEF DemoteDrop, Pools
<1>7. ASSUME NEW s \in DevSlots, DeviceFree(s) PROVE Accounted' /\ Effect
  BY <1>7, FreeAccounted DEF DeviceFree, Pools
<1>8. ASSUME NEW s \in RamSlots, RamFree(s) PROVE Accounted' /\ Effect
  BY <1>8, FreeAccounted DEF RamFree, Pools
<1>9. ASSUME NEW v \in Keys, RamEvict(v) PROVE Accounted' /\ Effect
  BY <1>9, EvictAccounted DEF RamEvict, Pools
<1>10. ASSUME NEW i \in Elems, NEW n \in 0 .. NSlices, start_async_load(i, n) PROVE Accounted' /\ Effect
  BY <1>1, <1>10 DEF start_async_load
<1>11. CASE LoadRefused
  <2> DEFINE p == PoolOf(pass.slot)
  <2>1. /\ pass.slot \in Slots /\ p \in Pools /\ Item \in Keys
        /\ dir \in [Pools -> [Keys -> Entry]]
    BY <1>11, ConstantFacts, ItemInKeys DEF LoadRefused, Sound, Typed, TypeOK, PassSlot
  <2>2. dir[p][Item] = [st |-> "LOADING", slot |-> pass.slot]
    BY <1>11 DEF LoadRefused, Sound, Residency, PassPublished
  <2>3. dir' = transition(dir, p, Item, "ABSENT", None)
    BY <1>11 DEF LoadRefused
  <2> HIDE DEF p
  <2>4. /\ dir'[p][Item] = [st |-> "ABSENT", slot |-> None]
        /\ \A q \in Pools, j \in Keys : p # q \/ Item # j => dir'[q][j] = dir[q][j]
    BY <2>1, <2>3, TransitionFacts
  <2>5. dir[p][Item].st = "LOADING" /\ dir'[p][Item].st = "ABSENT"
    BY <2>2, <2>4
  <2>6. PinsStay /\ LandsOnly({})
    BY <2>1, <2>4, <2>5 DEF PinsStay, LandsOnly
  <2> QED
    BY <1>11, <2>6, Undisturbed DEF LoadRefused
<1>12. CASE StallFail
  <2>1. active.on
    BY <1>12 DEF StallFail, Accounted, CallStage, NoActive
  <2>2. PinsStay /\ LandsOnly({}) /\ \A s \in Slots : slot[s] \in Word
    BY <1>12 DEF StallFail, PinsStay, LandsOnly, Sound, Typed, TypeOK
  <2> QED
    BY <1>12, <2>1, <2>2, FailStep DEF StallFail
<1>13. ASSUME NEW m \in movedone, drain_moves(m) PROVE Accounted' /\ Effect
  BY <1>13, MovedAccounted
<1>14. ASSUME NEW i \in Elems, NEW r \in {"ok", "error"}, drain_completions(i, r)
       PROVE  Accounted' /\ Effect
  BY <1>14, DrainAccounted
<1> QED
  BY <1>2, <1>3, <1>4, <1>5, <1>6, <1>7, <1>8, <1>9, <1>10, <1>11, <1>12, <1>13, <1>14
  DEF Scheduler

\* Every step of every thread keeps Accounted.
LEMMA AccountedStep == Sound /\ Sound' /\ Accounted /\ [Next]_vars => Accounted'
<1> SUFFICES ASSUME Sound, Sound', Accounted, [Next]_vars PROVE Accounted'
  OBVIOUS
<1>1. CASE Exec
  BY <1>1, AccountedExec
<1>2. CASE Scheduler
  BY <1>2, AccountedScheduler
<1>3. CASE StallClock \/ Dio \/ MoveWorker \/ UNCHANGED vars
  <2>1. UNCHANGED <<execVars, await, queue, slot, dir, active, ledger>>
    BY <1>3 DEF StallClock, Dio, DioComplete, MoveWorker, MoveCopy, vars, actVars
  <2>2. PinsStay /\ LandsOnly({})
    BY <2>1 DEF PinsStay, LandsOnly
  <2> QED
    BY <2>1, <2>2, Undisturbed
<1> QED
  BY <1>1, <1>2, <1>3 DEF Next

\* Nothing is pinned and no call has begun.
LEMMA AccountedInit == Init => Accounted
<1> SUFFICES ASSUME Init PROVE Accounted
  OBVIOUS
<1>1. Recorded = {} /\ Given = {}
  BY DEF Init, Recorded, Given, NoHandles, NoActive
<1> QED
  BY <1>1, ConstantWords
  DEF Init, Accounted, CallSets, CallStage, LedgerExact, PinsPlaced, PinsExact, NoActive,
      EmptyLedger

\* Sound holds in every reachable state.
LEMMA SoundInvariant == Spec => []Sound
  BY TypedInvariant, ResidencyInvariant, PTL DEF Sound

\* Who holds which pin, in every reachable state (pin_layer, active_register,
\* active_settle, active_fail and the final unpins).
THEOREM AccountedInvariant == Spec => []Accounted
  BY AccountedInit, AccountedStep, SoundInvariant, PTL DEF Spec

\* While a request is active, n_left items are still to settle, the wake
\* counter is short of its target by that number, and every other item is
\* READY and pinned once (active_register, active_settle).
THEOREM RequestsAccounted == Spec => []RequestAccounted
<1>1. Sound /\ Accounted => RequestAccounted
  <2> SUFFICES ASSUME Sound, Accounted, active.on PROVE RequestAccounted
    BY DEF RequestAccounted
  <2>1. epc = "wait"
    BY DEF Accounted, CallStage
  <2>2. \A e \in active.still : scan(<<elayer, e>>) = None
    BY DEF Accounted, CallStage, Mine
  <2>3. ASSUME NEW e \in missing \ active.still
        PROVE  scan(<<elayer, e>>) # None /\ ledger[scan(<<elayer, e>>)] = 1
    <3>1. Mine(e) \in Slots
      BY <2>3, PinnedFacts
    <3>2. ledger[Mine(e)] = 1
      BY <2>3, <3>1 DEF Accounted, LedgerExact
    <3> QED
      BY <3>1, <3>2, SlotAssumption DEF Mine
  <2> QED
    BY <2>1, <2>2, <2>3 DEF Accounted, CallStage, RequestAccounted
<1> QED
  BY <1>1, SoundInvariant, AccountedInvariant, PTL

\* A refcount counts the handles exec has recorded, the pins on the ledger and
\* the pins on their way from the one to the other, and nothing else: no pin
\* is leaked or lost (every pin and unpin of the scheduler and of pin_layer).
THEOREM RefcountsExact == Spec => []RefcountExact
<1>1. Sound /\ Accounted => RefcountExact
  <2> SUFFICES ASSUME Sound, Accounted, NEW s \in Slots
               PROVE  slot[s].rc = Handles(handle, s) + ledger[s]
                                   + (IF s \in Owed THEN 1 ELSE 0)
    BY DEF RefcountExact
  <2>1. Handles(handle, s) = IF \E e \in Recorded : Mine(e) = s THEN 1 ELSE 0
    BY HandlesOne DEF Accounted
  <2>2. ledger[s] + (IF s \in Owed THEN 1 ELSE 0)
          = IF \E e \in Given : Mine(e) = s THEN 1 ELSE 0
    <3>1. CASE active.on
      <4>1. Owed = {} /\ Given = missing \ active.still
        BY <3>1, PinnedFacts DEF Owed, Accounted, CallStage
      <4> QED
        BY <3>1, <4>1 DEF Accounted, LedgerExact
    <3>2. CASE ~active.on
      <4>1. Owed = {Mine(e) : e \in Given}
        BY <3>2 DEF Owed, Given, Mine
      <4>2. ledger[s] = 0
        BY <3>2 DEF Accounted, LedgerExact
      <4> QED
        BY <4>1, <4>2
    <3> QED
      BY <3>1, <3>2
  <2>3. slot[s].rc = IF \E e \in Recorded \cup Given : Mine(e) = s THEN 1 ELSE 0
    BY DEF Accounted, PinsExact
  <2>4. ASSUME NEW d \in Recorded, NEW e \in Given, Mine(d) = s, Mine(e) = s PROVE FALSE
    <3>1. d \in Experts /\ e \in Experts /\ Mine(d) # None
      BY <2>4, PinnedFacts, SlotAssumption
    <3>2. d = e
      BY <2>4, <3>1, MineFacts
    <3> QED
      BY <2>4, <3>2, HeldApartFacts DEF Accounted
  <2>5. ledger[s] \in Nat
    BY DEF Sound, Typed, TypeOK
  <2> HIDE DEF Sound, Accounted
  <2> QED
    BY <2>1, <2>2, <2>3, <2>4, <2>5
<1> QED
  BY <1>1, SoundInvariant, AccountedInvariant, PTL

\* While exec computes a layer, every expert of it has a handle, of a pinned
\* slot with the weights of that very expert (pin_layer returned TRUE).
THEOREM ComputesOnItsLayer == Spec => []ComputeHoldsLayer
<1>1. Sound /\ Accounted => ComputeHoldsLayer
  <2> SUFFICES ASSUME Sound, Accounted, epc = "compute", NEW e \in Experts
               PROVE  IF e \in needed
                      THEN /\ handle[e] # None /\ slot[handle[e]].st = "READY"
                           /\ slot[handle[e]].rc > 0 /\ content[handle[e]] = <<elayer, e>>
                      ELSE handle[e] = None
    BY DEF ComputeHoldsLayer
  <2>1. e \in needed <=> handle[e] # None
    BY DEF Accounted, CallSets, Recorded
  <2>2. ASSUME e \in needed
        PROVE  /\ slot[handle[e]].st = "READY" /\ slot[handle[e]].rc > 0
               /\ content[handle[e]] = <<elayer, e>>
    <3>1. e \in Recorded /\ handle[e] = Mine(e)
      BY <2>1, <2>2 DEF Accounted, PinsPlaced, Recorded
    <3>2. Mine(e) \in Slots /\ slot[Mine(e)].rc = 1 /\ <<elayer, e>> \in Keys
      BY <3>1, PinnedFacts
    <3>3. ScanExact /\ Mine(e) # None
      BY <3>2, ScanFacts, SlotAssumption
    <3>4. slot[Mine(e)].st = "READY" /\ content[Mine(e)] = <<elayer, e>>
      BY <3>2, <3>3 DEF ScanExact, Mine
    <3> QED
      BY <3>1, <3>2, <3>4
  <2> QED
    BY <2>1, <2>2
<1> QED
  BY <1>1, SoundInvariant, AccountedInvariant, PTL

-----------------------------------------------------------------------------
\* The experts of the call, as keys; and those held for it.
Want == {<<elayer, e>> : e \in needed}
HeldExact ==
  /\ Held = {<<elayer, e>> : e \in Recorded \cup Given}
  /\ Held \subseteq Want /\ Held \subseteq Resident /\ Resident \subseteq Keys /\ Want \subseteq Keys

\* PinService's held set is what is recorded or given.
LEMMA HeldFacts == Sound /\ Accounted => HeldExact
<1> SUFFICES ASSUME Sound, Accounted PROVE HeldExact
  OBVIOUS
<1>1. ScanExact
  BY ScanFacts
<1>2. ASSUME NEW k \in Held PROVE \E e \in Recorded \cup Given : k = <<elayer, e>>
  <2>1. k \in Keys /\ scan(k) # None /\ slot[scan(k)].rc > 0 /\ scan(k) \in Slots
    BY <1>1, <1>2 DEF Held, Resident, ScanExact
  <2>2. PICK e \in Recorded \cup Given : Mine(e) = scan(k)
    BY <2>1 DEF Accounted, PinsExact
  <2>3. <<elayer, e>> \in Keys
    BY PinnedFacts
  <2> QED
    BY <1>1, <2>1, <2>2, <2>3 DEF ScanExact, Mine
<1>3. ASSUME NEW e \in Recorded \cup Given PROVE <<elayer, e>> \in Held
  <2>1. <<elayer, e>> \in Keys /\ Mine(e) \in Slots /\ slot[Mine(e)].rc > 0
    BY PinnedFacts
  <2> QED
    BY <2>1, SlotAssumption DEF Held, Resident, Mine
<1>4. Recorded \cup Given \subseteq needed
  BY HeldApartFacts DEF Accounted
<1>5. Want \subseteq Keys
  BY ConstantFacts DEF Want, Sound, Typed, TypeOK
<1> QED
  BY <1>2, <1>3, <1>4, <1>5 DEF HeldExact, Want, Held, Resident

\* A scheduler step is a Cache, a Hold or a Refuse of PinService.
LEMMA SchedulerServes ==
  ASSUME HeldExact, HeldExact', Effect, UNCHANGED execVars,
         epc \in {"idle", "scan", "wait", "collect", "compute"}, await.failed \in BOOLEAN,
         await'.failed \in BOOLEAN
  PROVE  [Service!Next]_(Service!vars)
<1>1. Want' = Want /\ epc' = epc /\ Recorded' = Recorded /\ elayer' = elayer
  BY DEF Effect, Want, execVars
<1>2. CASE Given' = Given /\ await'.failed = await.failed
  <2>1. Phase' = Phase
    BY <1>1, <1>2 DEF Phase
  <2>2. Held' = Held
    BY <1>1, <1>2 DEF HeldExact
  <2>3. Resident' \in SUBSET Keys /\ Held \subseteq Resident'
    BY <2>2 DEF HeldExact
  <2>4. Service!Cache
    BY <1>1, <2>1, <2>2, <2>3 DEF Service!Cache, Want
  <2> QED
    BY <2>4 DEF Service!Next
<1>3. CASE epc = "wait" /\ ~await.failed /\ ~await'.failed /\ Given \subseteq Given'
  <2>1. Phase = "pending" /\ Phase' = "pending"
    BY <1>1, <1>3 DEF Phase
  <2>2. Held \subseteq Held' /\ Held' \subseteq Want /\ Held' \subseteq Resident'
        /\ Resident' \in SUBSET Keys
    BY <1>1, <1>3 DEF HeldExact
  <2>3. Service!Hold
    BY <1>1, <2>1, <2>2 DEF Service!Hold, Want
  <2> QED
    BY <2>3 DEF Service!Next
<1>4. CASE /\ epc = "wait" /\ ~await.failed /\ await'.failed
           /\ Given' = {} /\ Resident' = Resident
  <2>1. Phase = "pending" /\ Phase' = "refused"
    BY <1>1, <1>4 DEF Phase
  <2>2. Held' \subseteq Held
    BY <1>1, <1>4 DEF HeldExact
  <2>3. Service!Refuse
    BY <1>1, <1>4, <2>1, <2>2 DEF Service!Refuse, Want
  <2> QED
    BY <2>3 DEF Service!Next
<1> QED
  BY <1>2, <1>3, <1>4 DEF Effect

\* The environment and the workers hold and release nothing.
LEMMA WorkersServe ==
  ASSUME Sound, Sound', Accounted, Scheduler \/ StallClock \/ Dio \/ MoveWorker
  PROVE  Effect /\ UNCHANGED execVars
<1>1. CASE Scheduler
  <2>1. Effect
    BY <1>1, AccountedScheduler
  <2>2. UNCHANGED execVars
    BY <1>1 DEF Scheduler, drain_completions, DrainEnd, AcceptActive, active_register,
       AcceptNothing, ServeItem, DemoteToFree, DemoteEvicting, DemoteDrop, DeviceFree,
       DeviceNone, RamFree, RamEvict, RamNone, AllocFree, AllocEvict, start_async_load,
       LoadRefused, ServeEnd, StallFail, drain_moves, MovesEnd
  <2> QED
    BY <2>1, <2>2
<1>2. CASE StallClock \/ Dio \/ MoveWorker
  <2>1. UNCHANGED <<execVars, await, queue, slot, dir, active, ledger>>
    BY <1>2 DEF StallClock, Dio, DioComplete, MoveWorker, MoveCopy, actVars
  <2>2. PinsStay /\ LandsOnly({})
    BY <2>1 DEF PinsStay, LandsOnly
  <2> QED
    BY <2>1, <2>2, Undisturbed
<1> QED
  BY <1>1, <1>2

\* A step of pin_layer or of its caller is an Ask, a Hold, a Grant or a Return.
LEMMA ExecServes ==
  ASSUME Sound, Accounted, Accounted', HeldExact, HeldExact', Exec
  PROVE  [Service!Next]_(Service!vars)
<1>1. Resident' = Resident
  <2>1. dir' = dir
    BY DEF Exec, PinBegin, PinScan, PinHit, PinSubmit, PinFailed, PinWake, PinCollect,
           PinReturn, Unpin
  <2> QED
    BY <2>1 DEF Resident, scan
<1>2. ASSUME NEW l \in Layers, NEW E \in SUBSET Experts, PinBegin(l, E)
      PROVE  Service!Ask
  <2>1. Phase = "idle" /\ Phase' = "pending"
    BY <1>2 DEF PinBegin, Phase
  <2>2. Want' \in (SUBSET Keys) \ {{}}
    <3>1. needed' = E /\ E # {}
      BY <1>2 DEF PinBegin
    <3>2. Want' # {}
      BY <3>1 DEF Want
    <3> QED
      BY <3>2 DEF HeldExact
  <2>3. Held' = {} /\ Held = {}
    <3>1. Recorded = {} /\ Given = {} /\ ~active.on
      BY <1>2 DEF PinBegin, Accounted, CallSets, CallStage, Given
    <3>2. Recorded' = {} /\ Given' = {}
      BY <1>2, <3>1 DEF PinBegin, Recorded, Given, actVars
    <3> QED
      BY <3>1, <3>2 DEF HeldExact
  <2>4. Phase = "idle" /\ Phase' = "pending" /\ Resident' = Resident /\ Held' = Held
    BY <1>1, <2>1, <2>3
  <2> HIDE DEF Phase
  <2> QED
    BY <2>2, <2>4 DEF Service!Ask, Want
<1>3. ASSUME Phase = "pending", Phase' = "pending", UNCHANGED <<elayer, needed>>,
             Recorded \cup Given \subseteq Recorded' \cup Given'
      PROVE  Service!Hold
  <2>1. Want' = Want
    BY <1>3 DEF Want
  <2>2. /\ Held \subseteq Held' /\ Held' \subseteq Want /\ Held' \subseteq Resident'
        /\ Resident' \in SUBSET Keys
    BY <1>3, <2>1 DEF HeldExact
  <2> QED
    BY <1>3, <2>1, <2>2 DEF Service!Hold, Want
<1>4. ASSUME Phase = "pending", Phase' = "holding", UNCHANGED <<elayer, needed>>,
             Recorded = needed, Recorded' = needed
      PROVE  Service!Grant
  <2>1. Want' = Want
    BY <1>4 DEF Want
  <2>2. Held = Want /\ Held' = Want
    BY <1>4, <2>1 DEF HeldExact, Want
  <2> QED
    BY <1>1, <1>4, <2>1, <2>2 DEF Service!Grant, Want
<1>5. ASSUME Phase \in {"refused", "holding"}, Phase' = "idle", UNCHANGED <<elayer, needed>>,
             Recorded' \cup Given' = {}
      PROVE  Service!Return
  <2>1. Want' = Want
    BY <1>5 DEF Want
  <2>2. Held' = {}
    BY <1>5 DEF HeldExact
  <2> QED
    BY <1>1, <1>5, <2>1, <2>2 DEF Service!Return, Want
<1>6. CASE PinScan
  <2>1. /\ epc = "scan" /\ epc' = "scan" /\ UNCHANGED <<elayer, needed>>
        /\ ~active.on
    BY <1>6 DEF PinScan, Accounted, CallStage
  <2>2. Given = {} /\ Given' = {} /\ Recorded \subseteq Recorded'
    <3>1. Given = {} /\ Given' = {}
      BY <1>6, <2>1 DEF Given, PinScan, actVars
    <3>2. Recorded = needed \ (visit \cup missing)
      BY <2>1 DEF Accounted, CallSets
    <3>3. Recorded' = needed' \ (visit' \cup missing')
      BY <2>1 DEF Accounted, CallSets
    <3>4. visit' \cup missing' \subseteq visit \cup missing
      <4>1. Least(visit) \in visit
        BY <1>6, NextVisited DEF PinScan
      <4> QED
        BY <1>6, <4>1 DEF PinScan
    <3> QED
      BY <2>1, <3>1, <3>2, <3>3, <3>4
  <2>3. Phase = "pending" /\ Phase' = "pending"
    BY <2>1 DEF Phase
  <2> QED
    BY <1>3, <2>1, <2>2, <2>3 DEF Service!Next
<1>7. CASE PinHit
  <2>1. /\ epc = "scan" /\ epc' = "compute" /\ UNCHANGED <<elayer, needed, handle>>
        /\ visit = {} /\ missing = {}
    BY <1>7 DEF PinHit
  <2>2. Recorded = needed /\ Recorded' = needed
    BY <2>1 DEF Accounted, CallSets, Recorded
  <2>3. Phase = "pending" /\ Phase' = "holding"
    BY <2>1 DEF Phase
  <2> QED
    BY <1>4, <2>1, <2>2, <2>3 DEF Service!Next
<1>8. CASE PinSubmit
  <2>1. /\ epc = "scan" /\ epc' = "wait" /\ UNCHANGED <<elayer, needed, handle>>
        /\ ~active.on /\ await'.failed = FALSE
    BY <1>8 DEF PinSubmit, Accounted, CallStage
  <2>2. Given = {} /\ Recorded' = Recorded
    BY <2>1 DEF Given, Recorded
  <2>3. Phase = "pending" /\ Phase' = "pending"
    BY <2>1 DEF Phase
  <2> QED
    BY <1>3, <2>1, <2>2, <2>3 DEF Service!Next
<1>9. CASE PinFailed
  <2>1. /\ epc = "wait" /\ await.failed /\ epc' = "idle" /\ UNCHANGED <<elayer, needed>>
    BY <1>9 DEF PinFailed
  <2>2. Recorded' = {} /\ Given' = {}
    BY <2>1 DEF Accounted, CallSets, CallStage, Given
  <2>3. Phase = "refused" /\ Phase' = "idle"
    BY <2>1 DEF Phase
  <2> QED
    BY <1>5, <2>1, <2>2, <2>3 DEF Service!Next
<1>10. CASE PinWake
  <2>1. /\ epc = "wait" /\ ~await.failed /\ epc' = "collect" /\ visit' = missing
        /\ UNCHANGED <<elayer, needed, handle>> /\ active' = active
    BY <1>10 DEF PinWake, actVars
  <2>2. Recorded' = Recorded /\ Given' = missing /\ Given \subseteq missing
    <3>1. ~active.on
      BY <2>1 DEF Accounted, CallStage
    <3> QED
      BY <2>1, <3>1 DEF Recorded, Given
  <2>3. Phase = "pending" /\ Phase' = "pending"
    BY <2>1 DEF Phase
  <2> QED
    BY <1>3, <2>1, <2>2, <2>3 DEF Service!Next
<1>11. CASE PinCollect
  <2>1. /\ epc = "collect" /\ UNCHANGED <<elayer, needed>> /\ ~active.on
    BY <1>11 DEF PinCollect, Accounted, CallStage
  <2>2. Recorded = needed \ visit /\ visit \subseteq needed /\ Given = visit
    BY <2>1 DEF Accounted, CallSets, Given
  <2>3. epc' = "collect"
    <3>1. Least(visit) \in visit
      BY <1>11, NextVisited DEF PinCollect
    <3>2. scan(<<elayer, Least(visit)>>) # None
      BY <2>2, <3>1 DEF Accounted, PinsPlaced, Mine
    <3> QED
      BY <1>11, <2>1, <3>2 DEF PinCollect
  <2>4. Recorded' \cup Given' = needed
    <3>1. ~active'.on
      BY <2>3 DEF Accounted, CallStage
    <3> QED
      BY <2>1, <2>3, <3>1 DEF Accounted, CallSets, Given
  <2>5. Phase = "pending" /\ Phase' = "pending"
    BY <2>1, <2>3 DEF Phase
  <2> QED
    BY <1>3, <2>1, <2>2, <2>4, <2>5 DEF Service!Next
<1>12. CASE PinReturn
  <2>1. /\ epc = "collect" /\ epc' = "compute" /\ visit = {}
        /\ UNCHANGED <<elayer, needed, handle>>
    BY <1>12 DEF PinReturn
  <2>2. Recorded = needed /\ Recorded' = needed
    BY <2>1 DEF Accounted, CallSets, Recorded
  <2>3. Phase = "pending" /\ Phase' = "holding"
    BY <2>1 DEF Phase
  <2> QED
    BY <1>4, <2>1, <2>2, <2>3 DEF Service!Next
<1>13. CASE Unpin
  <2>1. /\ epc = "compute" /\ epc' = "idle" /\ UNCHANGED <<elayer, needed>>
    BY <1>13 DEF Unpin
  <2>2. Recorded' = {} /\ Given' = {}
    BY <2>1 DEF Accounted, CallSets, CallStage, Given
  <2>3. Phase = "holding" /\ Phase' = "idle"
    BY <2>1 DEF Phase
  <2> QED
    BY <1>5, <2>1, <2>2, <2>3 DEF Service!Next
<1> QED
  BY <1>2, <1>6, <1>7, <1>8, <1>9, <1>10, <1>11, <1>12, <1>13 DEF Exec, Service!Next

\* Every step of the scheduler, of exec and of the workers is a step of
\* PinService or leaves what it shows alone.
LEMMA StepServes ==
  Sound /\ Sound' /\ Accounted /\ Accounted' /\ [Next]_vars => [Service!Next]_(Service!vars)
<1> SUFFICES ASSUME Sound, Sound', Accounted, Accounted', [Next]_vars
             PROVE  [Service!Next]_(Service!vars)
  OBVIOUS
<1>1. HeldExact /\ HeldExact'
  BY HeldFacts, PTL
<1>2. CASE Exec
  BY <1>1, <1>2, ExecServes
<1>3. CASE Scheduler \/ StallClock \/ Dio \/ MoveWorker
  <2>1. Effect /\ UNCHANGED execVars
    BY <1>3, WorkersServe
  <2>2. /\ epc \in {"idle", "scan", "wait", "collect", "compute"}
        /\ await.failed \in BOOLEAN /\ await'.failed \in BOOLEAN
    BY DEF Sound, Typed, TypeOK
  <2> QED
    BY <1>1, <2>1, <2>2, SchedulerServes
<1>4. CASE UNCHANGED vars
  BY <1>4 DEF vars, execVars, Service!vars, Phase, Resident, Held, scan
<1> QED
  BY <1>2, <1>3, <1>4 DEF Next

\* expert_scheduler implements PinService: pin_layer returns with every expert
\* it was asked for resident and held until it is released, or with none.
THEOREM ImplementsPinService == Spec => PinServiceSpec
<1>1. Init => Service!Init
  <2> SUFFICES ASSUME Init PROVE Service!Init
    OBVIOUS
  <2>1. Resident = {} /\ Held = {}
    BY DEF Init, Resident, Held, scan, Absent, Pools
  <2> QED
    BY <2>1 DEF Init, Service!Init, Phase
<1> QED
  BY <1>1, StepServes, SoundInvariant, AccountedInvariant, PTL
  DEF Spec, PinServiceSpec, Service!Spec
=============================================================================
