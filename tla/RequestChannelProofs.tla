------------------------ MODULE RequestChannelProofs ------------------------
(***************************************************************************)
(* RequestChannel for every set of exec threads, every ring size and every *)
(* number of items: the properties of its run as theorems.                 *)
(*                                                                         *)
(* What makes the queue right is a relation between head_, tail_ and the   *)
(* generations of the cells (QueueInv).  The numbers head .. tail - 1 are  *)
(* claimed, at most Cap of them, so no two share a cell (ModCell).  A      *)
(* producer that has claimed a number and not yet published it holds it    *)
(* alone, and its cell does not carry that number's generation.  So when   *)
(* pop sees the generation it asks for, nobody holds the cell.             *)
(***************************************************************************)
EXTENDS RequestChannel, FiniteSetTheorems, TLAPS

Holding == {"write", "publish"}
Starting == {"head", "tail", "claim"}

\* The producers whose push has not claimed a number yet.
Pushers == {p \in Producers : prod[p].pc \in Starting}

\* The numbers claimed and not yet popped.
Waiting == head .. tail - 1

\* The ring never has more claims than cells.
RingBound == head <= tail /\ tail - head <= Cap

\* The head a producer has seen may be stale, never ahead; and it has found
\* room for the number it is about to claim.
HeadSeen ==
  \A p \in Producers :
    /\ prod[p].pc \in {"tail", "claim"} => prod[p].h <= head
    /\ prod[p].pc = "claim" => prod[p].t - prod[p].h < Cap

\* No generation is ahead of the claims.
SeqsBound == \A c \in Cells : seqs[c] <= tail

\* A number between claim and publish is held by one producer, and its cell
\* does not carry its generation.
HeldApart ==
  \A p \in Producers : prod[p].pc \in Holding =>
    /\ prod[p].t \in Waiting
    /\ seqs[prod[p].t % Cap] # prod[p].t + 1
    /\ \A r \in Producers : prod[r].pc \in Holding /\ prod[r].t = prod[p].t => r = p

\* What pop knows at each of its steps.
PopKnows ==
  /\ cons.pc \in {"tail", "seq", "read", "release"} => cons.h = head
  /\ cons.pc \in {"seq", "read", "release"} => head < tail
  /\ cons.pc \in {"read", "release"} => seqs[head % Cap] = head + 1
  /\ cons.pc = "release" => cons.req = ring[head % Cap]

\* A push carries a request of its own thread, and that thread is in the push.
PushOwn ==
  \A p \in Producers : prod[p].pc # "idle" =>
    prod[p].req \in Requests /\ Owner(prod[p].req) = p /\ waiter[p].pc = "pushing"

\* Every claimed number has its request: with its producer, or in its cell.
ClaimsFilled == \A n \in Waiting : Claimed(n) \in Requests

\* MaxPush is a bound of the model: no push is started that could pass it.
PushBound == tail + Cardinality(Pushers) <= MaxPush

QueueInv == /\ RingBound /\ HeadSeen /\ SeqsBound /\ HeldApart /\ PopKnows
            /\ PushOwn /\ ClaimsFilled /\ PushBound

-----------------------------------------------------------------------------
(* Where a number and its cell stand.                                      *)

\* Of Cap consecutive numbers no two share a cell.
LEMMA ModCell ==
  ASSUME NEW a \in Nat, NEW b \in Nat, a - b < Cap, b - a < Cap, a % Cap = b % Cap
  PROVE  a = b
<1> DEFINE k == a \div Cap - b \div Cap
<1>1. /\ a = Cap * (a \div Cap) + (a % Cap) /\ a \div Cap \in Int
      /\ b = Cap * (b \div Cap) + (b % Cap) /\ b \div Cap \in Int
      /\ a % Cap \in Int /\ b % Cap \in Int
  BY CapAssumption, SMT
<1>2. k \in Int /\ a - b = Cap * k
  BY <1>1, CapAssumption, SMT
<1>3. \A i \in Int : Cap * i < Cap /\ - (Cap * i) < Cap => i = 0
  BY CapAssumption, SMT
<1>4. k = 0
  <2>1. Cap * k < Cap /\ - (Cap * k) < Cap
    BY <1>2, CapAssumption, SMT
  <2> QED BY <2>1, <1>2, <1>3
<1> QED BY <1>2, <1>4, CapAssumption, SMT

\* Every number has a cell.
LEMMA CellOf == ASSUME NEW a \in Nat PROVE a % Cap \in Cells
  BY CapAssumption, SMT DEF Cells

\* Two waiting numbers in one cell are one number.
LEMMA WaitingCell ==
  ASSUME TypeOK, RingBound, NEW a \in Waiting, NEW b \in Waiting, a % Cap = b % Cap
  PROVE  a = b
<1>1. a \in Nat /\ b \in Nat /\ a - b < Cap /\ b - a < Cap
  BY CapAssumption DEF TypeOK, RingBound, Waiting
<1> QED BY <1>1, ModCell

\* The next number to claim shares no cell with a waiting one while the ring
\* has room.
LEMMA ClaimCell ==
  ASSUME TypeOK, RingBound, tail - head < Cap, NEW a \in Waiting
  PROVE  a % Cap # tail % Cap
<1>1. a \in Nat /\ tail \in Nat /\ a - tail < Cap /\ tail - a < Cap /\ a # tail
  BY CapAssumption DEF TypeOK, RingBound, Waiting
<1> QED BY <1>1, ModCell

\* Claimed, without its CHOOSE: a number held at "write" is with its producer,
\* any other is in its cell.
ClaimedIs ==
  /\ \A p \in Producers : At(p, "write") => Claimed(prod[p].t) = prod[p].req
  /\ \A n \in Nat : Claimed(n) = ring[n % Cap]
                     \/ \E p \in Producers : At(p, "write") /\ prod[p].t = n

\* Claimed is what ClaimedIs says, since no two producers hold one number.
LEMMA ClaimedFacts == HeldApart => ClaimedIs
<1> SUFFICES ASSUME HeldApart PROVE ClaimedIs
  OBVIOUS
<1>1. ASSUME NEW p \in Producers, At(p, "write")
      PROVE  Claimed(prod[p].t) = prod[p].req
  <2> DEFINE w == CHOOSE r \in Producers : At(r, "write") /\ prod[r].t = prod[p].t
  <2>1. w \in Producers /\ At(w, "write") /\ prod[w].t = prod[p].t
    BY <1>1
  <2>2. w = p
    BY <1>1, <2>1 DEF HeldApart, At, Holding
  <2> QED BY <1>1, <2>1, <2>2 DEF Claimed
<1>2. ASSUME NEW n \in Nat, ~ \E p \in Producers : At(p, "write") /\ prod[p].t = n
      PROVE  Claimed(n) = ring[n % Cap]
  BY <1>2 DEF Claimed
<1> QED BY <1>1, <1>2 DEF ClaimedIs

\* The same in the next state.
LEMMA ClaimedNext == HeldApart' => ClaimedIs'
BY ClaimedFacts, PTL

-----------------------------------------------------------------------------
(* What a step does to the queue.                                          *)

\* No number changes hands or content.
SameQueue == head' = head /\ tail' = tail /\ \A n \in Waiting : Claimed(n)' = Claimed(n)

\* Producer p claims the next number.
ClaimBy(p) ==
  /\ tail' = tail + 1 /\ head' = head /\ tail - head < Cap
  /\ \A n \in {tail} : Claimed(n)' = prod[p].req
  /\ \A n \in Waiting : Claimed(n)' = Claimed(n)

\* The oldest number leaves with its request.
Popped ==
  /\ head < tail /\ head' = head + 1 /\ tail' = tail /\ out' = Claimed(head)
  /\ \A n \in Waiting : Claimed(n)' = Claimed(n)

\* A step that leaves the payloads and the producers at "write" alone.
LEMMA ClaimedSame ==
  ASSUME HeldApart, HeldApart', ring' = ring,
         \A p \in Producers : At(p, "write")' <=> At(p, "write"),
         \A p \in Producers : At(p, "write") =>
           prod'[p].t = prod[p].t /\ prod'[p].req = prod[p].req
  PROVE  \A n \in Nat : Claimed(n)' = Claimed(n)
<1> SUFFICES ASSUME NEW n \in Nat PROVE Claimed(n)' = Claimed(n)
  OBVIOUS
<1>1. ClaimedIs /\ ClaimedIs'
  BY ClaimedFacts, ClaimedNext
<1>2. CASE \E p \in Producers : At(p, "write") /\ prod[p].t = n
  BY <1>1, <1>2 DEF ClaimedIs
<1>3. CASE ~ \E p \in Producers : At(p, "write") /\ prod[p].t = n
  <2>1. ~ \E p \in Producers : At(p, "write")' /\ prod'[p].t = n
    BY <1>3
  <2>2. Claimed(n) = ring[n % Cap] /\ Claimed(n)' = ring'[n % Cap]
    BY <1>1, <1>3, <2>1 DEF ClaimedIs
  <2> QED BY <2>2
<1> QED BY <1>2, <1>3

\* A waiting number that nobody is writing is in its cell.
LEMMA StoredWaiting ==
  ASSUME TypeOK, HeldApart, NEW n \in Waiting, seqs[n % Cap] = n + 1
  PROVE  Claimed(n) = ring[n % Cap]
<1>1. n \in Nat
  BY DEF TypeOK, Waiting
<1>2. ~ \E p \in Producers : At(p, "write") /\ prod[p].t = n
  BY <1>1 DEF HeldApart, At, Holding
<1> QED BY <1>1, <1>2, ClaimedFacts DEF ClaimedIs

\* The pushers are as finitely many as the threads.
LEMMA PushersFinite == IsFiniteSet(Pushers) /\ Cardinality(Pushers) \in Nat
BY PushAssumption, FS_Subset, FS_CardinalityType DEF Pushers

\* A push begins: the bound on pushes takes it in.
LEMMA StartStep ==
  ASSUME TypeOK, QueueInv, NEW t \in Threads, NEW r \in Requests, PushStart(t, r),
         Owner(r) = t, waiter'[t].pc = "pushing",
         \A p \in Threads \ {t} : waiter'[p] = waiter[p]
  PROVE  QueueInv' /\ SameQueue
<1> USE ChannelAssumption
<1>1. UNCHANGED <<head, tail, ring, seqs, cons, out>> /\ prod[t].pc = "idle"
  BY DEF PushStart, At
<1>2. \A p \in Producers : /\ prod'[p].pc = IF p = t THEN "head" ELSE prod[p].pc
                           /\ prod'[p].req = IF p = t THEN r ELSE prod[p].req
                           /\ prod'[p].t = prod[p].t /\ prod'[p].h = prod[p].h
  BY DEF PushStart, TypeOK
<1>3. RingBound' /\ HeadSeen' /\ SeqsBound' /\ HeldApart' /\ PopKnows'
  BY <1>1, <1>2 DEF QueueInv, RingBound, HeadSeen, SeqsBound, HeldApart, PopKnows, Waiting,
                    Holding, Cells
<1>4. \A n \in Nat : Claimed(n)' = Claimed(n)
  BY <1>1, <1>2, <1>3, ClaimedSame DEF QueueInv, At
<1>5. SameQueue
  BY <1>1, <1>4 DEF SameQueue, Waiting, TypeOK
<1>6. PushOwn'
  BY <1>1, <1>2 DEF QueueInv, PushOwn
<1>7. ClaimsFilled'
  BY <1>5 DEF QueueInv, ClaimsFilled, SameQueue, Waiting
<1>8. PushBound'
  <2>1. Pushers' = Pushers \cup {t} /\ t \notin Pushers
    BY <1>1, <1>2 DEF Pushers, Starting
  <2>2. Cardinality(Pushers') = Cardinality(Pushers) + 1
    BY <2>1, PushersFinite, FS_AddElement
  <2>3. tail + Cardinality(Pushers) < MaxPush
    BY DEF PushStart, Pushers, Starting
  <2> QED BY <1>1, <2>2, <2>3, PushersFinite, PushAssumption DEF PushBound, TypeOK
<1> QED BY <1>3, <1>5, <1>6, <1>7, <1>8 DEF QueueInv

\* push looks at head_ and tail_ : it may find room, or start again.
LEMMA LookStep ==
  ASSUME TypeOK, QueueInv, NEW t \in Threads, PushHead(t) \/ PushTail(t), waiter' = waiter
  PROVE  QueueInv' /\ SameQueue
<1> USE ChannelAssumption
<1>1. /\ UNCHANGED <<head, tail, ring, seqs, cons, out>>
      /\ prod[t].pc \in {"head", "tail"} /\ prod'[t].pc \in Starting
      /\ prod'[t].req = prod[t].req
      /\ \A p \in Producers \ {t} : prod'[p] = prod[p]
  BY DEF PushHead, PushTail, TypeOK, At, Starting
<1>2. \/ prod'[t].pc \notin {"tail", "claim"}
      \/ prod'[t].pc = "tail" /\ prod'[t].h = head
      \/ /\ prod'[t].pc = "claim" /\ prod'[t].h = prod[t].h /\ prod[t].pc = "tail"
         /\ prod'[t].t = tail /\ tail - prod[t].h < Cap
  BY CapAssumption DEF PushHead, PushTail, TypeOK, At
<1>3. RingBound' /\ SeqsBound' /\ PopKnows'
  BY <1>1 DEF QueueInv, RingBound, SeqsBound, PopKnows, Cells
<1>4. HeadSeen'
  <2> SUFFICES ASSUME NEW p \in Producers, prod'[p].pc \in {"tail", "claim"}
               PROVE  prod'[p].h <= head /\ (prod'[p].pc = "claim" => prod'[p].t - prod'[p].h < Cap)
    BY <1>1 DEF HeadSeen
  <2> HIDE DEF HeadSeen
  <2>1. CASE p = t
    BY <2>1, <1>1, <1>2 DEF QueueInv, HeadSeen, TypeOK
  <2>2. CASE p # t
    BY <2>2, <1>1 DEF QueueInv, HeadSeen
  <2> QED BY <2>1, <2>2
<1>5. HeldApart'
  BY <1>1 DEF QueueInv, HeldApart, Waiting, Holding, Starting
<1>6. \A n \in Nat : Claimed(n)' = Claimed(n)
  <2>1. \A p \in Producers : At(p, "write")' <=> At(p, "write")
    BY <1>1 DEF At, Starting
  <2>2. \A p \in Producers : At(p, "write") =>
          prod'[p].t = prod[p].t /\ prod'[p].req = prod[p].req
    BY <1>1 DEF At
  <2> QED BY <1>1, <1>5, <2>1, <2>2, ClaimedSame DEF QueueInv
<1>7. SameQueue
  BY <1>1, <1>6 DEF SameQueue, Waiting, TypeOK
<1>8. PushOwn'
  BY <1>1 DEF QueueInv, PushOwn
<1>9. ClaimsFilled'
  BY <1>7 DEF QueueInv, ClaimsFilled, SameQueue, Waiting
<1>10. PushBound'
  <2>1. Pushers' = Pushers
    BY <1>1 DEF Pushers, Starting
  <2> QED BY <1>1, <2>1 DEF QueueInv, PushBound
<1> QED BY <1>3, <1>4, <1>5, <1>7, <1>8, <1>9, <1>10 DEF QueueInv

\* The exchange on tail_ : the next number is this producer's, or the push
\* starts again.
LEMMA ClaimStep ==
  ASSUME TypeOK, QueueInv, NEW t \in Threads, PushClaim(t), waiter' = waiter
  PROVE  QueueInv' /\ (SameQueue \/ ClaimBy(t))
<1> USE ChannelAssumption
<1>1. /\ UNCHANGED <<head, ring, seqs, cons, out>>
      /\ prod[t].pc = "claim"
      /\ prod'[t].req = prod[t].req /\ prod'[t].h = prod[t].h /\ prod'[t].t = prod[t].t
      /\ \A p \in Producers \ {t} : prod'[p] = prod[p]
  BY DEF PushClaim, TypeOK, At
<1>2. \A p \in Producers : prod[p].t \in Nat /\ prod[p].h \in Nat
  BY DEF TypeOK
<1>3. CASE tail = prod[t].t
  <2>1. tail' = tail + 1 /\ prod'[t].pc = "write"
    BY <1>3 DEF PushClaim, TypeOK
  <2>2. tail \in Nat /\ head \in Nat /\ tail - head < Cap /\ head <= tail
    BY <1>1, <1>2, <1>3, CapAssumption DEF QueueInv, HeadSeen, RingBound, TypeOK
  <2>3. RingBound'
    BY <1>1, <2>1, <2>2, CapAssumption DEF RingBound
  <2>4. HeadSeen'
    BY <1>1, <2>1 DEF QueueInv, HeadSeen
  <2>5. SeqsBound'
    BY <1>1, <2>1, <2>2 DEF QueueInv, SeqsBound, TypeOK, Cells
  <2>6. PopKnows'
    BY <1>1, <2>1, <2>2 DEF QueueInv, PopKnows
  <2>7. Waiting' = Waiting \cup {tail} /\ tail \notin Waiting
    BY <1>1, <2>1, <2>2 DEF Waiting
  <2>8. HeldApart'
    <3>1. seqs[tail % Cap] # tail + 1
      BY <2>2, CellOf DEF QueueInv, SeqsBound, TypeOK
    <3>2. \A p \in Producers \ {t} : prod[p].pc \in Holding => prod[p].t # tail
      BY <2>7 DEF QueueInv, HeldApart
    <3> QED BY <1>1, <1>3, <2>1, <2>7, <3>1, <3>2 DEF QueueInv, HeldApart, Holding
  <2>9. \A n \in {tail} : Claimed(n)' = prod[t].req
    BY <1>1, <1>3, <2>1, <2>8, ClaimedNext DEF ClaimedIs, At
  <2>10. \A n \in Waiting : Claimed(n)' = Claimed(n)
    <3> SUFFICES ASSUME NEW n \in Waiting PROVE Claimed(n)' = Claimed(n)
      OBVIOUS
    <3>1. n \in Nat /\ n # tail /\ ClaimedIs /\ ClaimedIs'
      BY <2>2, <2>7, <2>8, ClaimedFacts, ClaimedNext DEF QueueInv, Waiting
    <3>2. CASE \E p \in Producers : At(p, "write") /\ prod[p].t = n
      <4>1. PICK p \in Producers : At(p, "write") /\ prod[p].t = n
        BY <3>2
      <4>2. p # t /\ At(p, "write")' /\ prod'[p] = prod[p]
        BY <4>1, <1>1 DEF At
      <4> QED BY <4>1, <4>2, <3>1 DEF ClaimedIs
    <3>3. CASE ~ \E p \in Producers : At(p, "write") /\ prod[p].t = n
      <4>1. ~ \E p \in Producers : At(p, "write")' /\ prod'[p].t = n
        BY <3>1, <3>3, <1>1, <1>3 DEF At
      <4>2. Claimed(n) = ring[n % Cap] /\ Claimed(n)' = ring'[n % Cap]
        BY <3>1, <3>3, <4>1 DEF ClaimedIs
      <4> QED BY <4>2, <1>1
    <3> QED BY <3>2, <3>3
  <2>11. PushOwn'
    BY <1>1, <2>1 DEF QueueInv, PushOwn
  <2>12. ClaimsFilled'
    BY <1>1, <2>7, <2>9, <2>10 DEF QueueInv, ClaimsFilled, PushOwn
  <2>13. PushBound'
    <3>1. Pushers' = Pushers \ {t} /\ t \in Pushers
      BY <1>1, <2>1 DEF Pushers, Starting
    <3>2. Cardinality(Pushers') = Cardinality(Pushers) - 1
      BY <3>1, PushersFinite, FS_RemoveElement
    <3> QED BY <2>1, <2>2, <3>2, PushersFinite, PushAssumption DEF QueueInv, PushBound
  <2>14. ClaimBy(t)
    BY <1>1, <2>1, <2>2, <2>9, <2>10 DEF ClaimBy
  <2> QED BY <2>3, <2>4, <2>5, <2>6, <2>8, <2>11, <2>12, <2>13, <2>14 DEF QueueInv
<1>4. CASE tail # prod[t].t
  <2>1. tail' = tail /\ prod'[t].pc = "head"
    BY <1>4 DEF PushClaim, TypeOK
  <2>2. RingBound' /\ SeqsBound' /\ PopKnows' /\ HeadSeen'
    BY <1>1, <2>1 DEF QueueInv, RingBound, SeqsBound, PopKnows, HeadSeen, Cells
  <2>3. HeldApart'
    BY <1>1, <2>1 DEF QueueInv, HeldApart, Waiting, Holding
  <2>4. \A n \in Nat : Claimed(n)' = Claimed(n)
    <3>1. \A p \in Producers : At(p, "write")' <=> At(p, "write")
      BY <1>1, <2>1 DEF At
    <3>2. \A p \in Producers : At(p, "write") =>
            prod'[p].t = prod[p].t /\ prod'[p].req = prod[p].req
      BY <1>1 DEF At
    <3> QED BY <1>1, <2>3, <3>1, <3>2, ClaimedSame DEF QueueInv
  <2>5. SameQueue
    BY <1>1, <2>1, <2>4 DEF SameQueue, Waiting, TypeOK
  <2>6. PushOwn'
    BY <1>1 DEF QueueInv, PushOwn
  <2>7. ClaimsFilled'
    BY <2>5 DEF QueueInv, ClaimsFilled, SameQueue, Waiting
  <2>8. PushBound'
    <3>1. Pushers' = Pushers
      BY <1>1, <2>1 DEF Pushers, Starting
    <3> QED BY <2>1, <3>1 DEF QueueInv, PushBound
  <2> QED BY <2>2, <2>3, <2>5, <2>6, <2>7, <2>8 DEF QueueInv
<1> QED BY <1>3, <1>4

\* The payload is written: the number's request moves from the producer to
\* its cell.
LEMMA WriteStep ==
  ASSUME TypeOK, QueueInv, NEW t \in Threads, PushWrite(t), waiter' = waiter
  PROVE  QueueInv' /\ SameQueue
<1> USE ChannelAssumption
<1> DEFINE c == prod[t].t % Cap
<1>1. /\ UNCHANGED <<head, tail, seqs, cons, out>>
      /\ prod[t].pc = "write" /\ prod'[t].pc = "publish"
      /\ prod'[t].req = prod[t].req /\ prod'[t].h = prod[t].h /\ prod'[t].t = prod[t].t
      /\ \A p \in Producers \ {t} : prod'[p] = prod[p]
  BY DEF PushWrite, TypeOK, At
<1>2. /\ prod[t].t \in Waiting /\ prod[t].t \in Nat /\ c \in Cells
      /\ seqs[c] # prod[t].t + 1 /\ head \in Nat
      /\ \A p \in Producers \ {t} : At(p, "write") => prod[p].t # prod[t].t
  BY <1>1, CellOf DEF QueueInv, HeldApart, Holding, TypeOK, At
<1>3. ring'[c] = prod[t].req /\ \A d \in Cells \ {c} : ring'[d] = ring[d]
  BY <1>2 DEF PushWrite, TypeOK
<1>4. RingBound' /\ HeadSeen' /\ SeqsBound' /\ HeldApart'
  BY <1>1 DEF QueueInv, RingBound, HeadSeen, SeqsBound, HeldApart, Waiting, Holding, Cells
<1>5. PopKnows'
  <2>1. cons.pc = "release" => head % Cap # c
    <3> SUFFICES ASSUME cons.pc = "release", head % Cap = c PROVE FALSE
      OBVIOUS
    <3>1. head \in Waiting /\ seqs[head % Cap] = head + 1
      BY <1>2 DEF QueueInv, PopKnows, Waiting, TypeOK
    <3>2. head = prod[t].t
      BY <1>2, <3>1, WaitingCell DEF QueueInv
    <3> QED BY <1>2, <3>1, <3>2
  <2>2. head % Cap \in Cells
    BY <1>2, CellOf
  <2> QED BY <1>1, <1>3, <2>1, <2>2 DEF QueueInv, PopKnows
<1>6. \A n \in Waiting : Claimed(n)' = Claimed(n)
  <2> SUFFICES ASSUME NEW n \in Waiting PROVE Claimed(n)' = Claimed(n)
    OBVIOUS
  <2>1. ClaimedIs /\ ClaimedIs' /\ n \in Nat /\ n % Cap \in Cells
    BY <1>4, ClaimedFacts, ClaimedNext, CellOf DEF QueueInv, Waiting, TypeOK
  <2>2. CASE n = prod[t].t
    <3>1. ~ \E p \in Producers : At(p, "write")' /\ prod'[p].t = n
      BY <1>1, <1>2, <2>2 DEF At
    <3>2. Claimed(n)' = ring'[n % Cap]
      BY <2>1, <3>1 DEF ClaimedIs
    <3>3. Claimed(n) = prod[t].req
      BY <1>1, <2>1, <2>2 DEF ClaimedIs, At
    <3> QED BY <1>3, <2>2, <3>2, <3>3
  <2>3. CASE n # prod[t].t /\ \E p \in Producers : At(p, "write") /\ prod[p].t = n
    <3>1. PICK p \in Producers : At(p, "write") /\ prod[p].t = n
      BY <2>3
    <3>2. At(p, "write")' /\ prod'[p] = prod[p]
      BY <1>1, <2>3, <3>1 DEF At
    <3> QED BY <2>1, <3>1, <3>2 DEF ClaimedIs
  <2>4. CASE n # prod[t].t /\ ~ \E p \in Producers : At(p, "write") /\ prod[p].t = n
    <3>1. ~ \E p \in Producers : At(p, "write")' /\ prod'[p].t = n
      BY <1>1, <2>4 DEF At
    <3>2. Claimed(n) = ring[n % Cap] /\ Claimed(n)' = ring'[n % Cap]
      BY <2>1, <2>4, <3>1 DEF ClaimedIs
    <3>3. n % Cap # c
      BY <1>2, <2>4, WaitingCell DEF QueueInv
    <3> QED BY <1>3, <2>1, <3>2, <3>3
  <2> QED BY <2>2, <2>3, <2>4
<1>7. SameQueue
  BY <1>1, <1>6 DEF SameQueue
<1>8. PushOwn'
  BY <1>1 DEF QueueInv, PushOwn
<1>9. ClaimsFilled'
  BY <1>7 DEF QueueInv, ClaimsFilled, SameQueue, Waiting
<1>10. PushBound'
  <2>1. Pushers' = Pushers
    BY <1>1 DEF Pushers, Starting
  <2> QED BY <1>1, <2>1 DEF QueueInv, PushBound
<1> QED BY <1>4, <1>5, <1>7, <1>8, <1>9, <1>10 DEF QueueInv

\* The cell is published: it carries the number's generation, and nobody holds
\* the number any more.
LEMMA PublishStep ==
  ASSUME TypeOK, QueueInv, NEW t \in Threads, PushPublish(t), waiter' = waiter
  PROVE  QueueInv' /\ SameQueue
<1> USE ChannelAssumption
<1> DEFINE c == prod[t].t % Cap
<1>1. /\ UNCHANGED <<head, tail, ring, cons, out>>
      /\ prod[t].pc = "publish" /\ prod'[t].pc = "idle"
      /\ \A p \in Producers \ {t} : prod'[p] = prod[p]
  BY DEF PushPublish, TypeOK, At
<1>2. /\ prod[t].t \in Waiting /\ prod[t].t \in Nat /\ c \in Cells
      /\ seqs[c] # prod[t].t + 1 /\ head \in Nat /\ tail \in Nat
      /\ \A p \in Producers \ {t} : prod[p].pc \in Holding => prod[p].t # prod[t].t
  BY <1>1, CellOf DEF QueueInv, HeldApart, Holding, TypeOK
<1>3. seqs'[c] = prod[t].t + 1 /\ \A d \in Cells \ {c} : seqs'[d] = seqs[d]
  BY <1>2 DEF PushPublish, TypeOK
<1>4. RingBound' /\ HeadSeen'
  BY <1>1 DEF QueueInv, RingBound, HeadSeen
<1>5. SeqsBound'
  <2>1. prod[t].t + 1 <= tail
    BY <1>2 DEF Waiting
  <2> QED BY <1>1, <1>3, <2>1 DEF QueueInv, SeqsBound, Cells
<1>6. HeldApart'
  <2> SUFFICES ASSUME NEW p \in Producers, prod'[p].pc \in Holding
               PROVE  /\ prod'[p].t \in Waiting
                      /\ seqs'[prod'[p].t % Cap] # prod'[p].t + 1
                      /\ \A r \in Producers : prod'[r].pc \in Holding /\ prod'[r].t = prod'[p].t
                           => r = p
    BY <1>1 DEF HeldApart, Waiting
  <2>1. p # t /\ prod'[p] = prod[p] /\ prod[p].t \in Waiting /\ prod[p].t # prod[t].t
    BY <1>1, <1>2 DEF QueueInv, HeldApart, Holding
  <2>2. prod[p].t % Cap \in Cells /\ prod[p].t % Cap # c
    BY <1>2, <2>1, WaitingCell, CellOf DEF QueueInv, TypeOK
  <2>3. seqs'[prod'[p].t % Cap] # prod'[p].t + 1
    BY <1>3, <2>1, <2>2 DEF QueueInv, HeldApart
  <2> QED BY <1>1, <2>1, <2>3 DEF QueueInv, HeldApart, Holding
<1>7. PopKnows'
  <2>1. cons.pc \in {"read", "release"} => head % Cap # c
    <3> SUFFICES ASSUME cons.pc \in {"read", "release"}, head % Cap = c PROVE FALSE
      OBVIOUS
    <3>1. head \in Waiting /\ seqs[head % Cap] = head + 1
      BY <1>2 DEF QueueInv, PopKnows, Waiting
    <3>2. head = prod[t].t
      BY <1>2, <3>1, WaitingCell DEF QueueInv
    <3> QED BY <1>2, <3>1, <3>2
  <2>2. head % Cap \in Cells
    BY <1>2, CellOf
  <2> QED BY <1>1, <1>3, <2>1, <2>2 DEF QueueInv, PopKnows
<1>8. \A n \in Nat : Claimed(n)' = Claimed(n)
  <2>1. \A p \in Producers : At(p, "write")' <=> At(p, "write")
    BY <1>1 DEF At
  <2>2. \A p \in Producers : At(p, "write") =>
          prod'[p].t = prod[p].t /\ prod'[p].req = prod[p].req
    BY <1>1 DEF At
  <2> QED BY <1>1, <1>6, <2>1, <2>2, ClaimedSame DEF QueueInv
<1>9. SameQueue
  BY <1>1, <1>8 DEF SameQueue, Waiting, TypeOK
<1>10. PushOwn'
  BY <1>1 DEF QueueInv, PushOwn
<1>11. ClaimsFilled'
  BY <1>9 DEF QueueInv, ClaimsFilled, SameQueue, Waiting
<1>12. PushBound'
  <2>1. Pushers' = Pushers
    BY <1>1 DEF Pushers, Starting
  <2> QED BY <1>1, <2>1 DEF QueueInv, PushBound
<1> QED BY <1>4, <1>5, <1>6, <1>7, <1>9, <1>10, <1>11, <1>12 DEF QueueInv

\* Steps of pop, and of threads outside the queue, that leave the ring as it is.
LEMMA RingAlone ==
  ASSUME TypeOK, QueueInv, UNCHANGED <<head, tail, ring, seqs, prod>>, PopKnows',
         \A p \in Producers : prod[p].pc # "idle" => waiter'[p].pc = waiter[p].pc
  PROVE  QueueInv' /\ SameQueue
<1>1. RingBound' /\ HeadSeen' /\ SeqsBound' /\ HeldApart'
  BY DEF QueueInv, RingBound, HeadSeen, SeqsBound, HeldApart, Waiting, Holding, Cells
<1>2. \A n \in Nat : Claimed(n)' = Claimed(n)
  <2>1. \A p \in Producers : At(p, "write")' <=> At(p, "write")
    BY DEF At
  <2> QED BY <1>1, <2>1, ClaimedSame DEF QueueInv
<1>3. SameQueue
  BY <1>2 DEF SameQueue, Waiting, TypeOK
<1>4. PushOwn'
  BY DEF QueueInv, PushOwn
<1>5. ClaimsFilled'
  BY <1>3 DEF QueueInv, ClaimsFilled, SameQueue, Waiting
<1>6. PushBound'
  BY DEF QueueInv, PushBound, Pushers
<1> QED BY <1>1, <1>3, <1>4, <1>5, <1>6 DEF QueueInv

\* pop up to its exchange.
LEMMA PopLook ==
  ASSUME TypeOK, QueueInv, PopHead \/ PopTail \/ PopSeq \/ PopRead, waiter' = waiter
  PROVE  QueueInv' /\ SameQueue
<1>1. UNCHANGED <<head, tail, ring, seqs, prod, out>>
  BY DEF PopHead, PopTail, PopSeq, PopRead
<1>2. /\ cons.pc \in {"idle", "tail", "seq", "read"}
      /\ head \in Nat /\ tail \in Nat /\ head <= tail
  BY DEF PopHead, PopTail, PopSeq, PopRead, QueueInv, RingBound, TypeOK
<1>3. PopKnows'
  <2>1. CASE PopHead
    BY <1>1, <2>1 DEF PopHead, PopKnows, TypeOK
  <2>2. CASE PopTail
    <3>1. cons'.h = cons.h /\ cons.h = head
          /\ cons'.pc = IF head = tail THEN "idle" ELSE "seq"
      BY <2>2 DEF PopTail, QueueInv, PopKnows, TypeOK
    <3>2. head # tail => head < tail
      BY <1>2
    <3> QED BY <1>1, <3>1, <3>2 DEF PopKnows
  <2>3. CASE PopSeq
    BY <1>1, <2>3 DEF PopSeq, QueueInv, PopKnows, TypeOK
  <2>4. CASE PopRead
    BY <1>1, <2>4 DEF PopRead, QueueInv, PopKnows, TypeOK
  <2> QED BY <2>1, <2>2, <2>3, <2>4
<1> QED BY <1>1, <1>3, RingAlone

\* The exchange on head_ : the oldest number leaves, and its request is out.
LEMMA ReleaseStep ==
  ASSUME TypeOK, QueueInv, PopRelease, waiter' = waiter
  PROVE  QueueInv' /\ Popped
<1>1. /\ head' = head + 1 /\ out' = ring[head % Cap] /\ cons'.pc = "popped"
      /\ UNCHANGED <<tail, ring, seqs, prod>> /\ head < tail
      /\ seqs[head % Cap] = head + 1
  BY DEF PopRelease, QueueInv, PopKnows, TypeOK
<1>2. /\ head \in Nat /\ tail \in Nat /\ head \in Waiting
      /\ Waiting' = Waiting \ {head} /\ \A n \in Waiting : n \in Nat
  <2>1. head \in Nat /\ tail \in Nat
    BY PushAssumption DEF TypeOK
  <2> QED BY <1>1, <2>1 DEF Waiting
<1>3. \A p \in Producers : prod[p].pc \in Holding => prod[p].t # head
  BY <1>1 DEF QueueInv, HeldApart
<1>4. RingBound' /\ SeqsBound' /\ PopKnows'
  BY <1>1, <1>2, CapAssumption DEF QueueInv, RingBound, SeqsBound, PopKnows, Cells
<1>5. HeadSeen'
  BY <1>1, <1>2 DEF QueueInv, HeadSeen, TypeOK
<1>6. HeldApart'
  BY <1>1, <1>2, <1>3 DEF QueueInv, HeldApart
<1>7. \A n \in Nat : Claimed(n)' = Claimed(n)
  <2>1. \A p \in Producers : At(p, "write")' <=> At(p, "write")
    BY <1>1 DEF At
  <2> QED BY <1>1, <1>6, <2>1, ClaimedSame DEF QueueInv
<1>8. Claimed(head) = ring[head % Cap]
  BY <1>1, <1>2, StoredWaiting DEF QueueInv
<1>9. Popped
  BY <1>1, <1>2, <1>7, <1>8 DEF Popped
<1>10. PushOwn' /\ PushBound'
  BY <1>1 DEF QueueInv, PushOwn, PushBound, Pushers
<1>11. ClaimsFilled'
  BY <1>2, <1>7 DEF QueueInv, ClaimsFilled
<1> QED BY <1>4, <1>5, <1>6, <1>9, <1>10, <1>11 DEF QueueInv

\* The threads that wait are not in a push.
LEMMA AwaitStep ==
  ASSUME TypeOK, QueueInv, UNCHANGED queueVars,
         (\E t \in Threads : (WaitBegin(t) /\ At(t, "idle")) \/ WaitLoad(t) \/ WaitTest(t)
            \/ WaitCheck(t) \/ WaitSleep(t) \/ WaitReturn(t) \/ WaitSpurious(t))
         \/ ServeStep \/ Fail
  PROVE  QueueInv' /\ SameQueue
<1> USE ChannelAssumption
<1>1. \A p \in Threads : prod[p].pc # "idle" => waiter[p].pc = "pushing"
  BY DEF QueueInv, PushOwn
<1>2. \A p \in Threads : prod[p].pc # "idle" => waiter'[p].pc = waiter[p].pc
  <2>1. ASSUME NEW t \in Threads,
               (WaitBegin(t) /\ At(t, "idle")) \/ WaitLoad(t) \/ WaitTest(t) \/ WaitCheck(t)
               \/ WaitSleep(t) \/ WaitReturn(t) \/ WaitSpurious(t)
        PROVE  \A p \in Threads : prod[p].pc # "idle" => waiter'[p].pc = waiter[p].pc
    <3>1. prod[t].pc = "idle"
      BY <1>1, <2>1 DEF WaitLoad, WaitTest, WaitCheck, WaitSleep, WaitReturn,
                        WaitSpurious, Waits, At
    <3>2. \A p \in Threads \ {t} : waiter'[p] = waiter[p]
      BY <2>1 DEF WaitBegin, WaitLoad, WaitTest, WaitCheck, WaitSleep, WaitReturn,
                  WaitSpurious, TypeOK
    <3> QED BY <3>1, <3>2
  <2>2. ASSUME ServeStep \/ Fail
        PROVE  \A p \in Threads : prod[p].pc # "idle" => waiter'[p].pc = waiter[p].pc
    <3>1. waiter' = waiter \/ (owner \in Threads /\ waiter' = Awake(owner))
          \/ (owner = Nobody /\ waiter' = Awake(owner))
      BY <2>2 DEF ServeStep, Settle, WakeSettled, WakeFinished, WakeFailed, Fail, TypeOK
    <3> QED BY <1>1, <3>1, AwaitAssumption DEF Awake, TypeOK
  <2> QED BY <2>1, <2>2
<1>3. PopKnows' /\ UNCHANGED <<head, tail, ring, seqs, prod>>
  BY DEF QueueInv, PopKnows, queueVars
<1> QED BY <1>2, <1>3, RingAlone

-----------------------------------------------------------------------------
(* The request of a thread and its await.  From the moment it is submitted *)
(* until its items settle, the request of a thread is in exactly one       *)
(* place: its push, a claimed number, popped, or active.  Until it is      *)
(* registered, the await is as the thread has reset it.                    *)

\* The active request, while the scheduler may still store to its await.
Live == owner # Nobody /\ (wake = "none" \/ (wake = "settled" /\ left > 0))

\* The await of request r is as pin_layer has reset it, and its thread inside.
Untouched(r) ==
  /\ target[Owner(r)] = Items(r) /\ done[Owner(r)] = 0 /\ ~failed[Owner(r)]
  /\ waiter[Owner(r)].pc \notin {"out", "return"}
  /\ ~(Live /\ owner = Owner(r))

\* Whatever is submitted and not registered is untouched ...
SentUntouched ==
  /\ \A p \in Pushers : Untouched(prod[p].req)
  /\ \A n \in Waiting : Untouched(Claimed(n))
  /\ cons.pc = "popped" => out \in Requests /\ Untouched(out)

\* ... and a thread has one request there.
OneRequest ==
  /\ \A n \in Waiting : Owner(Claimed(n)) \notin Pushers
  /\ \A m, n \in Waiting : Owner(Claimed(m)) = Owner(Claimed(n)) => m = n
  /\ cons.pc = "popped" =>
       Owner(out) \notin Pushers /\ \A n \in Waiting : Owner(Claimed(n)) # Owner(out)

\* No more items are counted than there are, nor seen than were counted.
CountBound ==
  \A t \in Threads :
    done[t] <= target[t] /\ (Waits(t, "test") => waiter[t].cur <= done[t])

\* The items of the active request are counted or left.
LiveExact ==
  Live => /\ waiter[owner].pc \notin {"out", "return"} /\ ~failed[owner]
          /\ left > 0 /\ done[owner] + left = target[owner]

\* The scheduler pops and wakes in turn.
TakesTurns == (owner = Nobody => wake = "none") /\ (cons.pc # "idle" => owner = Nobody)

\* A wait that is over is so for one of the two reasons.
ReturnOver == \A t \in Threads : Waits(t, "return") => failed[t] \/ done[t] = target[t]

AwaitInv == /\ SentUntouched /\ OneRequest /\ CountBound /\ LiveExact /\ TakesTurns
            /\ ReturnOver

Inv == TypeOK /\ QueueInv /\ AwaitInv

\* A request is the pair of its thread and its number of items.
LEMMA RequestParts == \A r \in Requests : Owner(r) \in Threads /\ Items(r) \in 1 .. MaxItems
BY ChannelAssumption DEF Owner, Items

\* Steps of the queue that move no request from place to place.
LEMMA StaysInPlace ==
  ASSUME Inv, QueueInv', UNCHANGED awaitVars, SameQueue, TakesTurns', Pushers' \subseteq Pushers,
         \A p \in Pushers' : prod'[p].req = prod[p].req,
         cons'.pc = "popped" => cons.pc = "popped" /\ out' = out
  PROVE  AwaitInv'
<1>1. Waiting' = Waiting /\ \A n \in Waiting : Claimed(n)' = Claimed(n)
  BY DEF SameQueue, Waiting
<1>2. \A r : Untouched(r)' <=> Untouched(r)
  BY DEF Untouched, Live, awaitVars
<1>3. SentUntouched'
  <2>1. \A p \in Pushers' : Untouched(prod[p].req)'
    BY <1>2 DEF Inv, AwaitInv, SentUntouched
  <2>2. \A n \in Waiting' : Untouched(Claimed(n))'
    BY <1>1, <1>2 DEF Inv, AwaitInv, SentUntouched
  <2>3. cons'.pc = "popped" => out' \in Requests /\ Untouched(out)'
    BY <1>2 DEF Inv, AwaitInv, SentUntouched
  <2> QED BY <2>1, <2>2, <2>3 DEF SentUntouched
<1>4. OneRequest'
  BY <1>1 DEF Inv, AwaitInv, OneRequest
<1>5. CountBound' /\ LiveExact' /\ ReturnOver'
  BY DEF Inv, AwaitInv, CountBound, LiveExact, ReturnOver, Live, Waits, awaitVars
<1> QED BY <1>3, <1>4, <1>5 DEF AwaitInv

\* A claim takes the request from the pushes to the claimed numbers.
LEMMA ClaimMoves ==
  ASSUME Inv, QueueInv', UNCHANGED <<awaitVars, cons, out>>, NEW t \in Threads, ClaimBy(t),
         t \in Pushers, Pushers' = Pushers \ {t},
         \A p \in Pushers' : prod'[p].req = prod[p].req
  PROVE  AwaitInv'
<1> USE ChannelAssumption
<1>1. /\ tail \notin Waiting /\ Waiting' = Waiting \cup {tail}
      /\ \A n \in Waiting : Claimed(n)' = Claimed(n)
      /\ \A n \in {tail} : Claimed(n)' = prod[t].req
  <2>1. head \in Nat /\ tail \in Nat /\ head <= tail
    BY DEF Inv, QueueInv, RingBound, TypeOK
  <2> QED BY <2>1 DEF ClaimBy, Waiting
<1>2. \A r : Untouched(r)' <=> Untouched(r)
  BY DEF Untouched, Live, awaitVars
<1>3. prod[t].req \in Requests /\ Owner(prod[t].req) = t
  BY DEF Inv, QueueInv, PushOwn, Pushers, Starting
<1>4. SentUntouched'
  <2>1. \A p \in Pushers' : Untouched(prod[p].req)'
    BY <1>2 DEF Inv, AwaitInv, SentUntouched
  <2>2. \A n \in Waiting' : Untouched(Claimed(n))'
    BY <1>1, <1>2 DEF Inv, AwaitInv, SentUntouched
  <2>3. cons'.pc = "popped" => out' \in Requests /\ Untouched(out)'
    BY <1>2 DEF Inv, AwaitInv, SentUntouched
  <2> QED BY <2>1, <2>2, <2>3 DEF SentUntouched
<1>5. OneRequest'
  <2>1. \A n \in Waiting' : Owner(Claimed(n))' \notin Pushers'
    BY <1>1, <1>3 DEF Inv, AwaitInv, OneRequest
  <2>2. \A m, n \in Waiting' : Owner(Claimed(m))' = Owner(Claimed(n))' => m = n
    BY <1>1, <1>3 DEF Inv, AwaitInv, OneRequest
  <2>3. cons'.pc = "popped" =>
          Owner(out)' \notin Pushers' /\ \A n \in Waiting' : Owner(Claimed(n))' # Owner(out)'
    BY <1>1, <1>3 DEF Inv, AwaitInv, OneRequest
  <2> QED BY <2>1, <2>2, <2>3 DEF OneRequest
<1>6. CountBound' /\ LiveExact' /\ ReturnOver' /\ TakesTurns'
  BY DEF Inv, AwaitInv, CountBound, LiveExact, ReturnOver, TakesTurns, Live, Waits, awaitVars
<1> QED BY <1>4, <1>5, <1>6 DEF AwaitInv

\* A pop takes the oldest one out.
LEMMA PopMoves ==
  ASSUME Inv, QueueInv', UNCHANGED <<awaitVars, prod>>, Popped, TakesTurns'
  PROVE  AwaitInv'
<1>1. /\ head \in Waiting /\ Waiting' = Waiting \ {head} /\ out' = Claimed(head)
      /\ \A n \in Waiting : Claimed(n)' = Claimed(n)
  <2>1. head \in Nat /\ tail \in Nat
    BY PushAssumption DEF Inv, TypeOK
  <2> QED BY <2>1 DEF Popped, Waiting
<1>2. \A r : Untouched(r)' <=> Untouched(r)
  BY DEF Untouched, Live, awaitVars
<1>3. Pushers' = Pushers
  BY DEF Pushers
<1>4. SentUntouched'
  <2>1. \A p \in Pushers' : Untouched(prod[p].req)'
    BY <1>2, <1>3 DEF Inv, AwaitInv, SentUntouched
  <2>2. \A n \in Waiting' : Untouched(Claimed(n))'
    BY <1>1, <1>2 DEF Inv, AwaitInv, SentUntouched
  <2>3. out' \in Requests /\ Untouched(out)'
    BY <1>1, <1>2 DEF Inv, AwaitInv, SentUntouched, QueueInv, ClaimsFilled
  <2> QED BY <2>1, <2>2, <2>3 DEF SentUntouched
<1>5. OneRequest'
  BY <1>1, <1>3 DEF Inv, AwaitInv, OneRequest
<1>6. CountBound' /\ LiveExact' /\ ReturnOver'
  BY DEF Inv, AwaitInv, CountBound, LiveExact, ReturnOver, Live, Waits, awaitVars
<1> QED BY <1>4, <1>5, <1>6 DEF AwaitInv

\* A thread that is outside its call has no request anywhere: it may submit one.
LEMMA SubmitMoves ==
  ASSUME Inv, QueueInv', SameQueue, NEW t \in Threads, NEW n \in 1 .. MaxItems,
         Reset(t, n), PushStart(t, <<t, n>>)
  PROVE  AwaitInv'
<1> USE ChannelAssumption
<1>1. /\ Waits(t, "out") /\ UNCHANGED <<owner, left, wake, cons, out>>
      /\ done' = [done EXCEPT ![t] = 0] /\ failed' = [failed EXCEPT ![t] = FALSE]
      /\ target' = [target EXCEPT ![t] = n] /\ waiter'[t].pc = "pushing"
      /\ waiter'[t].cur = waiter[t].cur
      /\ \A p \in Threads \ {t} : waiter'[p] = waiter[p]
  BY DEF Reset, PushStart, TypeOK, Inv
<1>2. /\ \A p \in Producers \ {t} : prod'[p] = prod[p]
      /\ prod'[t].pc = "head" /\ prod'[t].req = <<t, n>> /\ prod[t].pc = "idle"
  BY DEF PushStart, TypeOK, Inv, At
<1>3. Waiting' = Waiting /\ \A k \in Waiting : Claimed(k)' = Claimed(k)
  BY DEF SameQueue, Waiting
<1>4. Pushers' = Pushers \cup {t}
  BY <1>2 DEF Pushers, Starting
<1>5. \A r \in Requests : Owner(r) # t =>  (Untouched(r)' <=> Untouched(r))
  <2> SUFFICES ASSUME NEW r \in Requests, Owner(r) # t PROVE Untouched(r)' <=> Untouched(r)
    OBVIOUS
  <2>1. Owner(r) \in Threads
    BY RequestParts
  <2>2. /\ done'[Owner(r)] = done[Owner(r)] /\ failed'[Owner(r)] = failed[Owner(r)]
        /\ target'[Owner(r)] = target[Owner(r)] /\ waiter'[Owner(r)] = waiter[Owner(r)]
    BY <1>1, <2>1 DEF TypeOK, Inv
  <2>3. Live' <=> Live
    BY <1>1 DEF Live
  <2> QED BY <1>1, <2>2, <2>3 DEF Untouched
<1>6. \A r : Untouched(r) => Owner(r) # t
  BY <1>1 DEF Untouched, Waits
<1>7. ~(Live /\ owner = t)
  BY <1>1 DEF Inv, AwaitInv, LiveExact, Waits
<1>8. /\ done'[t] = 0 /\ ~failed'[t] /\ target'[t] = n
      /\ \A p \in Threads \ {t} : done'[p] = done[p] /\ failed'[p] = failed[p]
                                  /\ target'[p] = target[p]
  BY <1>1 DEF Inv, TypeOK
<1>9. Owner(<<t, n>>) = t /\ Items(<<t, n>>) = n /\ Untouched(<<t, n>>)'
  <2>1. Owner(<<t, n>>) = t /\ Items(<<t, n>>) = n
    BY DEF Owner, Items
  <2> QED BY <1>1, <1>7, <1>8, <2>1 DEF Untouched, Live
<1>10. SentUntouched'
  <2>1. \A p \in Pushers' : Untouched(prod[p].req)'
    <3> SUFFICES ASSUME NEW p \in Pushers' PROVE Untouched(prod[p].req)'
      OBVIOUS
    <3>1. CASE p = t
      BY <3>1, <1>2, <1>9
    <3>2. CASE p # t
      <4>1. p \in Pushers /\ prod'[p] = prod[p] /\ prod[p].req \in Requests
        BY <3>2, <1>2, <1>4 DEF Pushers, Starting, Inv, QueueInv, PushOwn
      <4>2. Untouched(prod[p].req)
        BY <4>1 DEF Inv, AwaitInv, SentUntouched
      <4> QED BY <4>1, <4>2, <1>5, <1>6
    <3> QED BY <3>1, <3>2
  <2>2. \A k \in Waiting' : Untouched(Claimed(k))'
    BY <1>3, <1>5, <1>6 DEF Inv, AwaitInv, SentUntouched, QueueInv, ClaimsFilled
  <2>3. cons'.pc = "popped" => out' \in Requests /\ Untouched(out)'
    BY <1>1, <1>5, <1>6 DEF Inv, AwaitInv, SentUntouched
  <2> QED BY <2>1, <2>2, <2>3 DEF SentUntouched
<1>11. OneRequest'
  <2>1. \A k \in Waiting : Owner(Claimed(k)) # t
    BY <1>6 DEF Inv, AwaitInv, SentUntouched
  <2>2. cons.pc = "popped" => Owner(out) # t
    BY <1>6 DEF Inv, AwaitInv, SentUntouched
  <2> QED BY <1>1, <1>3, <1>4, <2>1, <2>2 DEF Inv, AwaitInv, OneRequest
<1>12. CountBound'
  BY <1>1, <1>8 DEF Inv, AwaitInv, CountBound, Waits
<1>13. LiveExact'
  <2> SUFFICES ASSUME Live' PROVE LiveExact'
    BY DEF LiveExact
  <2>1. Live /\ owner # t /\ owner \in Threads
    BY <1>1, <1>7 DEF Live, Inv, TypeOK
  <2> QED BY <1>1, <1>8, <2>1 DEF Inv, AwaitInv, LiveExact
<1>14. ReturnOver' /\ TakesTurns'
  BY <1>1, <1>8 DEF Inv, AwaitInv, ReturnOver, TakesTurns, Waits
<1> QED BY <1>10, <1>11, <1>12, <1>13, <1>14 DEF AwaitInv

\* Outside the queue, the requests in it stay in place.
LEMMA SentStay ==
  ASSUME Inv, UNCHANGED queueVars, SameQueue,
         \A r \in Requests : Untouched(r) => Untouched(r)'
  PROVE  SentUntouched' /\ OneRequest'
<1>1. /\ Waiting' = Waiting /\ \A n \in Waiting : Claimed(n)' = Claimed(n)
      /\ Pushers' = Pushers /\ UNCHANGED <<prod, cons, out>>
  BY DEF SameQueue, Waiting, Pushers, queueVars
<1>2. /\ \A p \in Pushers : prod[p].req \in Requests
      /\ \A n \in Waiting : Claimed(n) \in Requests
  BY DEF Inv, QueueInv, PushOwn, ClaimsFilled, Pushers, Starting
<1>3. SentUntouched'
  <2>1. \A p \in Pushers' : Untouched(prod[p].req)'
    BY <1>1, <1>2 DEF Inv, AwaitInv, SentUntouched
  <2>2. \A n \in Waiting' : Untouched(Claimed(n))'
    BY <1>1, <1>2 DEF Inv, AwaitInv, SentUntouched
  <2>3. cons'.pc = "popped" => out' \in Requests /\ Untouched(out)'
    BY <1>1 DEF Inv, AwaitInv, SentUntouched
  <2> QED BY <2>1, <2>2, <2>3 DEF SentUntouched
<1>4. OneRequest'
  BY <1>1 DEF Inv, AwaitInv, OneRequest
<1> QED BY <1>3, <1>4

\* wait(): it returns only when the items are all counted or the flag is set,
\* which no untouched or active request allows.
LEMMA WaiterMoves ==
  ASSUME Inv, UNCHANGED queueVars, SameQueue, NEW t \in Threads,
         WaitBegin(t) \/ WaitLoad(t) \/ WaitTest(t) \/ WaitCheck(t) \/ WaitSleep(t)
         \/ WaitReturn(t) \/ WaitSpurious(t)
  PROVE  AwaitInv'
<1>1. /\ UNCHANGED <<done, failed, target, owner, left, wake, cons>>
      /\ \A p \in Threads \ {t} : waiter'[p] = waiter[p]
      /\ waiter[t].pc # "out"
  BY DEF Inv, TypeOK, WaitBegin, WaitLoad, WaitTest, WaitCheck, WaitSleep, WaitReturn,
         WaitSpurious, Waits, queueVars
<1>2. \/ waiter'[t].pc \notin {"out", "return", "test"}
      \/ waiter'[t].pc = "test" /\ waiter'[t].cur = done[t]
      \/ /\ waiter'[t].pc = "return" /\ waiter[t].pc = "test"
         /\ waiter[t].cur >= target[t]
      \/ waiter'[t].pc = "return" /\ waiter[t].pc = "check" /\ failed[t]
      \/ waiter'[t].pc = "out" /\ waiter[t].pc = "return"
  BY DEF Inv, TypeOK, WaitBegin, WaitLoad, WaitTest, WaitCheck, WaitSleep, WaitReturn,
         WaitSpurious, Waits
<1>3. /\ done[t] \in Nat /\ target[t] \in Nat /\ left \in Nat
      /\ waiter[t].cur \in Nat /\ done[t] <= target[t]
      /\ waiter[t].pc = "test" => waiter[t].cur <= done[t]
  BY AwaitAssumption DEF Inv, TypeOK, AwaitInv, CountBound, Waits
<1>4. waiter[t].pc # "return" /\ waiter'[t].pc = "return" => failed[t] \/ done[t] = target[t]
  BY <1>2, <1>3
<1>5. \A r \in Requests : Untouched(r) => Untouched(r)'
  <2> SUFFICES ASSUME NEW r \in Requests, Untouched(r) PROVE Untouched(r)'
    OBVIOUS
  <2>1. Owner(r) \in Threads /\ Items(r) \in Nat /\ Items(r) > 0
    BY RequestParts, AwaitAssumption
  <2>2. Live' <=> Live
    BY <1>1 DEF Live
  <2>3. waiter'[Owner(r)].pc \notin {"out", "return"}
    BY <1>1, <1>2, <1>3, <2>1 DEF Untouched
  <2> QED BY <1>1, <2>2, <2>3 DEF Untouched
<1>6. SentUntouched' /\ OneRequest'
  BY <1>5, SentStay
<1>7. CountBound'
  <2> SUFFICES ASSUME NEW p \in Threads
               PROVE  done[p] <= target[p] /\ (waiter'[p].pc = "test" => waiter'[p].cur <= done[p])
    BY <1>1 DEF CountBound, Waits
  <2>1. CASE p = t
    BY <2>1, <1>2, <1>3
  <2>2. CASE p # t
    BY <2>2, <1>1 DEF Inv, AwaitInv, CountBound, Waits
  <2> QED BY <2>1, <2>2
<1>8. LiveExact'
  <2> SUFFICES ASSUME Live PROVE waiter'[owner].pc \notin {"out", "return"}
    BY <1>1 DEF LiveExact, Live, Inv, AwaitInv
  <2>1. /\ owner \in Threads /\ ~failed[owner] /\ left > 0 /\ done[owner] + left = target[owner]
        /\ waiter[owner].pc \notin {"out", "return"}
    BY DEF Live, Inv, TypeOK, AwaitInv, LiveExact
  <2>2. CASE owner = t
    BY <2>1, <2>2, <1>2, <1>3
  <2>3. CASE owner # t
    BY <2>1, <2>3, <1>1
  <2> QED BY <2>2, <2>3
<1>9. ReturnOver'
  BY <1>1, <1>4 DEF Inv, AwaitInv, ReturnOver, Waits
<1>10. TakesTurns'
  BY <1>1 DEF Inv, AwaitInv, TakesTurns
<1> QED BY <1>6, <1>7, <1>8, <1>9, <1>10 DEF AwaitInv

\* The popped request becomes the active one.
LEMMA RegisterMoves ==
  ASSUME Inv, QueueInv', SameQueue, RegisterStep
  PROVE  AwaitInv'
<1>1. /\ UNCHANGED <<done, failed, target, waiter, wake, prod, out>>
      /\ owner = Nobody /\ owner' = Owner(out) /\ left' = Items(out) /\ wake = "none"
      /\ cons.pc = "popped" /\ cons'.pc = "idle" /\ out \in Requests /\ Untouched(out)
  BY DEF RegisterStep, Register, Inv, TypeOK, AwaitInv, TakesTurns, SentUntouched
<1>2. Owner(out) \in Threads /\ Items(out) \in Nat /\ Items(out) > 0 /\ ~Live
  BY <1>1, RequestParts, AwaitAssumption DEF Live
<1>3. \A r : Untouched(r) /\ Owner(r) # Owner(out) => Untouched(r)'
  BY <1>1 DEF Untouched
<1>4. /\ Waiting' = Waiting /\ \A n \in Waiting : Claimed(n)' = Claimed(n)
      /\ Pushers' = Pushers
  BY <1>1 DEF SameQueue, Waiting, Pushers
<1>5. SentUntouched'
  <2>1. \A p \in Pushers' : Untouched(prod[p].req)'
    <3>1. \A p \in Pushers : Owner(prod[p].req) = p
      BY DEF Inv, QueueInv, PushOwn, Pushers, Starting
    <3> QED BY <1>1, <1>3, <1>4, <3>1 DEF Inv, AwaitInv, SentUntouched, OneRequest
  <2>2. \A n \in Waiting' : Untouched(Claimed(n))'
    BY <1>1, <1>3, <1>4 DEF Inv, AwaitInv, SentUntouched, OneRequest
  <2> QED BY <1>1, <2>1, <2>2 DEF SentUntouched
<1>6. OneRequest'
  BY <1>1, <1>4 DEF Inv, AwaitInv, OneRequest
<1>7. CountBound' /\ ReturnOver' /\ TakesTurns'
  BY <1>1 DEF Inv, AwaitInv, CountBound, ReturnOver, TakesTurns, Waits
<1>8. LiveExact'
  BY <1>1, <1>2 DEF LiveExact, Untouched
<1> QED BY <1>5, <1>6, <1>7, <1>8 DEF AwaitInv

\* A wake moves sleeping threads, and nobody in or out of a call.
LEMMA AwakeKeeps ==
  ASSUME TypeOK, waiter' = Awake(owner)
  PROVE  \A t \in Threads :
           /\ waiter'[t].cur = waiter[t].cur
           /\ \/ waiter'[t].pc = waiter[t].pc
              \/ waiter'[t].pc = "load" /\ waiter[t].pc = "asleep"
BY DEF TypeOK, Awake

\* The scheduler serves, wakes, finishes or fails the active request; what is
\* sent and not registered is another thread's.
LEMMA ServeMoves ==
  ASSUME Inv, UNCHANGED queueVars, SameQueue, ServeStep \/ Fail
  PROVE  AwaitInv'
<1>1. /\ UNCHANGED <<target, cons>>
      /\ owner \in Threads \cup {Nobody} /\ left \in Nat
      /\ \A t \in Threads : done[t] \in Nat /\ target[t] \in Nat
      /\ owner = Nobody => wake = "none"
      /\ Live => /\ waiter[owner].pc \notin {"out", "return"} /\ ~failed[owner]
                 /\ left > 0 /\ done[owner] + left = target[owner]
  BY DEF ServeStep, Settle, WakeSettled, WakeFinished, WakeFailed, Fail, queueVars,
         Inv, TypeOK, AwaitInv, TakesTurns, LiveExact
<1>2. \A t \in Threads :
        /\ waiter'[t].cur = waiter[t].cur
        /\ waiter'[t].pc = waiter[t].pc
           \/ (waiter'[t].pc = "load" /\ waiter[t].pc = "asleep")
  <2>1. waiter' = waiter \/ waiter' = Awake(owner)
    BY DEF ServeStep, Settle, WakeSettled, WakeFinished, WakeFailed, Fail
  <2> QED BY <2>1, AwakeKeeps DEF Inv
<1>3. \/ /\ Settle /\ Live /\ owner \in Threads /\ wake' = "settled" /\ left' = left - 1
         /\ owner' = owner /\ done'[owner] = done[owner] + 1 /\ failed' = failed
         /\ \A t \in Threads \ {owner} : done'[t] = done[t]
      \/ /\ wake = "settled" /\ left > 0 /\ Live /\ wake' = "none"
         /\ UNCHANGED <<done, failed, owner, left>>
      \/ /\ owner # Nobody /\ ~Live' /\ owner' = owner /\ wake' # "none"
         /\ UNCHANGED <<done, failed>>
      \/ /\ owner # Nobody /\ ~Live' /\ owner' = Nobody /\ wake' = "none"
         /\ UNCHANGED <<done, failed>>
      \/ /\ Live /\ owner \in Threads /\ ~Live' /\ owner' = owner /\ wake' # "none"
         /\ done' = done /\ \A t \in Threads \ {owner} : failed'[t] = failed[t]
         /\ failed'[owner]
  <2>1. CASE Settle
    BY <2>1, <1>1 DEF Settle, Live, Inv, TypeOK
  <2>2. CASE WakeSettled
    BY <2>2, <1>1, AwaitAssumption DEF WakeSettled, Live
  <2>3. CASE WakeFinished
    BY <2>3, <1>1, AwaitAssumption DEF WakeFinished, Live
  <2>4. CASE WakeFailed
    BY <2>4, <1>1, AwaitAssumption DEF WakeFailed, Live
  <2>5. CASE Fail
    BY <2>5, <1>1 DEF Fail, Live, Inv, TypeOK
  <2> QED BY <2>1, <2>2, <2>3, <2>4, <2>5 DEF ServeStep
<1>4. \A r \in Requests : Untouched(r) => Untouched(r)'
  <2> SUFFICES ASSUME NEW r \in Requests, Untouched(r) PROVE Untouched(r)'
    OBVIOUS
  <2>1. Owner(r) \in Threads /\ waiter'[Owner(r)].pc \notin {"out", "return"}
    BY <1>2, RequestParts DEF Untouched
  <2>2. done'[Owner(r)] = done[Owner(r)] /\ failed'[Owner(r)] = failed[Owner(r)]
    BY <1>3, <2>1 DEF Untouched
  <2>3. ~(Live' /\ owner' = Owner(r))
    BY <1>3, <2>1 DEF Untouched, Live
  <2> QED BY <1>1, <2>1, <2>2, <2>3 DEF Untouched
<1>5. SentUntouched' /\ OneRequest'
  BY <1>4, SentStay
<1>6. \A t \in Threads : done[t] <= target[t] /\ (waiter[t].pc = "test" => waiter[t].cur <= done[t])
  BY DEF Inv, AwaitInv, CountBound, Waits
<1>7. CountBound'
  <2> SUFFICES ASSUME NEW t \in Threads
               PROVE  /\ done'[t] <= target[t]
                      /\ waiter'[t].pc = "test" => waiter'[t].cur <= done'[t]
    BY <1>1 DEF CountBound, Waits
  <2>1. done'[t] = done[t] \/ (done'[t] = done[t] + 1 /\ t = owner /\ Live)
    BY <1>3
  <2>2. done'[t] <= target[t] /\ done'[t] >= done[t]
    BY <2>1, <1>1, <1>6
  <2>3. waiter[t].cur \in Nat
    BY DEF Inv, TypeOK
  <2>4. waiter'[t].cur = waiter[t].cur /\ (waiter'[t].pc = "test" => waiter[t].pc = "test")
    BY <1>2
  <2>5. done'[t] \in Nat /\ done[t] \in Nat
    BY <2>1, <1>1
  <2> QED BY <2>2, <2>3, <2>4, <2>5, <1>6
<1>8. LiveExact'
  <2> SUFFICES ASSUME Live'
               PROVE  /\ waiter'[owner'].pc \notin {"out", "return"} /\ ~failed'[owner']
                      /\ left' > 0 /\ done'[owner'] + left' = target'[owner']
    BY DEF LiveExact
  <2>1. /\ owner' = owner /\ owner \in Threads /\ Live /\ failed' = failed
        /\ waiter'[owner].pc \notin {"out", "return"}
    BY <1>1, <1>2, <1>3 DEF Live
  <2>2. \/ left' = left - 1 /\ done'[owner] = done[owner] + 1 /\ left' > 0
        \/ left' = left /\ done'[owner] = done[owner]
    BY <1>3 DEF Live
  <2> QED BY <1>1, <2>1, <2>2
<1>9. ReturnOver'
  <2> SUFFICES ASSUME NEW t \in Threads, waiter'[t].pc = "return"
               PROVE  failed'[t] \/ done'[t] = target[t]
    BY <1>1 DEF ReturnOver, Waits
  <2>1. waiter[t].pc = "return" /\ (failed[t] \/ done[t] = target[t])
    BY <1>2 DEF Inv, AwaitInv, ReturnOver, Waits
  <2>2. ~(Live /\ owner = t)
    BY <1>1, <2>1
  <2> QED BY <1>3, <2>1, <2>2
<1>10. TakesTurns'
  BY <1>1, <1>3, AwaitAssumption DEF Inv, AwaitInv, TakesTurns
<1> QED BY <1>5, <1>7, <1>8, <1>9, <1>10 DEF AwaitInv

-----------------------------------------------------------------------------
(* Every step keeps the invariant.                                         *)

\* The variables of the queue keep their types.
LEMMA QueueTypes ==
  ASSUME Inv, QueueInv', Next
  PROVE  /\ head' \in Nat /\ tail' \in 0 .. MaxPush
         /\ ring' \in [Cells -> Requests \cup {NoRequest}] /\ seqs' \in [Cells -> Nat]
         /\ prod' \in [Producers ->
              [pc : {"idle", "head", "tail", "claim", "write", "publish"},
               req : Requests \cup {NoRequest}, h : Nat, t : Nat]]
         /\ cons' \in [pc : {"idle", "tail", "seq", "read", "release", "popped"}, h : Nat,
                       req : Requests \cup {NoRequest}]
         /\ out' \in Requests \cup {NoRequest}
<1> USE ChannelAssumption
<1>1. TypeOK /\ head \in Nat /\ tail \in Nat
  BY PushAssumption DEF Inv, TypeOK
<1>2. tail' \in Nat => tail' \in 0 .. MaxPush
  <2>1. IsFiniteSet(Pushers') /\ Cardinality(Pushers') \in Nat
    BY PushAssumption, FS_Subset, FS_CardinalityType DEF Pushers
  <2> QED BY <2>1, PushAssumption DEF QueueInv, PushBound
<1>3. CASE UNCHANGED queueVars
  BY <1>1, <1>3 DEF queueVars, TypeOK
<1> DEFINE Prod == [pc : {"idle", "head", "tail", "claim", "write", "publish"},
                    req : Requests \cup {NoRequest}, h : Nat, t : Nat]
<1>4. ASSUME NEW t \in Threads,
             NEW l \in {"idle", "head", "tail", "claim", "write", "publish"}
      PROVE  [prod EXCEPT ![t].pc = l] \in [Producers -> Prod]
  <2>1. prod \in [Producers -> Prod]
    BY <1>1 DEF TypeOK
  <2>2. [prod[t] EXCEPT !.pc = l] \in Prod
    BY <2>1
  <2> QED BY <2>1, <2>2
<1>5. ASSUME NEW t \in Threads
      PROVE  /\ PushHead(t) \/ PushTail(t) \/ PushClaim(t) \/ PushWrite(t) \/ PushPublish(t)
                => prod' \in [Producers -> Prod] /\ tail' \in Nat
             /\ \A n \in 1 .. MaxItems : PushStart(t, <<t, n>>) => prod' \in [Producers -> Prod]
  <2> DEFINE f(l) == [prod EXCEPT ![t].pc = l]
             withReq(g, r) == [g EXCEPT ![t].req = r]
             withH(g, k) == [g EXCEPT ![t].h = k]
             withT(g, k) == [g EXCEPT ![t].t = k]
  <2>1. \A l \in {"idle", "head", "tail", "claim", "write", "publish"} :
          f(l) \in [Producers -> Prod]
    BY <1>4
  <2>2. ASSUME NEW g \in [Producers -> Prod], NEW r \in Requests \cup {NoRequest}, NEW k \in Nat
        PROVE  /\ withReq(g, r) \in [Producers -> Prod]
               /\ withH(g, k) \in [Producers -> Prod]
               /\ withT(g, k) \in [Producers -> Prod]
    OBVIOUS
  <2>3. PushHead(t) => prod' = withH(f("tail"), head)
    BY DEF PushHead
  <2>4. PushTail(t) => prod' = IF tail - prod[t].h >= Cap THEN f("head")
                               ELSE withT(f("claim"), tail)
    BY DEF PushTail
  <2>5a. (PushHead(t) => tail' = tail) /\ (PushTail(t) => tail' = tail)
    BY DEF PushHead, PushTail
  <2>5. PushClaim(t) => prod' \in {f("write"), f("head")} /\ tail' \in {tail, tail + 1}
    BY DEF PushClaim
  <2>6. PushWrite(t) => prod' = f("publish") /\ tail' = tail
    BY DEF PushWrite
  <2>7. PushPublish(t) => prod' = withReq(f("idle"), NoRequest) /\ tail' = tail
    BY DEF PushPublish
  <2>8. \A n \in 1 .. MaxItems :
          PushStart(t, <<t, n>>) => prod' = withReq(f("head"), <<t, n>>)
    BY DEF PushStart
  <2> HIDE DEF Prod, f, withReq, withH, withT
  <2>9. ASSUME PushHead(t) \/ PushTail(t) \/ PushClaim(t) \/ PushWrite(t) \/ PushPublish(t)
        PROVE  prod' \in [Producers -> Prod] /\ tail' \in Nat
    BY <1>1, <2>1, <2>2, <2>3, <2>4, <2>5, <2>6, <2>7, <2>9, <2>5a
  <2>10. \A n \in 1 .. MaxItems : PushStart(t, <<t, n>>) => prod' \in [Producers -> Prod]
    BY <2>1, <2>2, <2>8
  <2> QED BY <2>9, <2>10
<1>6. ASSUME NEW t \in Threads
      PROVE  /\ PushWrite(t) => ring' \in [Cells -> Requests \cup {NoRequest}]
             /\ PushPublish(t) => seqs' \in [Cells -> Nat]
  <2>1. prod[t].req \in Requests \cup {NoRequest} /\ prod[t].t + 1 \in Nat
    BY <1>1 DEF TypeOK
  <2>2. /\ ring \in [Cells -> Requests \cup {NoRequest}] /\ seqs \in [Cells -> Nat]
    BY <1>1 DEF TypeOK
  <2> QED BY <2>1, <2>2 DEF PushWrite, PushPublish
<1>7. /\ PopHead \/ PopTail \/ PopSeq \/ PopRead \/ PopRelease
         => /\ UNCHANGED <<tail, ring, seqs, prod>> /\ head' \in Nat
            /\ out' \in Requests \cup {NoRequest}
      /\ PopHead \/ PopTail \/ PopSeq \/ PopRead \/ PopRelease \/ RegisterStep
         => cons' \in [pc : {"idle", "tail", "seq", "read", "release", "popped"},
                       h : Nat, req : Requests \cup {NoRequest}]
  <2>1. PopRead => ring[cons.h % Cap] \in Requests \cup {NoRequest}
    BY <1>1, CellOf DEF TypeOK
  <2>2. /\ cons \in [pc : {"idle", "tail", "seq", "read", "release", "popped"},
                     h : Nat, req : Requests \cup {NoRequest}]
        /\ out \in Requests \cup {NoRequest}
    BY <1>1 DEF TypeOK
  <2>3. PopHead \/ PopTail \/ PopSeq \/ PopRead \/ PopRelease
         => /\ UNCHANGED <<tail, ring, seqs, prod>> /\ head' \in Nat
            /\ out' \in Requests \cup {NoRequest}
    BY <1>1, <2>2 DEF PopHead, PopTail, PopSeq, PopRead, PopRelease
  <2>4. PopHead \/ PopTail \/ PopSeq \/ PopRead \/ PopRelease \/ RegisterStep
         => cons' \in [pc : {"idle", "tail", "seq", "read", "release", "popped"},
                       h : Nat, req : Requests \cup {NoRequest}]
    BY <1>1, <2>1, <2>2 DEF PopHead, PopTail, PopSeq, PopRead, PopRelease, RegisterStep
  <2> QED BY <2>3, <2>4
<1>8. CASE RegisterStep
  BY <1>1, <1>7, <1>8 DEF RegisterStep, TypeOK
<1>9. CASE \E t \in Threads, n \in 1 .. MaxItems : Submit(t, n)
  <2>1. PICK t \in Threads, n \in 1 .. MaxItems : PushStart(t, <<t, n>>)
    BY <1>9 DEF Submit
  <2>2. UNCHANGED <<head, tail, ring, seqs, cons, out>> /\ prod' \in [Producers -> Prod]
    BY <1>5, <2>1 DEF PushStart
  <2> QED BY <1>1, <2>2 DEF TypeOK
<1>10. CASE \E t \in Threads : PushStep(t)
  <2>1. PICK t \in Threads :
          PushHead(t) \/ PushTail(t) \/ PushClaim(t) \/ PushWrite(t) \/ PushPublish(t)
    BY <1>10 DEF PushStep
  <2>2. UNCHANGED <<head, cons, out>> /\ prod' \in [Producers -> Prod] /\ tail' \in Nat
    BY <1>5, <2>1 DEF PushHead, PushTail, PushClaim, PushPublish, PushWrite
  <2>3. ring' \in [Cells -> Requests \cup {NoRequest}] /\ seqs' \in [Cells -> Nat]
    BY <1>1, <1>6, <2>1 DEF PushHead, PushTail, PushClaim, PushPublish, PushWrite, TypeOK
  <2> QED BY <1>1, <1>2, <2>2, <2>3 DEF TypeOK
<1>11. CASE PopStep
  BY <1>1, <1>7, <1>11 DEF PopStep, TypeOK
<1> QED BY <1>3, <1>8, <1>9, <1>10, <1>11
        DEF Next, Exec, Pushed, WaitStep, ServeStep, FailStep

\* So do the awaits: the count stops at MaxItems because it is exact.
LEMMA AwaitTypes ==
  ASSUME Inv, AwaitInv', Next
  PROVE  /\ done' \in [Threads -> 0 .. MaxItems] /\ failed' \in [Threads -> BOOLEAN]
         /\ target' \in [Threads -> 0 .. MaxItems]
         /\ waiter' \in [Threads -> [pc : {"out", "pushing", "load", "test", "check", "sleep",
                                           "asleep", "return"}, cur : Nat]]
         /\ owner' \in Threads \cup {Nobody} /\ left' \in 0 .. MaxItems
         /\ wake' \in {"none", "settled", "finished", "failed"}
<1> DEFINE Waiter == [pc : {"out", "pushing", "load", "test", "check", "sleep",
                            "asleep", "return"}, cur : Nat]
<1>1. /\ done \in [Threads -> 0 .. MaxItems] /\ failed \in [Threads -> BOOLEAN]
      /\ target \in [Threads -> 0 .. MaxItems] /\ waiter \in [Threads -> Waiter]
      /\ owner \in Threads \cup {Nobody} /\ left \in 0 .. MaxItems
      /\ wake \in {"none", "settled", "finished", "failed"} /\ MaxItems \in Nat
  BY AwaitAssumption DEF Inv, TypeOK
<1>2. CASE UNCHANGED awaitVars
  BY <1>1, <1>2 DEF awaitVars
<1>3. CASE \E t \in Threads, n \in 1 .. MaxItems : Reset(t, n)
  BY <1>1, <1>3 DEF Reset
<1>4. CASE \E t \in Threads : WaitBegin(t) \/ WaitTest(t) \/ WaitCheck(t) \/ WaitSleep(t)
                              \/ WaitSpurious(t)
  <2>1. UNCHANGED <<done, failed, target, owner, left, wake>>
    BY <1>4 DEF WaitBegin, WaitTest, WaitCheck, WaitSleep, WaitSpurious
  <2>2. waiter' \in [Threads -> Waiter]
    BY <1>1, <1>4 DEF WaitBegin, WaitTest, WaitCheck, WaitSleep, WaitSpurious
  <2> QED BY <1>1, <2>1, <2>2
<1>5. CASE \E t \in Threads : WaitLoad(t) \/ WaitReturn(t)
  <2>1. UNCHANGED <<done, failed, target, owner, left, wake>>
    BY <1>5 DEF WaitLoad, WaitReturn
  <2>2. waiter' \in [Threads -> Waiter]
    BY <1>1, <1>5 DEF WaitLoad, WaitReturn
  <2> QED BY <1>1, <2>1, <2>2
<1>6. CASE RegisterStep
  BY <1>1, <1>6, RequestParts DEF RegisterStep, Register, Inv, AwaitInv, SentUntouched
<1>7. CASE ServeStep \/ Fail
  <2>1. waiter' \in [Threads -> Waiter]
    <3>1. waiter' = waiter \/ waiter' = Awake(owner)
      BY <1>7 DEF ServeStep, Settle, WakeSettled, WakeFinished, WakeFailed, Fail
    <3>2. Awake(owner) \in [Threads -> Waiter]
      BY <1>1 DEF Awake
    <3> QED BY <1>1, <3>1, <3>2
  <2>2. /\ target' = target /\ failed' \in [Threads -> BOOLEAN]
        /\ owner' \in Threads \cup {Nobody} /\ left' \in 0 .. MaxItems
        /\ wake' \in {"none", "settled", "finished", "failed"}
    <3>1. CASE Settle
      BY <1>1, <3>1 DEF Settle
    <3>2. CASE WakeSettled \/ WakeFinished \/ WakeFailed
      BY <1>1, <3>2 DEF WakeSettled, WakeFinished, WakeFailed
    <3>3. CASE Fail
      BY <1>1, <3>3 DEF Fail
    <3> QED BY <1>7, <3>1, <3>2, <3>3 DEF ServeStep
  <2>3. done' = done \/ (owner \in Threads /\ done' = [done EXCEPT ![owner] = @ + 1])
    BY <1>1, <1>7 DEF ServeStep, Settle, WakeSettled, WakeFinished, WakeFailed, Fail
  <2>4. \A t \in Threads : done'[t] <= target[t]
    BY <2>2 DEF AwaitInv, CountBound
  <2>5. done' \in [Threads -> 0 .. MaxItems]
    <3>1. ASSUME owner \in Threads, done' = [done EXCEPT ![owner] = @ + 1]
          PROVE  done' \in [Threads -> 0 .. MaxItems]
      <4>1. done'[owner] = done[owner] + 1 /\ done'[owner] <= target[owner]
        BY <1>1, <2>4, <3>1
      <4>2. done[owner] + 1 \in 0 .. MaxItems
        BY <1>1, <3>1, <4>1
      <4> QED BY <1>1, <3>1, <4>2
    <3> QED BY <1>1, <2>3, <3>1
  <2> QED BY <1>1, <2>1, <2>2, <2>5
<1>8. \A t \in Threads :
        /\ Exec(t) => UNCHANGED awaitVars \/ WaitBegin(t) \/ WaitLoad(t) \/ WaitTest(t)
                      \/ WaitCheck(t) \/ WaitSleep(t) \/ WaitReturn(t)
        /\ \A n \in 1 .. MaxItems : Submit(t, n) => Reset(t, n)
  BY DEF Exec, Submit, Pushed, PushStep, WaitStep
<1>9. (PopStep => UNCHANGED awaitVars) /\ (FailStep => Fail)
  BY DEF PopStep, FailStep
<1>10. \/ UNCHANGED awaitVars \/ RegisterStep \/ ServeStep \/ Fail
       \/ \E t \in Threads, n \in 1 .. MaxItems : Reset(t, n)
       \/ \E t \in Threads : \/ WaitBegin(t) \/ WaitTest(t) \/ WaitCheck(t)
                             \/ WaitSleep(t) \/ WaitSpurious(t)
       \/ \E t \in Threads : WaitLoad(t) \/ WaitReturn(t)
  BY <1>8, <1>9 DEF Next
<1> QED BY <1>2, <1>3, <1>4, <1>5, <1>6, <1>7, <1>10

\* What any step does to the queue: nothing, one claim, or one pop.
QueueMove ==
  \/ SameQueue /\ out' = out
  \/ \E t \in Threads : ClaimBy(t) /\ prod[t].req \in Requests /\ out' = out
  \/ Popped

\* Every step of a thread, in its call or woken without a reason, keeps what is
\* known of the queue and of the awaits.
LEMMA ThreadStep ==
  ASSUME Inv, NEW t \in Threads, Exec(t) \/ (WaitSpurious(t) /\ UNCHANGED queueVars)
         \/ \E n \in 1 .. MaxItems : Submit(t, n)
  PROVE  QueueInv' /\ AwaitInv' /\ QueueMove
<1> USE ChannelAssumption
<1>1. TypeOK /\ QueueInv /\ AwaitInv
  BY DEF Inv
<1>2. CASE \E n \in 1 .. MaxItems : Submit(t, n)
  <2>1. PICK n \in 1 .. MaxItems : Reset(t, n) /\ PushStart(t, <<t, n>>)
    BY <1>2 DEF Submit
  <2>2. /\ <<t, n>> \in Requests /\ Owner(<<t, n>>) = t /\ out' = out
        /\ waiter'[t].pc = "pushing" /\ \A p \in Threads \ {t} : waiter'[p] = waiter[p]
    BY <1>1, <2>1 DEF Owner, Reset, PushStart, TypeOK
  <2>3. QueueInv' /\ SameQueue
    BY <1>1, <2>1, <2>2, StartStep
  <2>4. AwaitInv'
    BY <2>1, <2>3, SubmitMoves
  <2> QED BY <2>2, <2>3, <2>4 DEF QueueMove
<1>3. CASE PushStep(t)
  <2>1. UNCHANGED awaitVars /\ waiter' = waiter /\ UNCHANGED <<cons, out>>
    BY <1>3 DEF PushStep, awaitVars, PushHead, PushTail, PushClaim, PushWrite, PushPublish
  <2>2. QueueInv' /\ (SameQueue \/ (PushClaim(t) /\ ClaimBy(t)))
    BY <1>1, <1>3, <2>1, LookStep, ClaimStep, WriteStep, PublishStep DEF PushStep
  <2>3. TakesTurns'
    BY <1>1, <2>1 DEF AwaitInv, TakesTurns, awaitVars
  <2>4. /\ \A p \in Producers \ {t} : prod'[p] = prod[p]
        /\ prod'[t].pc \in Starting =>
             prod[t].pc \in Starting /\ prod'[t].req = prod[t].req
    BY <1>1, <1>3 DEF PushStep, PushHead, PushTail, PushClaim, PushWrite, PushPublish,
                      TypeOK, At, Starting
  <2>5. Pushers' \subseteq Pushers /\ \A p \in Pushers' : prod'[p].req = prod[p].req
    BY <2>4 DEF Pushers
  <2>6. CASE SameQueue
    <3>1. AwaitInv'
      BY <2>1, <2>2, <2>3, <2>5, <2>6, StaysInPlace
    <3> QED BY <2>1, <2>2, <2>6, <3>1 DEF QueueMove
  <2>7. CASE PushClaim(t) /\ ClaimBy(t)
    <3>1. tail' # tail
      BY <1>1, <2>7 DEF ClaimBy, TypeOK
    <3>2. prod[t].pc = "claim" /\ prod'[t].pc = "write"
      BY <1>1, <2>7, <3>1 DEF PushClaim, At, TypeOK
    <3>3. t \in Pushers /\ Pushers' = Pushers \ {t} /\ prod[t].req \in Requests
      BY <1>1, <2>4, <3>2 DEF Pushers, Starting, QueueInv, PushOwn
    <3>4. AwaitInv'
      BY <2>1, <2>2, <2>5, <2>7, <3>3, ClaimMoves
    <3> QED BY <2>1, <2>2, <2>7, <3>3, <3>4 DEF QueueMove
  <2> QED BY <2>2, <2>6, <2>7
<1>4. CASE Pushed(t) \/ WaitStep(t) \/ (WaitSpurious(t) /\ UNCHANGED queueVars)
  <2>1. UNCHANGED queueVars /\ out' = out
    BY <1>4 DEF Pushed, WaitStep, queueVars
  <2>2. QueueInv' /\ SameQueue
    BY <1>1, <1>4, <2>1, AwaitStep DEF Pushed, WaitStep
  <2>3. AwaitInv'
    BY <1>4, <2>1, <2>2, WaiterMoves DEF Pushed, WaitStep
  <2> QED BY <2>1, <2>2, <2>3 DEF QueueMove
<1> QED BY <1>2, <1>3, <1>4 DEF Exec

\* So does every step of the scheduler: pop, register, settle, fail.
LEMMA SchedulerStep ==
  ASSUME Inv, PopStep \/ RegisterStep \/ ServeStep \/ FailStep
  PROVE  QueueInv' /\ AwaitInv' /\ QueueMove
<1>1. TypeOK /\ QueueInv /\ AwaitInv
  BY DEF Inv
<1>2. CASE PopStep
  <2>1. UNCHANGED awaitVars /\ waiter' = waiter /\ owner = Nobody /\ owner' = owner
        /\ prod' = prod
    BY <1>2 DEF PopStep, awaitVars, PopHead, PopTail, PopSeq, PopRead, PopRelease
  <2>2. TakesTurns'
    BY <1>1, <2>1 DEF AwaitInv, TakesTurns, awaitVars
  <2>3. CASE PopRelease
    <3>1. QueueInv' /\ Popped
      BY <1>1, <2>1, <2>3, ReleaseStep
    <3>2. AwaitInv'
      BY <2>1, <2>2, <3>1, PopMoves
    <3> QED BY <3>1, <3>2 DEF QueueMove
  <2>4. CASE PopHead \/ PopTail \/ PopSeq \/ PopRead
    <3>1. QueueInv' /\ SameQueue
      BY <1>1, <2>1, <2>4, PopLook
    <3>2. cons'.pc # "popped" /\ out' = out
      BY <1>1, <2>4 DEF PopHead, PopTail, PopSeq, PopRead, TypeOK
    <3>3. Pushers' = Pushers
      BY <2>1 DEF Pushers
    <3>4. AwaitInv'
      BY <2>1, <2>2, <3>1, <3>2, <3>3, StaysInPlace
    <3> QED BY <3>1, <3>2, <3>4 DEF QueueMove
  <2> QED BY <1>2, <2>3, <2>4 DEF PopStep
<1>3. CASE RegisterStep
  <2>1. /\ UNCHANGED <<head, tail, ring, seqs, prod>> /\ waiter' = waiter /\ out' = out
        /\ cons'.pc = "idle"
    BY <1>1, <1>3 DEF RegisterStep, Register, TypeOK
  <2>2. PopKnows'
    BY <2>1 DEF PopKnows
  <2>3. QueueInv' /\ SameQueue
    BY <1>1, <2>1, <2>2, RingAlone
  <2>4. AwaitInv'
    BY <1>3, <2>3, RegisterMoves
  <2> QED BY <2>1, <2>3, <2>4 DEF QueueMove
<1>4. CASE ServeStep \/ FailStep
  <2>1. UNCHANGED queueVars /\ out' = out
    BY <1>4 DEF ServeStep, FailStep, queueVars
  <2>2. QueueInv' /\ SameQueue
    BY <1>1, <1>4, <2>1, AwaitStep DEF FailStep
  <2>3. AwaitInv'
    BY <1>4, <2>1, <2>2, ServeMoves DEF FailStep
  <2> QED BY <2>1, <2>2, <2>3 DEF QueueMove
<1> QED BY <1>2, <1>3, <1>4

\* Every step keeps the invariant and is one of the three moves of the queue.
LEMMA InvStep == Inv /\ [Next]_vars => Inv' /\ (QueueMove \/ UNCHANGED vars)
<1> SUFFICES ASSUME Inv, [Next]_vars PROVE Inv' /\ (QueueMove \/ UNCHANGED vars)
  OBVIOUS
<1>1. CASE Next
  <2>1. QueueInv' /\ AwaitInv' /\ QueueMove
    BY <1>1, ThreadStep, SchedulerStep DEF Next
  <2>2. TypeOK'
    BY <1>1, <2>1, QueueTypes, AwaitTypes DEF TypeOK
  <2> QED BY <2>1, <2>2 DEF Inv
<1>2. CASE UNCHANGED vars
  <2>1. UNCHANGED queueVars /\ UNCHANGED awaitVars
    BY <1>2 DEF vars
  <2>2. TypeOK'
    BY <2>1 DEF Inv, TypeOK, queueVars, awaitVars
  <2>3. PopKnows' /\ TakesTurns' /\ UNCHANGED <<head, tail, ring, seqs, prod, cons, out, waiter>>
    BY <2>1 DEF Inv, QueueInv, AwaitInv, PopKnows, TakesTurns, queueVars, awaitVars
  <2>4. QueueInv' /\ SameQueue
    BY <2>3, RingAlone DEF Inv
  <2>5. Pushers' = Pushers
    BY <2>3 DEF Pushers
  <2>6. AwaitInv'
    BY <2>1, <2>3, <2>4, <2>5, StaysInPlace
  <2> QED BY <1>2, <2>2, <2>4, <2>6 DEF Inv
<1> QED BY <1>1, <1>2

\* The empty ring and the resting awaits.
LEMMA InvInit == Init => Inv
<1> SUFFICES ASSUME Init PROVE Inv
  OBVIOUS
<1> USE DEF Init, QueueInit, AwaitInit
<1>1. TypeOK
  BY CapAssumption, PushAssumption, AwaitAssumption DEF TypeOK
<1>2. Waiting = {} /\ Pushers = {} /\ ~Live
  BY DEF Waiting, Pushers, Starting, Live
<1>3. RingBound /\ HeadSeen /\ SeqsBound /\ HeldApart /\ PopKnows /\ PushOwn /\ ClaimsFilled
  BY <1>2, CapAssumption
  DEF RingBound, HeadSeen, SeqsBound, HeldApart, PopKnows, PushOwn, ClaimsFilled, Holding, Cells
<1>4. PushBound
  BY <1>2, FS_EmptySet, PushAssumption DEF PushBound
<1>5. AwaitInv
  BY <1>2 DEF AwaitInv, SentUntouched, OneRequest, CountBound, LiveExact, TakesTurns,
              ReturnOver, Waits
<1> QED BY <1>1, <1>3, <1>4, <1>5 DEF Inv, QueueInv

\* Inv holds in every reachable state (push, pop, wait, reset, active_*).
LEMMA Invariance == Spec => []Inv
<1>1. Inv /\ [Next]_vars => Inv'
  BY InvStep
<1> QED BY InvInit, <1>1, PTL DEF Spec

-----------------------------------------------------------------------------
(* Theorems.                                                               *)

\* The variables of the channel keep their types: head_ and tail_ stay within
\* the pushes, a registered request has an owner and a size (slot.h, scheduler.cpp).
THEOREM ChannelTyped == Spec => []TypeOK
<1>1. Inv => TypeOK
  BY DEF Inv
<1> QED BY Invariance, <1>1, PTL

\* mpsc_alloc_queue::push writes a cell that no other push writes and that pop
\* does not read, for every ring size and every number of exec threads.
THEOREM CellsExclusive == Spec => []CellExclusive
<1>1. Inv => CellExclusive
  <2> SUFFICES ASSUME Inv, NEW p \in Producers, At(p, "write")
               PROVE  /\ ~(cons.pc = "read" /\ cons.h % Cap = prod[p].t % Cap)
                      /\ \A r \in Producers \ {p} :
                           At(r, "write") => prod[r].t % Cap # prod[p].t % Cap
    BY DEF CellExclusive
  <2>1. /\ TypeOK /\ RingBound /\ HeldApart /\ PopKnows
        /\ prod[p].t \in Waiting /\ seqs[prod[p].t % Cap] # prod[p].t + 1
    BY DEF Inv, QueueInv, HeldApart, At, Holding
  <2>2. ASSUME cons.pc = "read", cons.h % Cap = prod[p].t % Cap PROVE FALSE
    <3>1. head \in Waiting /\ cons.h = head /\ seqs[head % Cap] = head + 1
      BY <2>1, <2>2 DEF PopKnows, Waiting, TypeOK
    <3>2. head = prod[p].t
      BY <2>1, <2>2, <3>1, WaitingCell
    <3> QED BY <2>1, <3>1, <3>2
  <2>3. ASSUME NEW r \in Producers \ {p}, At(r, "write") PROVE prod[r].t % Cap # prod[p].t % Cap
    <3>1. prod[r].t \in Waiting /\ prod[r].t # prod[p].t
      BY <2>1, <2>3 DEF HeldApart, At, Holding
    <3> QED BY <2>1, <3>1, WaitingCell
  <2> QED BY <2>2, <2>3
<1> QED BY Invariance, <1>1, PTL

\* expert_scheduler::active_settle and active_fail store to an await only while
\* its thread is inside pin_layer.
THEOREM StoresBeforeReturn == Spec => []NoStoreAfterReturn
<1>1. Inv => NoStoreAfterReturn
  BY DEF Inv, AwaitInv, LiveExact, Live, NoStoreAfterReturn
<1> QED BY Invariance, <1>1, PTL

\* batch_await_t::wait returns to an await whose items are all counted, or that
\* has failed, and to which nobody will store.
THEOREM ReturnsSettled == Spec => []ReturnSettled
<1>1. Inv => ReturnSettled
  <2> SUFFICES ASSUME Inv, NEW t \in Threads, Waits(t, "return")
               PROVE  (failed[t] \/ done[t] = target[t]) /\ (owner = t => wake # "none")
    BY DEF ReturnSettled
  <2>1. failed[t] \/ done[t] = target[t]
    BY DEF Inv, AwaitInv, ReturnOver
  <2>2. owner = t => ~Live /\ owner # Nobody
    BY AwaitAssumption DEF Inv, AwaitInv, LiveExact, Waits
  <2> QED BY <2>1, <2>2 DEF Live
<1> QED BY Invariance, <1>1, PTL

-----------------------------------------------------------------------------
(* The ring implements the bounded queue.                                  *)

\* The requests claimed and not popped, oldest first: q of BoundedFifo.
Queued == [i \in 1 .. tail - head |-> Claimed(head + i - 1)]

QueuedType == Queued \in Seq(Requests) /\ Len(Queued) = tail - head

\* It is a sequence of tail - head requests.
LEMMA QueuedFacts == Inv => QueuedType
<1> SUFFICES ASSUME Inv PROVE QueuedType
  OBVIOUS
<1>1. head \in Nat /\ tail \in Nat /\ head <= tail /\ tail - head <= Cap
  BY PushAssumption DEF Inv, TypeOK, QueueInv, RingBound
<1>2. \A i \in 1 .. tail - head : head + i - 1 \in Waiting
  BY <1>1 DEF Waiting
<1>3. \A i \in 1 .. tail - head : Claimed(head + i - 1) \in Requests
  BY <1>2 DEF Inv, QueueInv, ClaimsFilled
<1>4. tail - head \in Nat
  BY <1>1
<1> QED BY <1>1, <1>3, <1>4 DEF Queued, QueuedType

\* A claim appends, a pop takes the head, and nothing else moves the queue.
LEMMA MoveRefines ==
  Inv /\ Inv' /\ (QueueMove \/ UNCHANGED vars) => [Fifo!Next]_<<Queued, out>>
<1> SUFFICES ASSUME Inv, Inv', QueueMove \/ UNCHANGED vars
             PROVE  Fifo!Next \/ UNCHANGED <<Queued, out>>
  OBVIOUS
<1>1. /\ head \in Nat /\ tail \in Nat /\ head <= tail /\ tail - head <= Cap
      /\ Queued \in Seq(Requests) /\ Len(Queued) = tail - head
      /\ DOMAIN Queued = 1 .. tail - head
      /\ \A i \in 1 .. tail - head : Queued[i] = Claimed(head + i - 1)
  BY QueuedFacts, PushAssumption DEF Queued, QueuedType, Inv, TypeOK, QueueInv, RingBound
<1>2. /\ Queued' \in Seq(Requests) /\ Len(Queued') = tail' - head'
      /\ \A i \in 1 .. tail' - head' : \A n \in {head' + i - 1} : Queued'[i] = Claimed(n)'
  <2>1. Inv' => QueuedType'
    BY QueuedFacts, PTL
  <2> QED BY <2>1 DEF Queued, QueuedType
<1>3. CASE SameQueue /\ out' = out
  <2>1. \A i \in 1 .. tail - head : Queued'[i] = Queued[i]
    BY <1>1, <1>2, <1>3 DEF SameQueue, Waiting
  <2>2. Queued' = Queued
    BY <1>1, <1>2, <1>3, <2>1 DEF SameQueue
  <2> QED BY <1>3, <2>2
<1>4. CASE \E t \in Threads : ClaimBy(t) /\ prod[t].req \in Requests /\ out' = out
  <2>1. PICK t \in Threads : ClaimBy(t) /\ prod[t].req \in Requests /\ out' = out
    BY <1>4
  <2> DEFINE r == prod[t].req
  <2>2. /\ head' = head /\ tail' = tail + 1 /\ tail - head < Cap
        /\ \A n \in Waiting : Claimed(n)' = Claimed(n)
        /\ \A n \in {tail} : Claimed(n)' = r
    BY <2>1 DEF ClaimBy
  <2>3. \A i \in 1 .. tail - head : Queued'[i] = Queued[i]
    <3> SUFFICES ASSUME NEW i \in 1 .. tail - head PROVE Queued'[i] = Queued[i]
      OBVIOUS
    <3>1. i \in 1 .. tail' - head' /\ head' + i - 1 = head + i - 1 /\ head + i - 1 \in Waiting
      BY <1>1, <2>2 DEF Waiting
    <3> HIDE DEF Queued
    <3> QED BY <1>1, <1>2, <2>2, <3>1
  <2>4. Queued'[tail - head + 1] = r
    BY <1>1, <1>2, <2>2
  <2>5. Queued' = Append(Queued, r)
    BY <1>1, <1>2, <2>1, <2>2, <2>3, <2>4
  <2>6. Fifo!Push(r)
    BY <1>1, <2>1, <2>2, <2>5 DEF Fifo!Push, Queued
  <2> QED BY <2>1, <2>6 DEF Fifo!Next
<1>5. CASE Popped
  <2>1. /\ head < tail /\ head' = head + 1 /\ tail' = tail /\ out' = Claimed(head)
        /\ \A n \in Waiting : Claimed(n)' = Claimed(n)
    BY <1>5 DEF Popped
  <2>2. Queued # <<>> /\ Head(Queued) = Claimed(head)
    BY <1>1, <2>1
  <2>3. \A i \in 1 .. tail - head - 1 : Queued'[i] = Queued[i + 1]
    BY <1>1, <1>2, <2>1 DEF Waiting
  <2>4. Queued' = Tail(Queued)
    <3>1. Queued' \in Seq(Requests) /\ Queued \in Seq(Requests) /\ Tail(Queued) \in Seq(Requests)
      BY <1>1, <1>2, <2>2
    <3>2. Len(Queued') = Len(Queued) - 1 /\ Len(Tail(Queued)) = Len(Queued) - 1
      BY <1>1, <1>2, <2>1, <2>2
    <3>3. \A i \in 1 .. Len(Queued) - 1 : Queued'[i] = Queued[i + 1] /\ Tail(Queued)[i] = Queued[i + 1]
      BY <1>1, <2>1, <2>2, <2>3
    <3> QED
      BY <3>1, <3>2, <3>3
  <2>5. Fifo!Pop
    BY <2>1, <2>2, <2>4 DEF Fifo!Pop, Queued
  <2> QED BY <2>5 DEF Fifo!Next
<1>6. CASE UNCHANGED vars
  <2>1. UNCHANGED <<head, tail, ring, prod, out>>
    BY <1>6 DEF vars, queueVars
  <2>2. \A n \in Nat : Claimed(n)' = Claimed(n)
    BY <2>1 DEF Claimed, At
  <2>3. SameQueue
    BY <1>1, <2>1, <2>2 DEF SameQueue, Waiting
  <2> QED BY <1>3, <2>1, <2>3
<1> QED BY <1>3, <1>4, <1>5, <1>6 DEF QueueMove

\* mpsc_alloc_queue is a first-in first-out queue of at most cap_ requests:
\* every step of the ring is a push, a pop or nothing to see.
THEOREM RingIsFifo == Spec => FifoSpec
<1>1. Init => Fifo!Init
  <2> SUFFICES ASSUME Init PROVE Fifo!Init
    OBVIOUS
  <2>1. Queued = <<>>
    BY DEF Init, QueueInit, Queued
  <2> QED BY <2>1 DEF Init, QueueInit, Fifo!Init, Queued
<1>2. Inv /\ [Next]_vars => Inv' /\ [Fifo!Next]_<<Queued, out>>
  BY InvStep, MoveRefines
<1>3. Inv /\ [Next]_vars => Inv' /\ [Fifo!Next]_<<[i \in 1 .. tail - head |-> Claimed(head + i - 1)], out>>
  BY <1>2 DEF Queued
<1> QED BY InvInit, <1>1, <1>3, PTL DEF Spec, FifoSpec, Fifo!Spec

=============================================================================
