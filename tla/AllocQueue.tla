----------------------------- MODULE AllocQueue -----------------------------
(***************************************************************************)
(* mpsc_alloc_queue (src/src/backend/slot.h): the bounded ring through     *)
(* which compute threads hand whole-layer requests to the scheduler        *)
(* thread.  Every atomic load, store and exchange is a step of its own;    *)
(* the payload of a cell is plain memory, published by the cell's          *)
(* generation.  head_ and tail_ are uint32_t in the code; they are numbers *)
(* here, as no run of the program pushes 2^32 requests while one push is   *)
(* stalled.  A weak exchange that fails without contention is one more     *)
(* trip round the loop, as a contended one is.                             *)
(***************************************************************************)
EXTENDS Integers, FiniteSets, Sequences

CONSTANTS
  Producers,  \* compute threads
  Requests,   \* what they push
  Cap,        \* cap_
  MaxPush,    \* bound: requests pushed in a behaviour
  NoRequest   \* an unwritten cell

ASSUME CapAssumption == Cap \in Nat \ {0} /\ NoRequest \notin Requests
ASSUME PushAssumption == MaxPush \in Nat /\ IsFiniteSet(Producers)

VARIABLES
  head,  \* head_: requests popped
  tail,  \* tail_: cells claimed
  ring,  \* ring_: the payloads
  seqs,  \* seqs_: the publish generation of each cell
  prod,  \* per producer: where push stands, its request, its locals
  cons,  \* where pop stands, and its locals
  out    \* the request the last successful pop returned

queueVars == <<head, tail, ring, seqs, prod, cons, out>>

Cells == 0 .. Cap - 1

QueueInit ==
  /\ head = 0 /\ tail = 0
  /\ ring = [c \in Cells |-> NoRequest]
  /\ seqs = [c \in Cells |-> 0]
  /\ prod = [p \in Producers |-> [pc |-> "idle", req |-> NoRequest, h |-> 0, t |-> 0]]
  /\ cons = [pc |-> "idle", h |-> 0, req |-> NoRequest]
  /\ out = NoRequest

-----------------------------------------------------------------------------
(* push.                                                                   *)

At(p, pc) == prod[p].pc = pc

\* Every push takes effect, so at most MaxPush are ever started.
PushStart(p, r) ==
  /\ At(p, "idle")
  /\ tail + Cardinality({q \in Producers : prod[q].pc \in {"head", "tail", "claim"}})
       < MaxPush
  /\ prod' = [prod EXCEPT ![p].pc = "head", ![p].req = r]
  /\ UNCHANGED <<head, tail, ring, seqs, cons, out>>

PushHead(p) ==
  /\ At(p, "head")
  /\ prod' = [prod EXCEPT ![p].pc = "tail", ![p].h = head]
  /\ UNCHANGED <<head, tail, ring, seqs, cons, out>>

\* The head seen may be stale by now, the queue only emptier for it.
PushTail(p) ==
  /\ At(p, "tail")
  /\ prod' = IF tail - prod[p].h >= Cap
             THEN [prod EXCEPT ![p].pc = "head"]
             ELSE [prod EXCEPT ![p].pc = "claim", ![p].t = tail]
  /\ UNCHANGED <<head, tail, ring, seqs, cons, out>>

\* Mutant: the claim is a plain store, not an exchange.
PushClaim_Store(p) ==
  /\ At(p, "claim")
  /\ tail' = prod[p].t + 1
  /\ prod' = [prod EXCEPT ![p].pc = "write"]
  /\ UNCHANGED <<head, ring, seqs, cons, out>>

PushClaim(p) ==
  /\ At(p, "claim")
  /\ IF tail = prod[p].t
     THEN tail' = tail + 1 /\ prod' = [prod EXCEPT ![p].pc = "write"]
     ELSE tail' = tail /\ prod' = [prod EXCEPT ![p].pc = "head"]
  /\ UNCHANGED <<head, ring, seqs, cons, out>>

PushWrite(p) ==
  /\ At(p, "write")
  /\ ring' = [ring EXCEPT ![prod[p].t % Cap] = prod[p].req]
  /\ prod' = [prod EXCEPT ![p].pc = "publish"]
  /\ UNCHANGED <<head, tail, seqs, cons, out>>

PushPublish(p) ==
  /\ At(p, "publish")
  /\ seqs' = [seqs EXCEPT ![prod[p].t % Cap] = prod[p].t + 1]
  /\ prod' = [prod EXCEPT ![p].pc = "idle", ![p].req = NoRequest]
  /\ UNCHANGED <<head, tail, ring, cons, out>>

-----------------------------------------------------------------------------
(* pop, by the one scheduler thread.                                       *)

PopHead ==
  /\ cons.pc = "idle"
  /\ cons' = [cons EXCEPT !.pc = "tail", !.h = head]
  /\ UNCHANGED <<head, tail, ring, seqs, prod, out>>

PopTail ==
  /\ cons.pc = "tail"
  /\ cons' = [cons EXCEPT !.pc = IF cons.h = tail THEN "idle" ELSE "seq"]
  /\ UNCHANGED <<head, tail, ring, seqs, prod, out>>

\* Mutant: a cell that is claimed counts as published.
PopSeq_Claimed ==
  /\ cons.pc = "seq"
  /\ cons' = [cons EXCEPT !.pc = "read"]
  /\ UNCHANGED <<head, tail, ring, seqs, prod, out>>

PopSeq ==
  /\ cons.pc = "seq"
  /\ cons' = [cons EXCEPT !.pc = IF seqs[cons.h % Cap] = cons.h + 1 THEN "read"
                                 ELSE "idle"]
  /\ UNCHANGED <<head, tail, ring, seqs, prod, out>>

PopRead ==
  /\ cons.pc = "read"
  /\ cons' = [cons EXCEPT !.pc = "release", !.req = ring[cons.h % Cap]]
  /\ UNCHANGED <<head, tail, ring, seqs, prod, out>>

\* Only the consumer moves head_, so the exchange succeeds.
PopRelease ==
  /\ cons.pc = "release" /\ head = cons.h
  /\ head' = cons.h + 1 /\ out' = cons.req
  /\ cons' = [cons EXCEPT !.pc = "popped"]
  /\ UNCHANGED <<tail, ring, seqs, prod>>
=============================================================================
