------------------------------ MODULE MixSplit ------------------------------
(***************************************************************************)
(* build_mix_plan: the routing ids of one layer, a rectangle of K slots    *)
(* for each token, are split by the pool the routed expert lives in; each  *)
(* pool's ragged share is peeled into full rectangles, the rounds.  All    *)
(* indices count from 0, as in the code; a plan's arrays are sequences.    *)
(***************************************************************************)
EXTENDS Integers, FiniteSets, SequencesExt

CONSTANTS NExpert, NPools

ASSUME MixAssumption == NExpert \in Nat \ {0} /\ NPools \in Nat \ {0}

Ascending(S) == SetToSortSeq(S, <)

\* The pool that slot k of token t asks, or -1: the expert is unknown or has
\* no pool.
SlotPool(ids, pools, t, k) ==
  LET e == ids[t][k] IN
  IF e \in 0 .. NExpert - 1 /\ pools[e] \in 0 .. NPools - 1 THEN pools[e] ELSE -1

\* The slots of token t that pool p serves (ks_of).
SlotsIn(ids, pools, p, t) ==
  Ascending({k \in DOMAIN ids[t] : SlotPool(ids, pools, t, k) = p})

\* Mutant of PeelBounds: one round up to the largest hit count.
PeelOnce(counts) == <<0, Max(counts)>>

\* 0 and then the distinct hit counts, ascending (v[0..m]).
PeelBounds(counts) == <<0>> \o Ascending(counts \ {0})

\* Round j takes, of each token with at least v[j] hits, hits v[j-1] to
\* v[j] - 1.
PoolRounds(ids, pools, p) ==
  LET ks == [t \in DOMAIN ids |-> SlotsIn(ids, pools, p, t)]
      v  == PeelBounds({Len(ks[t]) : t \in DOMAIN ids})
      Slice(t, j) == [s \in 1 .. v[j + 1] - v[j] |-> [t |-> t, k |-> ks[t][v[j] + s]]]
      Active(j) == Ascending({t \in DOMAIN ids : Len(ks[t]) >= v[j + 1]})
  IN  [j \in 1 .. Len(v) - 1 |->
         [pool |-> p, width |-> v[j + 1] - v[j], nActive |-> Len(Active(j)),
          cells |-> FlattenSeq([a \in DOMAIN Active(j) |-> Slice(Active(j)[a], j)])]]

\* The flat scatter array and the rounds, spans of it.
MixPlan(ids, pools) ==
  LET rs == FlattenSeq([p \in 1 .. NPools |-> PoolRounds(ids, pools, p - 1)])
      flat == FlattenSeq([i \in DOMAIN rs |-> rs[i].cells])
      Off(i) == FoldLeft(LAMBDA n, r : n + r.width * r.nActive, 0, SubSeq(rs, 1, i - 1))
  IN  [scatter |-> flat,
       rounds |-> [i \in DOMAIN rs |-> [pool |-> rs[i].pool, width |-> rs[i].width,
                                        nActive |-> rs[i].nActive, off |-> Off(i)]]]

\* The cell of round column a, slot s (scatter[off + a * width + s]).
CellAt(plan, r, a, s) == plan.scatter[r.off + a * r.width + s + 1]
=============================================================================
