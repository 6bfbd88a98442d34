----------------------------- MODULE ScatterPlan -----------------------------
(***************************************************************************)
(* build_scatter_plan: the token ids of a round's columns are cut into     *)
(* arithmetic runs, longest first, since one ggml_acc can add consecutive  *)
(* source columns only to destination columns in arithmetic progression.   *)
(* The columns are then computed in the order the runs list them.          *)
(***************************************************************************)
EXTENDS Integers, FiniteSets, SequencesExt

RunValues(r) == {r.start + i * r.delta : i \in 0 .. r.len - 1}

\* How many of v, v + d, v + 2d, ... are present before the first gap.
ChainLen(S, v, d) ==
  Max({n \in 1 .. Cardinality(S) : \A i \in 0 .. n - 1 : v + i * d \in S})

\* The longest chain of step d, the first start among equals.
LongestChain(S, d) ==
  LET starts == {v \in S : v - d \notin S}
      len == Max({ChainLen(S, v, d) : v \in starts})
  IN  [len |-> len, delta |-> d, start |-> Min({v \in starts : ChainLen(S, v, d) = len})]

Beats(a, b) ==
  \/ a.len > b.len
  \/ a.len = b.len /\ a.delta < b.delta
  \/ a.len = b.len /\ a.delta = b.delta /\ a.start < b.start

\* Mutant of BestRun: the bound on a chain of step d is one too small.
BestRunShort(S) ==
  LET range == Max(S) - Min(S)
      best[d \in 0 .. range] ==
        IF d = 0 THEN [len |-> 1, delta |-> 1, start |-> Min(S)]
        ELSE LET b == best[d - 1]  c == LongestChain(S, d) IN
             IF range \div d <= b.len \/ b.len = Cardinality(S) \/ ~Beats(c, b)
             THEN b ELSE c
  IN  best[range]

\* best_run, with its two early exits: no longer run is possible, or the run
\* is everything that remains.
BestRun(S) ==
  LET range == Max(S) - Min(S)
      best[d \in 0 .. range] ==
        IF d = 0 THEN [len |-> 1, delta |-> 1, start |-> Min(S)]
        ELSE LET b == best[d - 1]  c == LongestChain(S, d) IN
             IF range \div d + 1 <= b.len \/ b.len = Cardinality(S) \/ ~Beats(c, b)
             THEN b ELSE c
  IN  best[range]

\* The runs in extraction order.
Runs(S) ==
  LET runs[R \in SUBSET S] ==
        IF R = {} THEN <<>>
        ELSE LET b == BestRun(R) IN <<b>> \o runs[R \ RunValues(b)]
  IN  runs[S]

Rejected(t, nT) == (\E i \in DOMAIN t : t[i] >= nT) \/ ~IsInjective(t)

\* order: the input index of each tight column; segs: the runs with the tight
\* column each starts at.
ScatterPlan(t, nT) ==
  IF t = <<>> \/ Rejected(t, nT) THEN [order |-> <<>>, segs |-> <<>>]
  ELSE LET rs == Runs(ToSet(t))
           IndexOf(v) == (CHOOSE i \in DOMAIN t : t[i] = v) - 1
           Src(i) == FoldLeft(LAMBDA n, r : n + r.len, 0, SubSeq(rs, 1, i - 1))
       IN  [order |-> FlattenSeq([i \in DOMAIN rs |->
                        [j \in 1 .. rs[i].len |-> IndexOf(rs[i].start + (j - 1) * rs[i].delta)]]),
            segs |-> [i \in DOMAIN rs |-> [src |-> Src(i), dst |-> rs[i].start,
                                           len |-> rs[i].len, delta |-> rs[i].delta]]]
=============================================================================
