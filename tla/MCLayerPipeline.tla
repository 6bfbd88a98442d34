-------------------------- MODULE MCLayerPipeline --------------------------
(* Graphs for LayerPipeline: a chain of MoE layers as llama builds it. *)
EXTENDS LayerPipeline

CONSTANTS A, B, NL

\* Ids: 1 is the embedding, then K nodes a layer, then the output.
K == 9
Id(L, k) == 1 + (L - 1) * K + k
Tok == -1
Pos == -2

Node(L, part, src, view, dev, size) ==
  [layer |-> L, part |-> part, src |-> src, view |-> view, dev |-> dev, size |-> size]

\* One layer: attention, norm, ids, weights; expert activations, moe_out;
\* shared expert (or a view of the attention's result), post norm, output.
LayerNodes(x, L) ==
  LET N(k)  == Id(L, k)
      prev  == IF L = 1 THEN 1 ELSE Id(L - 1, 9)
      moe   == ~(x.dense1 /\ L = 1)
      ed    == IF moe THEN x.cl ELSE x.c1
      Dense(src, size) == Node(L, "dense", src, 0, x.c1, size)
  IN  << Dense({prev, Pos} \cup (IF x.skip /\ L = NL THEN {1} ELSE {}), 2),
         Dense({N(1)}, 2),
         Dense({N(2)}, x.ids),
         Dense({N(2), N(3)}, 1),
         Node(L, IF moe THEN "moe" ELSE "dense", {N(2), N(3)}, 0, ed, 3),
         Node(L, IF moe THEN "out" ELSE "dense", {N(5), N(4)}, 0, ed, 2),
         IF x.view THEN Node(L, "dense", {N(1)}, N(1), x.c1, 2) ELSE Dense({N(2)}, 2),
         Dense({N(6)}, 2),
         Dense({N(8), N(7), IF x.view THEN prev ELSE N(1)}, 2) >>

Graph(x) ==
  <<Node(1, "dense", {Tok}, 0, x.c2, 2)>>
    \o FlattenSeq([L \in 1..NL |-> LayerNodes(x, L)])
    \o <<Node(NL, "dense", {Id(NL, 9)}, 0, x.c2, 1)>>

\* --dense-placement C1 and C2, and the device of the expert pool (see SplitGraphs
\* for those left out); a residual through a view; the embedding read again in the
\* last layer; a first layer without experts.
Where == {Host} \cup Devices
MCGraphs ==
  {Graph([c1 |-> p[1], c2 |-> p[2], cl |-> p[3], ids |-> 2, view |-> v, skip |-> s, dense1 |-> d]) :
     p \in {q \in Where \X Where \X Where : q[1] = q[2] \/ q[1] # q[3]},
     v \in BOOLEAN, s \in BOOLEAN, d \in BOOLEAN}

Plain(p, ids) ==
  Graph([c1 |-> p[1], c2 |-> p[2], cl |-> p[3], ids |-> ids,
         view |-> FALSE, skip |-> FALSE, dense1 |-> FALSE])

\* 60 experts, 4 of them used: neither the ids nor the weights of one token
\* fill whole lines.
OddGraphs == {Plain(<<Host, Host, Host>>, 1), Plain(<<A, A, A>>, 1)}

\* The output on another device than the last layer and the experts: the place-c2
\* topology of docs/BENCHMARK.md, and C1 and the pool on the device without C2.
SplitGraphs == {Plain(<<Host, A, Host>>, 2), Plain(<<A, Host, A>>, 2)}

\* The sync region has no room for the padding between its tensors
\* (route_b_chain.cpp:599 against 600-607): where they fill whole lines nothing of
\* the windows behind it lies on them, else the last one reaches into a window.
SyncOverrun(x) ==
  LET l == LayoutOf(x)
      Bytes(n) == {<<x[n].dev, c>> : c \in l.at[n]..(l.at[n] + SizeOf(x, n) - 1)}
  IN  \E t \in l.sync, n \in DOMAIN l.at \ l.sync : Bytes(t) \cap Bytes(n) # {}
ASSUME PaddingMissing ==
  /\ \A x \in MCGraphs \cup SplitGraphs : ~SyncOverrun(x)
  /\ \A x \in OddGraphs : SyncOverrun(x)

\* The placements of MCGraphs are those for which no transfer is forgotten.
ASSUME PlacedGraphs == \A x \in MCGraphs : Placed(x) /\ Split(x)
=============================================================================
