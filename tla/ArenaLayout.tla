---------------------------- MODULE ArenaLayout ----------------------------
(***************************************************************************)
(* The memory plan of a graph build: layout_arena and pack_interval of     *)
(* backend/route_b_chain.cpp, with the split of a layer they work on       *)
(* (build_layer_plans).                                                    *)
(*                                                                         *)
(* A graph is a sequence of nodes in graph order.  A node is a record:     *)
(*   layer   the layer it belongs to                                       *)
(*   part    "dense", "moe" (in the MoE closure) or "out" (ffn_moe_out,    *)
(*           the last node of the closure)                                 *)
(*   src     what it reads: nodes (positive) and input leaves (negative)   *)
(*   view    the node it is a view of, or 0                                *)
(*   dev     its device                                                    *)
(*   size    the size of its result                                        *)
(* Sizes count units of which Align make one 64-byte line.  Every leaf is  *)
(* in host memory and of size 1; a view has one root and no view of views. *)
(***************************************************************************)
EXTENDS Integers, Sequences, TLC, SequencesExt, FiniteSetsExt

CONSTANTS
  Host,      \* the host plan's device key
  Align      \* units in one line

ASSUME AlignAssumption == Align \in Nat \ {0}

AlignUp(x) == ((x + Align - 1) \div Align) * Align
Most(S)    == Max(S \cup {0})

\* The same function, each value worked out once.
Table(f) == f @@ <<>>

\* The elements of a set, one after the other.
AnyOrder(S) == FoldSet(LAMBDA x, seq : Append(seq, x), <<>>, S)

Nodes(g)       == DOMAIN g
NLayers(g)     == g[Len(g)].layer
InLayer(g, L)  == SelectSeq([n \in Nodes(g) |-> n], LAMBDA n : g[n].layer = L)
IsView(g, n)   == g[n].view # 0
Root(g, t)     == IF t > 0 /\ IsView(g, t) THEN g[t].view ELSE t
DevOf(g, t)    == IF t < 0 THEN Host ELSE g[t].dev
SizeOf(g, t)   == IF t < 0 THEN 1 ELSE g[t].size
SumSize(g, S)  == MapThenSumSet(LAMBDA t : SizeOf(g, t), S)

----------------------------------------------------------------------------
(* build_layer_plans: the tail of a layer is what its moe_out flows into,  *)
(* the head is the rest without the closure.                               *)

Downstream(g, L) ==
  LET Grow(down, n) ==
        IF g[n].part = "out" \/ g[n].src \cap down # {} THEN down \cup {n} ELSE down
  IN  FoldLeft(Grow, {}, InLayer(g, L))

Closure(g, L)   == SelectSeq(InLayer(g, L), LAMBDA n : g[n].part # "dense")
DenseTail(g, L) == SelectSeq(InLayer(g, L), LAMBDA n : g[n].part = "dense" /\ n \in Downstream(g, L))
DenseHead(g, L) == SelectSeq(InLayer(g, L), LAMBDA n : g[n].part = "dense" /\ n \notin Downstream(g, L))

\* Submission units: the first head, then closure, tail and next head of each
\* layer.
Units(g) ==
  LET first   == DenseHead(g, 1)
      Unit(L) == Closure(g, L) \o DenseTail(g, L)
                   \o (IF L < NLayers(g) THEN DenseHead(g, L + 1) ELSE <<>>)
  IN  (IF first = <<>> THEN <<>> ELSE <<first>>) \o [L \in 1..NLayers(g) |-> Unit(L)]

UnitIn(us, n) == CHOOSE k \in DOMAIN us : n \in ToSet(us[k])

----------------------------------------------------------------------------
(* The sets of tensors by how long they live.                              *)

\* Read in another layer, whatever reads it.
Carry(g) ==
  {s \in Nodes(g) : \E n \in Nodes(g) : s \in g[n].src /\ g[n].layer # g[s].layer}

Reach(g, s) == Max({g[n].layer : n \in {m \in Nodes(g) : s \in g[m].src}}) - g[s].layer

Carry1(g) == {s \in Carry(g) : ~IsView(g, s) /\ Reach(g, s) <= 1}
CarryN(g) == {s \in Carry(g) : ~IsView(g, s) /\ Reach(g, s) > 1}

\* Mutant: reads through a view do not count.
Sync_NoRoots(g, us) ==
  {t \in Nodes(g) \ Carry(g) :
     /\ ~IsView(g, t)
     /\ \E n \in Nodes(g) : t \in g[n].src /\ ~IsView(g, n) /\ UnitIn(us, n) # UnitIn(us, t)}

\* Read by another unit of the same layer: what a head leaves for the closure
\* and the tail of its layer.
Sync(g, us) ==
  {t \in Nodes(g) \ Carry(g) :
     /\ ~IsView(g, t)
     /\ \E n \in Nodes(g) :
          /\ ~IsView(g, n)
          /\ t \in {Root(g, s) : s \in g[n].src}
          /\ UnitIn(us, n) # UnitIn(us, t)}

----------------------------------------------------------------------------
(* Transfers: a dense node with an operand on another device reads a copy  *)
(* (a shell) on its own.  One shell for a producer, device, stage and      *)
(* layer; the closure stages its own operands.                             *)

Crosses(g, n, s) ==
  /\ g[n].part = "dense"
  /\ ~(s > 0 /\ IsView(g, s))
  /\ DevOf(g, s) # g[n].dev

Relay(g, n, s) ==
  [src   |-> s, dev |-> g[n].dev, layer |-> g[n].layer,
   stage |-> IF /\ s > 0 /\ g[s].layer = g[n].layer
                /\ n \in Downstream(g, g[n].layer)
             THEN "TAIL" ELSE "FRONT"]

Relays(g) ==
  UNION {{Relay(g, n, s) : s \in {t \in g[n].src : Crosses(g, n, t)}} : n \in Nodes(g)}

----------------------------------------------------------------------------
(* pack_interval: blocks by falling size, each past whatever of its time   *)
(* it collides with.  The result gives the offset of each block.           *)

\* Mutant: blocks collide whenever they live.
Clash_AnyTime(size, start, end, placed, i, off) ==
  {p \in DOMAIN placed : off < placed[p] + size[p] /\ placed[p] < off + size[i]}

Clash(size, start, end, placed, i, off) ==
  {p \in DOMAIN placed :
     /\ ~(end[i] < start[p] \/ end[p] < start[i])
     /\ off < placed[p] + size[p]
     /\ placed[p] < off + size[i]}

PackOrder(size) ==
  SortSeq([i \in DOMAIN size |-> i], LAMBDA x, y : size[x] > size[y] \/ (size[x] = size[y] /\ x < y))

PackInterval(size, start, end) ==
  LET total == FoldFunction(+, 0, size)
      Place(placed, i) ==
        LET clash(off)  == Clash(size, start, end, placed, i, off)
            probe[off \in 0..total] ==
              IF clash(off) = {} THEN off
              ELSE probe[Max({placed[p] + size[p] : p \in clash(off)})]
        IN  placed @@ (i :> probe[0])
  IN  FoldLeft(Place, <<>>, PackOrder(size))

PackedSize(size, off) == Most({off[i] + size[i] : i \in DOMAIN size})

----------------------------------------------------------------------------
(* The regions of one device, in the order they lie in its buffer:         *)
(* carry1, carryN, sync, scratch, xfer slot 0 (TAIL), xfer slot 1.         *)

InOrder(S) == SortSeq(AnyOrder(S), <)

\* Offsets of tensors laid one after the other, each at the start of a line.
Bump(g, seq) ==
  LET off[k \in DOMAIN seq] ==
        IF k = 1 THEN 0 ELSE AlignUp(off[k - 1] + SizeOf(g, seq[k - 1]))
  IN  Table([t \in ToSet(seq) |-> off[CHOOSE k \in DOMAIN seq : seq[k] = t]])

On(g, D, S) == {t \in S : g[t].dev = D}

\* Room for the largest of several sets that take turns.
Turns(g, sets) == AlignUp(Most({SumSize(g, S) : S \in sets}))

\* When the nodes of a unit write, and when they are last read in it.
Born(unit, n) == CHOOSE k \in DOMAIN unit : unit[k] = n
LastRead(g, unit, n) ==
  LET reads == {k \in DOMAIN unit : n \in {Root(g, s) : s \in g[unit[k]].src}}
  IN  IF reads = {} THEN Len(unit) + 1 ELSE Max(reads \cup {Born(unit, n)})

\* The blocks of a unit in the scratch window of a device, as pack_interval
\* takes them.
ScratchBlocks(g, us, D, k) ==
  LET pinned == Carry(g) \cup Sync(g, us)
      seq    == SelectSeq(us[k], LAMBDA n : g[n].dev = D /\ ~IsView(g, n) /\ n \notin pinned)
  IN  [node  |-> seq,
       size  |-> [i \in DOMAIN seq |-> SizeOf(g, seq[i])],
       start |-> [i \in DOMAIN seq |-> Born(us[k], seq[i])],
       end   |-> [i \in DOMAIN seq |-> LastRead(g, us[k], seq[i])]]

\* carryN: blocks that all live to the end.
RetainedBlocks(g, D) ==
  LET seq == InOrder(On(g, D, CarryN(g)))
  IN  [node  |-> seq,
       size  |-> [i \in DOMAIN seq |-> SizeOf(g, seq[i])],
       start |-> [i \in DOMAIN seq |-> i],
       end   |-> [i \in DOMAIN seq |-> Len(seq)]]

Packed(b) ==
  LET off == PackInterval(b.size, b.start, b.end)
  IN  [room |-> PackedSize(b.size, off),
       off  |-> Table([n \in ToSet(b.node) |-> off[CHOOSE i \in DOMAIN b.node : b.node[i] = n]])]

\* Mutant: one slot for the shells of all stages.
Slot_One(r) == 0

Slot(r) == IF r.stage = "TAIL" THEN 0 ELSE 1

\* A region is its room and the offsets of its tensors within it.
Carry1Region(g, D) ==
  LET all   == On(g, D, Carry1(g))
      Of(L) == {t \in all : g[t].layer = L}
      buf   == Turns(g, {Of(L) : L \in 1..NLayers(g)})
      off   == Table([L \in 1..NLayers(g) |-> Bump(g, InOrder(Of(L)))])
  IN  [room |-> 2 * buf,
       off  |-> Table([t \in all |-> (IF g[t].layer % 2 = 1 THEN buf ELSE 0) + off[g[t].layer][t]])]

SyncRegion(g, us, D) ==
  LET all   == On(g, D, Sync(g, us))
      Of(k) == all \cap ToSet(us[k])
      off   == Table([k \in DOMAIN us |-> Bump(g, InOrder(Of(k)))])
  IN  [room |-> Turns(g, {Of(k) : k \in DOMAIN us}),
       off  |-> Table([t \in all |-> off[UnitIn(us, t)][t]])]

ScratchRegion(g, us, D) ==
  LET win == Table([k \in DOMAIN us |-> Packed(ScratchBlocks(g, us, D, k))])
      all == UNION {DOMAIN win[k].off : k \in DOMAIN us}
  IN  [room |-> Most({win[k].room : k \in DOMAIN us}),
       off  |-> Table([t \in all |-> win[UnitIn(us, t)].off[t]])]

\* One xfer slot: the shells of a layer side by side, layers taking turns.
XferSlot(g, D, slot) ==
  LET all   == {r \in Relays(g) : r.dev = D /\ Slot(r) = slot}
      Of(L) == {r.src : r \in {x \in all : x.layer = L}}
      off   == Table([L \in 1..NLayers(g) |-> Bump(g, InOrder(Of(L)))])
  IN  [room |-> Turns(g, {Of(L) : L \in 1..NLayers(g)}),
       off  |-> Table([r \in all |-> off[r.layer][r.src]])]

Slack == 4 * Align

\* What a build leaves: the split of each layer; the place of a node and of a
\* shell in the buffer of its device; the size of each buffer.
LayoutOf(g) ==
  LET us   == Units(g)
      devs == {g[n].dev : n \in Nodes(g)}
      R    == Table([D \in devs |->
                 <<Carry1Region(g, D), Packed(RetainedBlocks(g, D)), SyncRegion(g, us, D),
                   ScratchRegion(g, us, D), XferSlot(g, D, 0), XferSlot(g, D, 1)>>])
      Base(D, i) == FoldLeft(+, 0, [j \in 1..(i - 1) |-> R[D][j].room])
  IN  [at    |-> [n \in {m \in Nodes(g) : ~IsView(g, m)} |->
                    LET D == g[n].dev
                        i == CHOOSE j \in 1..4 : n \in DOMAIN R[D][j].off
                    IN  Base(D, i) + R[D][i].off[n]],
       shell |-> [r \in Relays(g) |->
                    LET i == 5 + Slot(r) IN Base(r.dev, i) + R[r.dev][i].off[r]],
       need  |-> [D \in devs |-> Base(D, 7) + Slack],
       units |-> us,
       sync  |-> Sync(g, us),
       head  |-> [L \in 1..NLayers(g) |-> DenseHead(g, L)],
       moe   |-> [L \in 1..NLayers(g) |-> Closure(g, L)],
       tail  |-> [L \in 1..NLayers(g) |-> DenseTail(g, L)]]
=============================================================================
