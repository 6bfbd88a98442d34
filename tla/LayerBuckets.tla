---------------------------- MODULE LayerBuckets ----------------------------
(***************************************************************************)
(* exec_layer_burst_chain_buckets: one MoE layer's closure, computed as    *)
(* rounds of full rectangles on the CPU and on the devices that hold the   *)
(* routed experts.  Every round gathers its operands, folds the slots of a *)
(* token into one column and adds the columns into an accumulator of its   *)
(* target; the targets run at the same time and their partial sums are     *)
(* brought together in moe_out.                                            *)
(*                                                                         *)
(* A column's value is the bag of the expert evaluations summed into it,   *)
(* each as <<activation's token, routing weight's cell, expert>>.  A       *)
(* target is 0, the CPU, or a device pool; Out stands for moe_out's data.  *)
(* Left out: the ggml ops inside a round, sizes of the staging and arena   *)
(* buffers, and a moe_out that is not contiguous (upstream's sum and cont  *)
(* always are).                                                            *)
(***************************************************************************)
EXTENDS MixSplit, ScatterPlan, BagsExt

CONSTANTS
  Inputs,   \* layers to run: [ids, pools, ctx, outDev, tailDev], see LayerOK
  Out,      \* the memory of moe_out
  Junk      \* what moe_out held before the layer

\* ids: token -> slot -> expert; pools: expert -> pool; ctx: the pools with a
\* device context; outDev, tailDev: where moe_out and the layer's tail live.
LayerOK(in) ==
  /\ in.ctx \subseteq 1 .. NPools - 1
  /\ in.pools \in [0 .. NExpert - 1 -> 0 .. NPools - 1]
  /\ \A t \in DOMAIN in.ids : \A k \in DOMAIN in.ids[t] : in.ids[t][k] \in 0 .. NExpert - 1

ASSUME InputsAssumption == \A in \in Inputs : LayerOK(in)

VARIABLES
  in,        \* the layer's input
  plan,      \* build_mix_plan's result
  pc,        \* where the calling thread is
  st,        \* the status it will return
  todo,      \* the targets the current loop has still to visit
  ri,        \* rounds already built
  graphs,    \* target -> the rounds of its graph, in graph order
  tail,      \* whether the layer's tail was appended to the device graph
  mem,       \* Out and each target's accumulator -> token -> bag
  inflight,  \* devices whose submitted graph has not finished
  sums,      \* the accs gathered so far, added up
  tailRead,  \* moe_out as the fused tail read it, or <<>>
  owned,     \* rounds whose temporary buffers are allocated
  pinned     \* whether the layer's experts are pinned
vars == <<in, plan, pc, st, todo, ri, graphs, tail, mem, inflight, sums, tailRead, owned, pinned>>

-----------------------------------------------------------------------------
NT == Cardinality(DOMAIN in.ids)
NK == Cardinality(DOMAIN in.ids[0])
Tokens == DOMAIN in.ids
CPU == 0

\* The target of a round: its pool's device, or the CPU when the pool has no
\* execution context.
TargetOf(r) == IF r.pool \in in.ctx THEN r.pool ELSE CPU
DevTargets == {TargetOf(plan.rounds[i]) : i \in DOMAIN plan.rounds} \ {CPU}
HasCpuRound == \E i \in DOMAIN plan.rounds : TargetOf(plan.rounds[i]) = CPU
SingleDevTarget == Cardinality(DevTargets) = 1 /\ ~HasCpuRound

TokFull(r) == r.nActive = NT
CellFull(r) == TokFull(r) /\ r.width = NK

\* One round covers the whole grid: its columns are the layer's output.
DirectOut == Len(plan.rounds) = 1 /\ CellFull(plan.rounds[1])

\* Target d's graph leaves the complete output in moe_out itself.
InPlace(d) == in.outDev = d /\ (DirectOut \/ SingleDevTarget)

\* The memory target d accumulates into.
AccOf(d) == IF ~DirectOut /\ InPlace(d) THEN Out ELSE d

\* The memory target d's graph writes.
DestOf(d) == IF InPlace(d) THEN Out ELSE d

Zeros == [t \in Tokens |-> EmptyBag]

-----------------------------------------------------------------------------
(* Building a round *)

RoundTokens(r) == [a \in 1 .. r.nActive |-> CellAt(plan, r, a - 1, 0).t]
PlanOf(r) == ScatterPlan(RoundTokens(r), NT)

\* Mutant of CurOf: the gather forgets the tight order.
CurUnordered(r, order, i) == IF TokFull(r) THEN i ELSE CellAt(plan, r, i, 0).t

\* The token whose activation tight column i reads: the source itself when
\* every token is active, else a gathered row.
CurOf(r, order, i) == IF TokFull(r) THEN i ELSE CellAt(plan, r, order[i + 1], 0).t

\* The routing weight column i, slot s reads: in place, or gathered.
WeightOf(r, order, i, s) ==
  IF CellFull(r) THEN <<i, s>>
  ELSE LET c == CellAt(plan, r, order[i + 1], s) IN <<c.t, c.k>>

ExpertOf(r, order, i, s) ==
  LET c == CellAt(plan, r, order[i + 1], s) IN in.ids[c.t][c.k]

\* The tight columns after append_expert_fold.
Columns(r, order) ==
  [i \in 1 .. r.nActive |->
     FoldLeft(BagAdd, EmptyBag,
       [s \in 1 .. r.width |-> <<CurOf(r, order, i - 1), WeightOf(r, order, i - 1, s - 1),
                                 ExpertOf(r, order, i - 1, s - 1)>>])]

BuiltRound(r) ==
  LET sp == PlanOf(r) IN [id |-> ri, cols |-> Columns(r, sp.order), segs |-> sp.segs]

\* One ggml_acc: the columns of a run, added to tokens delta apart.
AddSeg(acc, cols, g) ==
  [t \in DOMAIN acc |->
     LET js == {j \in 0 .. g.len - 1 : g.dst + j * g.delta = t} IN
     IF js = {} THEN acc[t] ELSE acc[t] (+) cols[g.src + (CHOOSE j \in js : TRUE) + 1]]

\* What running the rounds of a graph leaves in its destination.
GraphResult(d) ==
  IF DirectOut THEN [t \in Tokens |-> graphs[d][1].cols[t + 1]]
  ELSE FoldLeft(LAMBDA acc, b : FoldLeft(LAMBDA x, g : AddSeg(x, b.cols, g), acc, b.segs),
                mem[DestOf(d)], graphs[d])

-----------------------------------------------------------------------------
Init ==
  /\ in \in Inputs
  /\ plan = MixPlan(in.ids, in.pools)
  /\ pc = "targets" /\ st = "SUCCESS"
  /\ todo = DevTargets
  /\ ri = 0
  /\ graphs = [d \in {CPU} \cup DevTargets |-> <<>>]
  /\ tail = FALSE
  /\ mem = [x \in {Out, CPU} \cup DevTargets |-> [t \in Tokens |-> SetToBag({Junk})]]
  /\ inflight = {}
  /\ sums = Zeros
  /\ tailRead = <<>>
  /\ owned = {}
  /\ pinned = TRUE

Fail ==
  /\ st' = "FAILED" /\ pc' = "return"
  /\ UNCHANGED <<in, plan, todo, ri, graphs, tail, mem, inflight, sums, tailRead, owned, pinned>>

\* A target's arena and staging are grown and its accumulator zeroed.
EnsureTarget(d) ==
  /\ pc = "targets" /\ d \in todo
  /\ todo' = todo \ {d}
  /\ mem' = [mem EXCEPT ![AccOf(d)] = Zeros]
  /\ UNCHANGED <<in, plan, pc, st, ri, graphs, tail, inflight, sums, tailRead, owned, pinned>>

EnsureFails == pc = "targets" /\ todo # {} /\ Fail

StartRounds ==
  /\ pc = "targets" /\ todo = {}
  /\ pc' = "build"
  /\ mem' = [mem EXCEPT ![CPU] = Zeros]
  /\ UNCHANGED <<in, plan, st, todo, ri, graphs, tail, inflight, sums, tailRead, owned, pinned>>

BuildRound ==
  /\ pc = "build" /\ ri < Len(plan.rounds)
  /\ LET r == plan.rounds[ri + 1] IN
     /\ Len(PlanOf(r).order) = r.nActive
     /\ graphs' = [graphs EXCEPT ![TargetOf(r)] = Append(@, BuiltRound(r))]
  /\ owned' = owned \cup {ri}
  /\ ri' = ri + 1
  /\ UNCHANGED <<in, plan, pc, st, todo, tail, mem, inflight, sums, tailRead, pinned>>

\* An operand that cannot be staged, or a tail that does not fit the graph.
BuildFails == pc = "build" /\ Fail

\* Mutant of CanFuseTail: a CPU share of the layer is overlooked.
FuseDespiteCpu ==
  Cardinality(DevTargets) = 1 /\ in.outDev \in DevTargets /\ in.tailDev = in.outDev

\* The tail joins the one device graph when moe_out and the tail live there.
CanFuseTail == SingleDevTarget /\ in.outDev \in DevTargets /\ in.tailDev = in.outDev

\* Mutant of EndRounds: the CPU graph is queued with the device graphs.
EndRoundsAll ==
  /\ pc = "build" /\ ri = Len(plan.rounds)
  /\ tail' = CanFuseTail
  /\ todo' = {d \in DOMAIN graphs : graphs[d] # <<>>}
  /\ pc' = "submit"
  /\ UNCHANGED <<in, plan, st, ri, graphs, mem, inflight, sums, tailRead, owned, pinned>>

EndRounds ==
  /\ pc = "build" /\ ri = Len(plan.rounds)
  /\ tail' = CanFuseTail
  /\ todo' = {d \in DevTargets : graphs[d] # <<>>}
  /\ pc' = "submit"
  /\ UNCHANGED <<in, plan, st, ri, graphs, mem, inflight, sums, tailRead, owned, pinned>>

Submit(d) ==
  /\ pc = "submit" /\ d \in todo
  /\ inflight' = inflight \cup {d}
  /\ todo' = todo \ {d}
  /\ UNCHANGED <<in, plan, pc, st, ri, graphs, tail, mem, sums, tailRead, owned, pinned>>

SubmitFails == pc = "submit" /\ todo # {} /\ Fail

\* A device executes its graph: the rounds in order, then the fused tail.
RunDevice(d) ==
  /\ d \in inflight
  /\ inflight' = inflight \ {d}
  /\ mem' = [mem EXCEPT ![DestOf(d)] = GraphResult(d)]
  /\ tailRead' = IF tail THEN mem'[Out] ELSE tailRead
  /\ UNCHANGED <<in, plan, pc, st, todo, ri, graphs, tail, sums, owned, pinned>>

\* The CPU graph, on the calling thread, and the write of a direct result to
\* a moe_out that is not in host memory.
RunCpu ==
  /\ pc = "submit" /\ todo = {}
  /\ mem' = IF graphs[CPU] = <<>> THEN mem
            ELSE LET res == GraphResult(CPU) IN
                 IF DirectOut THEN [mem EXCEPT ![CPU] = res, ![Out] = res]
                 ELSE [mem EXCEPT ![CPU] = res]
  /\ sums' = IF DirectOut THEN sums ELSE mem'[CPU]
  /\ todo' = DevTargets
  /\ pc' = "sync"
  /\ UNCHANGED <<in, plan, st, ri, graphs, tail, inflight, tailRead, owned, pinned>>

CpuFails == pc = "submit" /\ todo = {} /\ graphs[CPU] # <<>> /\ Fail

\* Mutant of Sync: no wait where there is nothing to copy.
SyncUnlessElided(d) ==
  /\ pc = "sync" /\ d \in todo
  /\ InPlace(d) \/ d \notin inflight
  /\ todo' = todo \ {d}
  /\ IF DirectOut \/ SingleDevTarget
     THEN /\ mem' = IF InPlace(d) THEN mem ELSE [mem EXCEPT ![Out] = mem[d]]
          /\ UNCHANGED sums
     ELSE /\ sums' = [t \in Tokens |-> sums[t] (+) mem[d][t]]
          /\ UNCHANGED mem
  /\ UNCHANGED <<in, plan, pc, st, ri, graphs, tail, inflight, tailRead, owned, pinned>>

\* Wait for a device, then take its result: nothing to do when it is already
\* in moe_out, a copy when it is the whole output, else one more partial sum.
Sync(d) ==
  /\ pc = "sync" /\ d \in todo
  /\ d \notin inflight
  /\ todo' = todo \ {d}
  /\ IF DirectOut \/ SingleDevTarget
     THEN /\ mem' = IF InPlace(d) THEN mem ELSE [mem EXCEPT ![Out] = mem[d]]
          /\ UNCHANGED sums
     ELSE /\ sums' = [t \in Tokens |-> sums[t] (+) mem[d][t]]
          /\ UNCHANGED mem
  /\ UNCHANGED <<in, plan, pc, st, ri, graphs, tail, inflight, tailRead, owned, pinned>>

\* layer_fold, unless one target held the whole output.
Finish ==
  /\ pc = "sync" /\ todo = {}
  /\ mem' = IF DirectOut \/ SingleDevTarget THEN mem ELSE [mem EXCEPT ![Out] = sums]
  /\ pc' = "return"
  /\ UNCHANGED <<in, plan, st, todo, ri, graphs, tail, inflight, sums, tailRead, owned, pinned>>

\* owned_guard_t, on every way out.
FreeOwned ==
  /\ pc = "return"
  /\ owned' = {} /\ pc' = "unpin"
  /\ UNCHANGED <<in, plan, st, todo, ri, graphs, tail, mem, inflight, sums, tailRead, pinned>>

\* exec_moe_closure unpins the experts whatever the status.
Unpin ==
  /\ pc = "unpin"
  /\ pinned' = FALSE /\ pc' = "done"
  /\ UNCHANGED <<in, plan, st, todo, ri, graphs, tail, mem, inflight, sums, tailRead, owned>>

\* The layer is over; nothing happens but the end of submitted graphs.
Done == pc = "done" /\ inflight = {} /\ UNCHANGED vars

Next ==
  \/ \E d \in 1 .. NPools - 1 : EnsureTarget(d) \/ Submit(d) \/ RunDevice(d) \/ Sync(d)
  \/ EnsureFails \/ StartRounds \/ BuildRound \/ BuildFails \/ EndRounds
  \/ SubmitFails \/ RunCpu \/ CpuFails \/ Finish \/ FreeOwned \/ Unpin \/ Done

Spec == Init /\ [][Next]_vars

-----------------------------------------------------------------------------
TypeOK ==
  /\ in \in Inputs
  /\ pc \in {"targets", "build", "submit", "sync", "return", "unpin", "done"}
  /\ st \in {"SUCCESS", "FAILED"}
  /\ todo \subseteq DevTargets /\ inflight \subseteq DevTargets
  /\ ri \in 0 .. Len(plan.rounds) /\ owned \subseteq 0 .. ri - 1
  /\ DOMAIN graphs = {CPU} \cup DevTargets /\ DOMAIN mem = DOMAIN graphs \cup {Out}
  /\ tail \in BOOLEAN /\ pinned \in BOOLEAN
  /\ \A x \in DOMAIN mem : DOMAIN mem[x] = Tokens
  /\ tailRead = <<>> \/ DOMAIN tailRead = Tokens

\* What the layer owes token t: each routed expert once, on t's activation,
\* with the routing weight of its own slot.
Owed(t) == SetToBag({<<t, <<t, k>>, in.ids[t][k]>> : k \in 0 .. NK - 1})
Exact(m) == \A t \in Tokens : m[t] = Owed(t)

(* Whatever the split over pools, the order of the tight columns, the      *)
(* direct, aliased and folded ways out and the interleaving of the         *)
(* devices with the CPU, a layer that returns SUCCESS leaves in moe_out    *)
(* every routed evaluation of every token exactly once.                    *)
OutputExact == pc = "done" /\ st = "SUCCESS" => Exact(mem[Out])

(* The tail appended to the device graph runs before the calling thread    *)
(* touches the result, so moe_out must already be complete in the graph:   *)
(* fusing is only right when the layer's sum is accumulated in place.      *)
FusedTailComplete == tailRead # <<>> => Exact(tailRead)

(* A layer that succeeds frees its round buffers and unpins its experts    *)
(* only when no device graph that reads them is still running, also when   *)
(* nothing had to be copied back from the device.                          *)
ReleaseWhenIdle ==
  st = "SUCCESS" /\ pc \in {"return", "unpin", "done"} => inflight = {}

(* The comment on owned_guard_t: "Free the per-round temporary buffers     *)
(* once the layer's graphs have run."  The buffers of the rounds of a      *)
(* submitted graph are allocated until the graph has run.                  *)
BuffersOutliveGraphs ==
  \A d \in inflight : \A i \in DOMAIN graphs[d] : graphs[d][i].id \in owned

-----------------------------------------------------------------------------
\* The experts of pool p that token t asks for, as slots.
Hits(t, p) == {k \in 0 .. NK - 1 : in.pools[in.ids[t][k]] = p}
CellsOf(r) == {CellAt(plan, r, a, s) : a \in 0 .. r.nActive - 1, s \in 0 .. r.width - 1}

(* build_mix_plan cuts the routing grid: every routed slot is in exactly   *)
(* one cell of one round of its own pool, no round is an empty rectangle,  *)
(* a row of a round belongs to one token, and a pool needs no more rounds  *)
(* than it has distinct hit counts.                                        *)
RoundsPartition ==
  LET rs == plan.rounds
      Area(i) == rs[i].nActive * rs[i].width
      Cells == {[t |-> t, k |-> k] : t \in Tokens, k \in 0 .. NK - 1}
  IN  /\ UNION {CellsOf(rs[i]) : i \in DOMAIN rs} = Cells
      /\ FoldLeft(+, 0, [i \in DOMAIN rs |-> Area(i)]) = NT * NK
      /\ \A i \in DOMAIN rs :
           /\ Area(i) > 0
           /\ \A c \in CellsOf(rs[i]) : c.k \in Hits(c.t, rs[i].pool)
           /\ \A a \in 0 .. rs[i].nActive - 1 : \A s \in 0 .. rs[i].width - 1 :
                CellAt(plan, rs[i], a, s).t = CellAt(plan, rs[i], a, 0).t
      /\ \A p \in 0 .. NPools - 1 :
           Cardinality({i \in DOMAIN rs : rs[i].pool = p})
             = Cardinality({Cardinality(Hits(t, p)) : t \in Tokens} \ {0})

\* Every arithmetic progression inside S.
Progressions(S) ==
  {[start |-> v, delta |-> d, len |-> n] :
     v \in S, d \in 1 .. NT, n \in 1 .. Cardinality(S)} 
FitsIn(r, S) == RunValues(r) \subseteq S

(* scatter_plan.h: the runs are extracted greedily, longest first, so each *)
(* is a longest progression of the tokens still to place; together they    *)
(* place each active token once, and the tight order follows them.         *)
RunsGreedy ==
  \A i \in DOMAIN plan.rounds :
    LET r == plan.rounds[i]
        sp == PlanOf(r)
        Seg(j) == [start |-> sp.segs[j].dst, delta |-> sp.segs[j].delta, len |-> sp.segs[j].len]
        Left(j) == ToSet(RoundTokens(r)) \ UNION {RunValues(Seg(l)) : l \in 1 .. j - 1}
    IN  /\ Left(Len(sp.segs) + 1) = {}
        /\ \A j \in DOMAIN sp.segs :
             /\ FitsIn(Seg(j), Left(j))
             /\ \A q \in Progressions(Left(j)) : FitsIn(q, Left(j)) => q.len <= sp.segs[j].len
             /\ \A l \in 0 .. sp.segs[j].len - 1 :
                  RoundTokens(r)[sp.order[sp.segs[j].src + l + 1] + 1]
                    = sp.segs[j].dst + l * sp.segs[j].delta
=============================================================================
