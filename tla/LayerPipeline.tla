--------------------------- MODULE LayerPipeline ---------------------------
(***************************************************************************)
(* The pipeline over the layers of a graph: moe_exec_mul_mat_id and what   *)
(* it runs for dense heads and tails (topo_segment_execute, the relays     *)
(* between devices), on the memory that layout_arena planned.              *)
(*                                                                         *)
(* A result is the pair of the tensor it belongs to and the epoch (call of *)
(* graph_compute) it was computed in; memory is what every unit of every   *)
(* arena buffer holds.  A node that reads anything but the results of its  *)
(* operands in this epoch writes a Wrong result.                           *)
(***************************************************************************)
EXTENDS ArenaLayout

CONSTANTS
  Graphs,      \* the graphs llama builds (with nodes placed on devices)
  Devices,     \* the other devices
  Pinned,      \* those with a pinned staging buffer
  Ordered,     \* those that end the copies sent to them before a later graph reads
  MaxEpoch     \* bound: calls of graph_compute

ASSUME DeviceAssumption ==
  Host \notin Devices /\ Pinned \subseteq Devices /\ Ordered \subseteq Devices

VARIABLES
  g,           \* the graph
  lay,         \* g_plans and g_relays: where layout_arena put everything
  mem,         \* per device: what each unit of the plan's buffer holds
  flying,      \* per device: set_async copies not known to have landed
  epoch,       \* the current call of graph_compute
  executed,    \* executed_relays
  pc,          \* where the calling thread stands
  layer,       \* L_cur
  job,         \* arguments of the current topo_segment_execute
  pos,         \* where its current segment starts
  flushed      \* flushed_devs

vars == <<g, lay, mem, flying, epoch, executed, pc, layer, job, pos, flushed>>
plan == <<g, lay>>
call == <<executed, layer, job, pos, flushed>>

relays == DOMAIN lay.shell

Junk       == <<0, 0>>
Fresh(t)   == <<t, epoch>>
Wrong(t)   == <<t, 0>>

----------------------------------------------------------------------------
(* Memory.                                                                 *)

Place(n)  == [dev |-> g[n].dev, lo |-> lay.at[n], size |-> SizeOf(g, n)]
Shell(r)  == [dev |-> r.dev, lo |-> lay.shell[r], size |-> SizeOf(g, r.src)]
Cells(p)  == p.lo..(p.lo + p.size - 1)

Holds(m, p, t) == \A c \in Cells(p) : m[p.dev][c] = Fresh(t)

Store(m, p, vals) ==
  [m EXCEPT ![p.dev] = [c \in Cells(p) |-> vals[c - p.lo + 1]] @@ @]

\* The bytes of a tensor; a leaf in host memory is set anew for each call.
BytesOf(m, t) ==
  [i \in 1..SizeOf(g, t) |-> IF t < 0 THEN Fresh(t) ELSE m[g[t].dev][lay.at[t] + i - 1]]

\* Relay(g, n, s), one of those found when the graph was built.
ShellFor(n, s) ==
  LET late == s > 0 /\ g[s].layer = g[n].layer /\ n \in ToSet(lay.tail[g[n].layer])
  IN  [src |-> s, dev |-> g[n].dev, layer |-> g[n].layer,
       stage |-> IF late THEN "TAIL" ELSE "FRONT"]

\* Whether node n finds operand s: in its shell, or where its root is.
Sees(m, n, s) ==
  IF Crosses(g, n, s) THEN Holds(m, Shell(ShellFor(n, s)), s)
  ELSE s < 0 \/ Holds(m, Place(Root(g, s)), Root(g, s))

Write(m, n, ok) ==
  Store(m, Place(n), [i \in 1..SizeOf(g, n) |-> IF ok THEN Fresh(n) ELSE Wrong(n)])

MoeOut(L) == CHOOSE n \in ToSet(lay.moe[L]) : g[n].part = "out"

\* The closure leaves only moe_out in the plan's memory (its rounds work in
\* buffers of their own) and reads its operands wherever they are.
ComputeClosure(m, L) ==
  LET inside == ToSet(lay.moe[L])
      reads  == {Root(g, s) : s \in UNION {g[n].src : n \in inside}} \ inside
  IN  Write(m, MoeOut(L), \A t \in reads : t < 0 \/ Holds(m, Place(t), t))

\* In the list of a graph, moe_out stands for the closure.
Compute(m, n) ==
  IF g[n].part = "out" THEN ComputeClosure(m, g[n].layer)
  ELSE IF IsView(g, n) THEN m
  ELSE Write(m, n, \A s \in g[n].src : Sees(m, n, s))

ComputeAll(m, list) == FoldLeft(Compute, m, list)

----------------------------------------------------------------------------
(* dispatch_relay_batch.  A copy in flight keeps its bytes in the staging  *)
(* buffer of its device until it lands, in the order of the device's       *)
(* queue; a new batch takes the staging buffer from the start.             *)

LandAll(m, fly, D) ==
  FoldLeft(LAMBDA x, f : Store(x, Shell(f.relay), f.bytes), m, fly[D])

Synchronize(st, D) ==
  [mem |-> LandAll(st.mem, st.fly, D), fly |-> [st.fly EXCEPT ![D] = <<>>]]

\* How many nodes of a graph run before the copies still under way to its device
\* have landed: none where the queue is in order, else that is the device's affair.
RunBefore(st, D, list) ==
  IF D = Host \/ D \in Ordered \/ st.fly[D] = <<>> THEN {0} ELSE 0..Len(list)

\* A graph on device D.  Its completion ends the copies sent before it, too.
RunGraph(st, D, list, k) ==
  IF D = Host THEN [st EXCEPT !.mem = ComputeAll(@, list)]
  ELSE LET met == Synchronize([st EXCEPT !.mem = ComputeAll(@, SubSeq(list, 1, k))], D)
       IN  [met EXCEPT !.mem = ComputeAll(@, SubSeq(list, k + 1, Len(list)))]

CopyNow(st, r) == [st EXCEPT !.mem = Store(@, Shell(r), BytesOf(@, r.src))]

CopyAllNow(st, batch) == FoldLeft(CopyNow, st, AnyOrder(batch))

Lost(f) == [f EXCEPT !.bytes = [i \in DOMAIN @ |-> Junk]]

ToDevice(st, batch, D, skip) ==
  IF D \notin Pinned THEN CopyAllNow(st, batch)
  ELSE LET new  == [i \in 1..Cardinality(batch) |->
                      LET r == AnyOrder(batch)[i]
                      IN  [relay |-> r, bytes |-> BytesOf(st.mem, r.src)]]
           old  == [i \in DOMAIN st.fly[D] |-> Lost(st.fly[D][i])]
           sent == [st EXCEPT !.fly[D] = old \o new]
       IN  IF D = skip THEN sent ELSE Synchronize(sent, D)

FromDevice(st, batch, D) ==
  CopyAllNow(IF Cardinality(batch) > 1 /\ D \in Pinned THEN Synchronize(st, D) ELSE st, batch)

Dispatch(st, batch, skip) ==
  LET devs      == AnyOrder(Devices)
      From(r)   == DevOf(g, r.src)
      Host2D(D) == {r \in batch : From(r) = Host /\ r.dev = D}
      D2Host(D) == {r \in batch : From(r) = D /\ r.dev = Host}
      direct    == {r \in batch : From(r) # Host /\ r.dev # Host}
      In(x, D)  == IF Host2D(D) = {} THEN x ELSE ToDevice(x, Host2D(D), D, skip)
      Out(x, D) == IF D2Host(D) = {} THEN x ELSE FromDevice(x, D2Host(D), D)
  IN  FoldLeft(Out, FoldLeft(In, CopyAllNow(st, direct), devs), devs)

Now == [mem |-> mem, fly |-> flying]

Adopt(st) == mem' = st.mem /\ flying' = st.fly

----------------------------------------------------------------------------
(* select_relays.  A scope s has the fields of relay_scope_t; head = 0     *)
(* stands for no fused head.                                               *)

\* A carry that the fused tail produced is copied when the tail's segment ends.
InPair(r, s) ==
  \/ r.layer = s.tail /\ s.hasTail /\ r.stage = "TAIL"
  \/ r.layer = s.head /\ r.stage = "FRONT"
       /\ IF s.incoming \/ r.src \notin s.tailNodes THEN s.hasHead ELSE s.hasTail

InStage(r, s) ==
  r.layer = s.tail /\ (r.stage = "TAIL" <=> s.stage = "tail")

\* Mutant: only what the host holds is copied before a segment.
AtDevice_HostOnly(r, s) ==
  IF s.incoming THEN r.dev = s.dev /\ DevOf(g, r.src) = Host /\ r.src \notin s.inGraph
  ELSE DevOf(g, r.src) = s.dev

AtDevice(r, s) ==
  IF s.incoming
  THEN r.dev = s.dev /\ DevOf(g, r.src) \notin s.flushed /\ r.src \notin s.inGraph
  ELSE DevOf(g, r.src) = s.dev

Selected(s) ==
  {r \in relays \ executed :
     AtDevice(r, s) /\ IF s.head # 0 THEN InPair(r, s) ELSE InStage(r, s)}

----------------------------------------------------------------------------
(* topo_segment_execute.                                                   *)

NoJob     == [stage |-> "none", list |-> <<>>, tail |-> 0, head |-> 0, tailLen |-> 0]
Fused     == job.head # 0
SegEnd    == Max({i \in pos..Len(job.list) :
                    \A k \in pos..i : g[job.list[k]].dev = g[job.list[pos]].dev})
Segment   == SubSeq(job.list, pos, SegEnd)
SegDev    == g[job.list[pos]].dev

Scope(incoming) ==
  [tail |-> job.tail, head |-> job.head, stage |-> job.stage, incoming |-> incoming,
   dev |-> SegDev, hasTail |-> ~Fused \/ pos <= job.tailLen,
   hasHead |-> ~Fused \/ SegEnd > job.tailLen,
   tailNodes |-> ToSet(SubSeq(job.list, 1, IF Fused THEN job.tailLen ELSE 0)),
   flushed |-> flushed, inGraph |-> {}]

\* What comes after a job: the closure of the layer whose head it ran, or the
\* end of the call.
AfterJob == IF job.stage = "tail" THEN "return" ELSE "closure"

Begin(stage, list, tail, head, tailLen) ==
  /\ job' = [stage |-> stage, list |-> list, tail |-> tail, head |-> head, tailLen |-> tailLen]
  /\ pos' = 1
  /\ flushed' = {}
  /\ pc' = IF list # <<>> THEN "incoming"
           ELSE IF stage = "tail" THEN "return" ELSE "closure"

\* exec_dense_head.
BeginHead(L) == Begin("head", lay.head[L], L, 0, 0)

SegIncoming ==
  /\ pc = "incoming"
  /\ LET batch == Selected(Scope(TRUE))
     IN  /\ Adopt(Dispatch(Now, batch, SegDev))
         /\ executed' = executed \cup batch
  /\ pc' = "flush"
  /\ UNCHANGED <<plan, epoch, layer, job, pos, flushed>>

\* flush_segment, run_dense_subgraph.  The graph is submitted at once, behind the
\* copies that SegIncoming has sent to its device and not waited for; a segment of
\* views only submits nothing.
SegFlush ==
  /\ pc = "flush"
  /\ IF \A i \in DOMAIN Segment : IsView(g, Segment[i])
     THEN UNCHANGED <<mem, flying>>
     ELSE \E k \in RunBefore(Now, SegDev, Segment) : Adopt(RunGraph(Now, SegDev, Segment, k))
  /\ pc' = "boundary"
  /\ UNCHANGED <<plan, epoch, executed, layer, job, pos, flushed>>

SegBoundary ==
  /\ pc = "boundary"
  /\ LET batch == Selected(Scope(FALSE))
     IN  /\ Adopt(Dispatch(Now, batch, Host))
         /\ executed' = executed \cup batch
  /\ flushed' = flushed \cup {SegDev}
  /\ pos' = SegEnd + 1
  /\ pc' = IF SegEnd < Len(job.list) THEN "incoming" ELSE AfterJob
  /\ UNCHANGED <<plan, epoch, layer, job>>

\* A segment or a closure that fails ends the call at once.
Fail ==
  /\ pc \in {"flush", "closure"}
  /\ pc' = "failed"
  /\ UNCHANGED <<plan, mem, flying, epoch, call>>

----------------------------------------------------------------------------
(* moe_exec_mul_mat_id.                                                    *)

\* The graph build: build_layer_plans and layout_arena.
Build ==
  /\ pc = "unbuilt"
  /\ g' \in Graphs
  /\ lay' = LayoutOf(g')
  /\ mem' = [D \in DOMAIN lay'.need |-> [c \in 0..(lay'.need[D] - 1) |-> Junk]]
  /\ pc' = "built"
  /\ UNCHANGED <<flying, epoch, call>>

\* A call of graph_compute starts with the head of the first layer.
Start ==
  /\ pc \in {"built", "idle"} /\ epoch < MaxEpoch
  /\ epoch' = epoch + 1
  /\ executed' = {}
  /\ layer' = 1
  /\ BeginHead(1)
  /\ UNCHANGED <<plan, mem, flying>>

\* Mutant: the loop ends one layer early.
AtLast_Early == layer >= NLayers(g) - 1

AtLast == layer = NLayers(g)

\* After the closure: the tail with the next head, or the last tail.  First the
\* copies of what the closure left.
PreTail(st) ==
  LET batch == {r \in relays \ executed :
                  /\ r.layer = layer /\ r.stage = "TAIL"
                  /\ \E n \in ToSet(lay.moe[layer]) : DevOf(g, r.src) = g[n].dev}
  IN  /\ Adopt(Dispatch(st, batch, Host))
      /\ executed' = executed \cup batch

RunTail ==
  LET tail == lay.tail[layer]
  IN  IF AtLast THEN Begin("tail", tail, layer, 0, 0)
      ELSE Begin("tail_head", tail \o lay.head[layer + 1], layer, layer + 1, Len(tail))

\* Mutant: the layer counter runs past the last layer.
Advance_Past == layer' = layer + 1

Advance == layer' = IF AtLast THEN layer ELSE layer + 1

\* exec_moe_closure without fusion (or with nothing to do in a dense layer),
\* then exec_fused_tail_and_head or exec_dense_tail.
ClosureThenTail ==
  /\ pc = "closure"
  /\ LET m == IF lay.moe[layer] = <<>> THEN mem ELSE ComputeClosure(mem, layer)
     IN  PreTail([Now EXCEPT !.mem = m])
  /\ RunTail
  /\ Advance
  /\ UNCHANGED <<plan, epoch>>

\* is_segment_on_device
OnDevice(list, D) ==
  /\ \E n \in ToSet(list) : ~IsView(g, n)
  /\ \A n \in ToSet(list) : IsView(g, n) \/ g[n].dev = D

\* Tier 2: the tail, and perhaps the next head, in the device graph of the
\* closure.  Whether the device supports the operations and the graph has room
\* is left open.  Its copies are waited for before it is submitted; what it leaves
\* for other devices is copied afterwards.
ClosureFused(withHead) ==
  /\ pc = "closure" /\ lay.moe[layer] # <<>>
  /\ LET D    == g[lay.moe[layer][1]].dev
         tail == lay.tail[layer]
         head == IF withHead THEN lay.head[layer + 1] ELSE <<>>
         s    == [tail |-> layer, head |-> IF withHead THEN layer + 1 ELSE 0, stage |-> "tail",
                  incoming |-> TRUE, dev |-> D, hasTail |-> TRUE, hasHead |-> withHead,
                  tailNodes |-> ToSet(tail), flushed |-> {},
                  inGraph |-> IF withHead THEN ToSet(tail \o head) ELSE {}]
         in   == Selected(s)
         st   == Dispatch(Now, in, Host)
         list == <<MoeOut(layer)>> \o tail \o head
         out  == Selected([s EXCEPT !.incoming = FALSE]) \ in
     IN  /\ D # Host
         /\ tail # <<>> /\ OnDevice(tail, D)
         /\ withHead => ~AtLast /\ OnDevice(head, D)
         /\ \E k \in RunBefore(st, D, list) : Adopt(Dispatch(RunGraph(st, D, list, k), out, Host))
         /\ executed' = executed \cup in \cup out
  /\ IF AtLast THEN pc' = "return" /\ UNCHANGED <<job, pos, flushed>>
     ELSE IF withHead THEN pc' = "closure" /\ UNCHANGED <<job, pos, flushed>>
     ELSE BeginHead(layer + 1)
  /\ Advance
  /\ UNCHANGED <<plan, epoch>>

\* A copy in flight may land any time before the device is synchronized.
CopyLands(D) ==
  /\ flying[D] # <<>>
  /\ mem' = Store(mem, Shell(flying[D][1].relay), flying[D][1].bytes)
  /\ flying' = [flying EXCEPT ![D] = Tail(@)]
  /\ UNCHANGED <<plan, epoch, executed, pc, layer, job, pos, flushed>>

\* The call returns; what it kept for itself is gone.
Return ==
  /\ pc \in {"return", "failed"}
  /\ pc' = "idle"
  /\ executed' = {} /\ layer' = 0 /\ job' = NoJob /\ pos' = 1 /\ flushed' = {}
  /\ UNCHANGED <<plan, mem, flying, epoch>>
Init ==
  /\ g = <<>> /\ lay = <<>> /\ mem = <<>>
  /\ flying = [D \in Devices |-> <<>>]
  /\ epoch = 0 /\ executed = {} /\ layer = 0
  /\ pc = "unbuilt" /\ job = NoJob /\ pos = 1 /\ flushed = {}

Next ==
  \/ Build \/ Start
  \/ SegIncoming \/ SegFlush \/ SegBoundary
  \/ ClosureThenTail \/ \E h \in BOOLEAN : ClosureFused(h)
  \/ Fail \/ Return
  \/ \E D \in Devices : CopyLands(D)

Spec == Init /\ [][Next]_vars

----------------------------------------------------------------------------
(* Properties.                                                             *)

Points == {"unbuilt", "idle", "built", "incoming", "flush", "boundary", "closure", "return", "failed"}

\* Type invariant: memory has the size the plan asked for, what was executed
\* are relays of this build, and what flies is a relay to that device.
TypeOK ==
  /\ pc \in Points /\ epoch \in 0..MaxEpoch
  /\ layer \in 0..(IF g = <<>> THEN 0 ELSE NLayers(g))
  /\ g # <<>> => /\ executed \subseteq relays
                 /\ \A D \in DOMAIN mem : DOMAIN mem[D] = 0..(lay.need[D] - 1)
                 /\ \A D \in Devices : \A i \in DOMAIN flying[D] : flying[D][i].relay.dev = D

\* No node reads anything but the results of its operands in this call: not
\* what another tensor left in the same place, not a copy not made yet, not
\* the last call's (the regions of layout_arena against the order in which
\* topo_segment_execute, the relays and the fused graphs run).
FreshReads ==
  \A D \in DOMAIN mem : \A c \in DOMAIN mem[D] : mem[D][c][2] = 0 => mem[D][c] = Junk

\* A call that returns success has computed the last node of the graph, through
\* whichever fusions it went (moe_exec_mul_mat_id's three steps).
OutputFresh == pc = "return" => Holds(mem, Place(Len(g)), Len(g))

\* "Tensors that cross a unit boundary within one layer are pinned in the sync
\* region": when the closure of a layer starts, whatever its head left for it and
\* for the tail is still there (route_b_chain.cpp:370-373).
LeftByHead(L) ==
  ToSet(lay.head[L])
    \cap {Root(g, s) : s \in UNION {g[n].src : n \in ToSet(lay.moe[L] \o lay.tail[L])}}

SyncPinned ==
  pc = "closure" => \A t \in LeftByHead(layer) : Holds(mem, Place(t), t)

\* No transfer is forgotten: by the end of a call each relay was run by one of the
\* places that select relays (select_relays against the five that call it).
AllRelayed == pc = "return" => executed = relays

\* What AllRelayed needs of the placement of the nodes: every copy is for a real
\* node on its device that its stage of its layer runs, and between the closures of
\* two layers everything is on one device, as --dense-placement puts it (only the
\* embedding and the output may be elsewhere).  Without it a copy can be forgotten:
\* a device that only the tail's half of a fused pair uses counts as flushed before
\* the head's copies from it are due.
StageList(x, stage, L) == IF stage = "TAIL" THEN DenseTail(x, L) ELSE DenseHead(x, L)
Placed(x) ==
  /\ \A r \in Relays(x) :
       /\ r.layer \in 1..NLayers(x)
       /\ \E n \in ToSet(StageList(x, r.stage, r.layer)) : ~IsView(x, n) /\ x[n].dev = r.dev
  /\ \A L \in 1..(NLayers(x) - 1) :
       \A n, m \in ToSet(DenseTail(x, L) \o DenseHead(x, L + 1)) : x[n].dev = x[m].dev

\* The split of a graph: sequences of nodes for the layers from 1 on.
Split(x) ==
  /\ NLayers(x) \in Nat \ {0}
  /\ \A L \in 1..NLayers(x) :
       DenseTail(x, L) \in Seq(Nat \ {0}) /\ DenseHead(x, L) \in Seq(Nat \ {0})

\* pack_interval puts a block at the lowest offset at which it shares no byte
\* with a block placed before it that lives at the same time.
LowestFit(b) ==
  LET off   == PackInterval(b.size, b.start, b.end)
      order == PackOrder(b.size)
      Bytes(i, o) == o..(o + b.size[i] - 1)
      Free(j, o) ==
        \A k \in 1..(j - 1) :
          \/ (b.start[order[j]]..b.end[order[j]]) \cap (b.start[order[k]]..b.end[order[k]]) = {}
          \/ Bytes(order[j], o) \cap Bytes(order[k], off[order[k]]) = {}
  IN  \A j \in DOMAIN order :
        /\ Free(j, off[order[j]])
        /\ \A o \in 0..(off[order[j]] - 1) : ~Free(j, o)

PackLowest ==
  pc = "built" =>
    \A D \in DOMAIN mem :
      \A k \in DOMAIN lay.units : LowestFit(ScratchBlocks(g, lay.units, D, k))
=============================================================================
