----------------------------- MODULE ExpertLoad -----------------------------
(***************************************************************************)
(* The way of a weight from a model file to a slot, end to end:            *)
(*   - a model's files are converted any number of times (GgufWriter);     *)
(*   - each scheduler parses its model (ModelBuilder, Topology) and        *)
(*     divides its memory (ExpertPool);                                    *)
(*   - start_async_load submits the reads of an expert to the engine that  *)
(*     all schedulers share, and the one worker thread harvests their      *)
(*     completions and hands each to its owner (worker_loop,               *)
(*     drain_completions of backend/scheduler.cpp);                        *)
(*   - stop() takes a scheduler out of service at any moment.              *)
(* Which slot a load gets (alloc_or_evict) and what a settled load does to *)
(* the active request are ExpertScheduler's subject: here any slot of the  *)
(* expert's group that is free or unpinned is loaded into.                 *)
(*                                                                         *)
(* The engine is io/async_dio_posix.cpp, which reads at once and queues    *)
(* the request, or io/async_dio_win.cpp, where the kernel reads later.     *)
(***************************************************************************)
EXTENDS GgufWriter, ModelBuilder, ExpertPool

CONSTANTS
  Scheds,        \* one per loaded model
  Converted,     \* the scheduler whose model is converted first
  Sources,       \* the models, as their original files
  SourceOf(_),   \* Scheds -> the sources a scheduler may be given
  Formats,       \* what a conversion may be asked for
  Pools(_),      \* of a topology: [bytes, devices] it may be given
  MaskBits,      \* bits of async_load_t::staging_mask (8)
  MaxEvents,     \* completions harvested in one call (64)
  MaxSpent,      \* bound on the reads submitted, the errors and the stops, together
  None

ASSUME EngineAssumption == MaskBits \in Nat /\ MaxEvents \in Nat \ {0} /\ MaxSpent \in Nat

VARIABLES
  os,            \* the shared engine: "posix" or "win"
  source,        \* Scheds -> an index of Sources
  files,         \* Scheds -> the files of its model
  topo, pool,    \* the schedulers set up -> what set-up made
  running,       \* the schedulers whose running_ is set
  registered,    \* global_expert_scheduler::schedulers_
  slots,         \* Scheds -> slot -> [state, key]
  mem,           \* Scheds -> area -> address -> byte
  loads,         \* Scheds -> ring entry in use -> load
  flight,        \* requests the kernel still works on
  port,          \* the requests that are completed and not harvested
  worker,        \* the worker thread: [pc, snap, at, done]
  used           \* reads, errors and stops so far

engineVars == <<flight, port>>
schedVars  == <<running, registered, slots, mem, loads>>
setupVars  == <<os, source, files, topo, pool>>
vars == <<setupVars, schedVars, engineVars, worker, used>>

\* f, and v for x.
With(f, x, v) == [y \in DOMAIN f \cup {x} |-> IF y = x THEN v ELSE f[y]]

Spent == used.reads + used.errors + used.stops
Up == DOMAIN topo
InUse(s) == DOMAIN loads[s]

----------------------------------------------------------------------------
(* Models and their experts *)

Tensors(s) == Join([k \in DOMAIN Sources[source[s]] |-> Sources[source[s]][k].kv.tensors])

\* The tensor that is branch c of a layer, and byte i of expert e's slice of it.
Branch(s, l, c) ==
  LET S == {t \in ToSet(Tensors(s)) : Category(t.name) = "C3" /\ t.name.layer = l}
  IN  CHOOSE t \in S : Cardinality({u \in S : OrderOf(u.name.branch) < OrderOf(t.name.branch)}) = c - 1
SliceByte(s, t, e, i) == Byte(t.name.id, e * (t.size \div topo[s].n_expert) + i)

Opened(s) == [i \in DOMAIN topo[s].files |-> files[s][topo[s].files[i]]]

----------------------------------------------------------------------------
(* Conversion and set-up (convert/main.cpp, route_b_setup) *)

\* What model.files names.
OpenedBy(model) == [i \in DOMAIN model.files |-> files[Converted][model.files[i]]]
ConvertParsed(model, fmt) == ConvertModel(model, OpenedBy(model), fmt)

Convert(main, fmt) ==
  /\ Converted \notin Up
  /\ files' = [files EXCEPT ![Converted] = ConvertParsed(ParseModel(files[Converted], main), fmt)]
  /\ UNCHANGED <<os, source, topo, pool, schedVars, engineVars, worker, used>>

AreaAddrs(p, a) ==
  UNION {SlotAddrs(p, x) : x \in {y \in Slots(p) : p.regions[y[1]].area = a}}

\* start() and registration: the first one starts the worker.
Start(s, t, p) ==
  /\ topo' = With(topo, s, t)
  /\ pool' = With(pool, s, p)
  /\ slots' = [slots EXCEPT ![s] = [x \in Slots(p) |-> [state |-> "EMPTY", key |-> None]]]
  /\ mem' = [mem EXCEPT ![s] = [a \in {p.regions[r].area : r \in DOMAIN p.regions} |->
                                 [x \in AreaAddrs(p, a) |-> Hole]]]
  /\ running' = running \cup {s}
  /\ registered' = Append(registered, s)
  /\ worker' = IF worker.pc = "off" THEN [worker EXCEPT !.pc = "idle"] ELSE worker
  /\ UNCHANGED <<source, files, loads, engineVars, used>>

\* A pool that init refuses changes nothing.
Setup(s, t, budget) ==
  /\ PoolFits(t, budget.bytes)
  /\ Start(s, t, InitPool(t, budget.bytes, budget.devices))

\* The converted model is loaded first, a draft model after it.  The first model
\* creates the engine.
SetupFrom(s, main) ==
  /\ s \notin Up
  /\ s # Converted => Converted \in Up
  /\ os' \in IF os = None THEN {"posix", "win"} ELSE {os}
  /\ \E t \in {BuildTopology(ParseModel(files[s], main))} : \E budget \in Pools(t) : Setup(s, t, budget)

\* stop(): first the flag, then the registration, of which there is one.
StopFlag(s) ==
  /\ s \in running
  /\ Spent < MaxSpent
  /\ Up = Scheds
  /\ running' = running \ {s}
  /\ used' = [used EXCEPT !.stops = @ + 1]
  /\ UNCHANGED <<setupVars, registered, slots, mem, loads, engineVars, worker>>

Unregister(s) ==
  /\ s \notin running
  /\ \E i \in DOMAIN registered : registered[i] = s /\ registered' = RemoveAt(registered, i)
  /\ UNCHANGED <<setupVars, running, slots, mem, loads, engineVars, worker, used>>

----------------------------------------------------------------------------
(* The engine.  A request is [owner, slice, err]: the ring entry it is a   *)
(* part of, which piece, and whether the read fails.  Both engines refuse  *)
(* what is not aligned, Windows by its own test, the other by O_DIRECT.    *)

Request(owner, i, err) == [owner |-> owner, slice |-> i, err |-> err]

\* Mutant: what may go to its column by the file's side does.
Target_FileSide(s, slot, sl) ==
  IF sl.direct THEN [staged |-> FALSE, addr |-> ColAddr(pool[s], slot, sl.column) + sl.dst]
               ELSE [staged |-> TRUE, addr |-> sl.staging]

\* Where a piece is read to: its column or the entry's staging buffer.
Target(s, slot, sl) ==
  LET addr == ColAddr(pool[s], slot, sl.column) + sl.dst
  IN  IF sl.direct /\ Aligned(addr) THEN [staged |-> FALSE, addr |-> addr]
                                    ELSE [staged |-> TRUE, addr |-> sl.staging]

Accepts(sl, target) == Aligned(sl.start) /\ Aligned(sl.len) /\ Aligned(target.addr)

\* Does piece i of an expert go there by way of the staging buffer?
Staged(s, slot, key, i) == Target(s, slot, topo[s].plan[key][i]).staged

\* Piece i of a load is read to address a, of the staging buffer or of the slot's
\* area, unless the file ends before.
ReadsTo(s, load, i, a) ==
  LET sl   == topo[s].plan[load.key][i]
      file == Opened(s)[sl.file]
      addr == Target(s, load.slot, sl).addr
  IN  /\ addr <= a /\ a < addr + sl.len
      /\ sl.start + a - addr < file.data_off + Len(file.data)

\* The byte that piece i has for address a.
ByteFor(s, load, i, a) ==
  LET sl == topo[s].plan[load.key][i]
  IN  ByteAt(Opened(s)[sl.file], sl.start + a - Target(s, load.slot, sl).addr)

\* `to` after some pieces have been read into it, in their order.
ReadInto(to, s, load, pieces) ==
  [a \in DOMAIN to |->
     LET over == {i \in pieces : ReadsTo(s, load, i, a)}
     IN  IF over = {} THEN to[a] ELSE ByteFor(s, load, Max(over), a)]

\* The kernel's part of the requests for some pieces of a load.
FillMem(s, load, sent) ==
  LET area == pool[s].regions[load.slot[1]].area
  IN  [mem EXCEPT ![s][area] = ReadInto(@, s, load, {i \in sent : ~Staged(s, load.slot, load.key, i)})]
FillStaging(s, load, sent) ==
  ReadInto(load.staging, s, load, {i \in sent : Staged(s, load.slot, load.key, i)})

\* Windows: a pending read ends, well or with an error.
KernelCompletes(r, err) ==
  LET s   == r.owner[1]
      idx == r.owner[2]
  IN  /\ r \in flight
      /\ err => Spent < MaxSpent
      /\ flight' = flight \ {r}
      /\ port' = Append(port, [r EXCEPT !.err = err])
      /\ mem' = IF err THEN mem ELSE FillMem(s, loads[s][idx], {r.slice})
      /\ loads' = IF err THEN loads
                  ELSE [loads EXCEPT ![s][idx].staging = FillStaging(s, loads[s][idx], {r.slice})]
      /\ used' = IF err THEN [used EXCEPT !.errors = @ + 1] ELSE used
      /\ UNCHANGED <<setupVars, running, registered, slots, worker>>

----------------------------------------------------------------------------
(* start_async_load *)

\* Mutant: bits are counted from the second.
StagingMask_OffByOne(s, slot, plan) ==
  {i + 1 : i \in {j \in DOMAIN plan : Target(s, slot, plan[j]).staged /\ j < MaskBits}}

\* Mutant: a bit only for the pieces that the plan does not call direct.
StagingMask_Planned(s, slot, plan) == {i \in DOMAIN plan : ~plan[i].direct /\ i <= MaskBits}

\* The bit of a piece, in eight of them.
StagingMask(s, slot, plan) ==
  {i \in DOMAIN plan : Target(s, slot, plan[i]).staged /\ i <= MaskBits}

\* The pieces submitted before one is refused: for its alignment, or because the
\* read fails at once (`refused`).
Submitted(s, slot, plan, refused) ==
  {i \in DOMAIN plan : \A j \in 1..i : j # refused /\ Accepts(plan[j], Target(s, slot, plan[j]))}

FreeEntries(s) == (1..pool[s].ring) \ InUse(s)

StartAsyncLoad(s, slot, key, refused) ==
  LET plan == topo[s].plan[key]
      idx  == CHOOSE i \in FreeEntries(s) : TRUE
      sent == Submitted(s, slot, plan, refused)
      new  == [key |-> key, slot |-> slot, pending |-> Cardinality(sent),
               failed |-> sent # DOMAIN plan, mask |-> StagingMask(s, slot, plan),
               staging |-> [a \in 0..(pool[s].staging - 1) |-> Hole]]
      reqs == [i \in 1..Cardinality(sent) |-> Request(<<s, idx>>, i, FALSE)]
  IN  /\ FreeEntries(s) # {}
      /\ slots' = [slots EXCEPT ![s][slot] =
                      [state |-> "INFLIGHT", key |-> IF sent = {} THEN None ELSE key]]
      /\ IF sent = {} THEN UNCHANGED <<mem, loads, flight, port>>
         ELSE IF os = "posix"
         THEN /\ mem' = FillMem(s, new, sent)
              /\ loads' = [loads EXCEPT ![s] = With(@, idx, [new EXCEPT !.staging = FillStaging(s, new, sent)])]
              /\ port' = port \o reqs
              /\ UNCHANGED flight
         ELSE /\ loads' = [loads EXCEPT ![s] = With(@, idx, new)]
              /\ flight' = flight \cup ToSet(reqs)
              /\ UNCHANGED <<mem, port>>

----------------------------------------------------------------------------
(* The worker thread *)

\* wait_events takes whatever is in the shared queue, for any scheduler of the
\* snapshot that runs.
Harvested ==
  IF worker.snap = <<>> \/ worker.snap[worker.at] \notin running THEN 0
  ELSE Least(Len(port), MaxEvents)

PollNext(w) == IF w.at < Len(w.snap) THEN [w EXCEPT !.pc = "poll", !.at = @ + 1]
                                     ELSE [w EXCEPT !.pc = "accept"]

WorkerNext ==
  CASE worker.pc = "idle" -> [worker EXCEPT !.pc = "poll", !.snap = registered, !.at = 1]
    [] worker.pc = "poll" ->
         IF Harvested = 0 THEN PollNext(worker)
         ELSE [worker EXCEPT !.pc = "dispatch", !.done = SubSeq(port, 1, Harvested)]
    [] worker.pc = "dispatch" ->
         IF Len(worker.done) = 1 THEN PollNext([worker EXCEPT !.done = <<>>])
         ELSE [worker EXCEPT !.done = Tail(@)]
    [] worker.pc = "accept" -> [worker EXCEPT !.pc = "idle", !.snap = <<>>, !.at = 1]

WorkerMoves == worker.pc # "off" /\ worker' = WorkerNext

Snapshot ==
  /\ worker.pc = "idle"
  /\ WorkerMoves
  /\ UNCHANGED <<setupVars, schedVars, engineVars, used>>

Harvest ==
  /\ worker.pc = "poll"
  /\ port' = SubSeq(port, Harvested + 1, Len(port))
  /\ WorkerMoves
  /\ UNCHANGED <<setupVars, schedVars, flight, used>>

\* The staged bytes of a piece, copied to its column.
CopyOut(s, load, i) ==
  LET sl   == topo[s].plan[load.key][i]
      at   == ColAddr(pool[s], load.slot, sl.column) + sl.dst
      area == pool[s].regions[load.slot[1]].area
  IN  [mem EXCEPT ![s][area] = [a \in DOMAIN @ |->
        IF at <= a /\ a < at + sl.bytes THEN load.staging[sl.src + a - at] ELSE @[a]]]

\* loads, with ring entry idx free again.
WithoutEntry(s, idx) == [loads EXCEPT ![s] = Restrict(@, InUse(s) \ {idx})]

\* Mutant: the first error gives the ring entry back.
DrainCompletion_FreesOnError(r) ==
  LET s    == r.owner[1]
      idx  == r.owner[2]
      load == loads[s][idx]
      copy == ~r.err /\ ~load.failed /\ r.slice \in load.mask
      next == [load EXCEPT !.pending = @ - 1, !.failed = @ \/ r.err]
      done == [slots[s][load.slot] EXCEPT !.state = IF next.failed THEN "FAILED" ELSE "READY",
                                          !.key = IF next.failed THEN None ELSE @]
  IN  /\ mem' = IF copy THEN CopyOut(s, load, r.slice) ELSE mem
      /\ loads' = IF next.pending = 0 \/ r.err THEN WithoutEntry(s, idx) ELSE [loads EXCEPT ![s][idx] = next]
      /\ slots' = IF next.pending = 0 THEN [slots EXCEPT ![s][load.slot] = done] ELSE slots

\* drain_completions, for one request.
DrainCompletion(r) ==
  LET s    == r.owner[1]
      idx  == r.owner[2]
      load == loads[s][idx]
      copy == ~r.err /\ ~load.failed /\ r.slice \in load.mask
      next == [load EXCEPT !.pending = @ - 1, !.failed = @ \/ r.err]
      done == [slots[s][load.slot] EXCEPT !.state = IF next.failed THEN "FAILED" ELSE "READY",
                                          !.key = IF next.failed THEN None ELSE @]
  IN  /\ mem' = IF copy THEN CopyOut(s, load, r.slice) ELSE mem
      /\ loads' = IF next.pending = 0 THEN WithoutEntry(s, idx) ELSE [loads EXCEPT ![s][idx] = next]
      /\ slots' = IF next.pending = 0 THEN [slots EXCEPT ![s][load.slot] = done] ELSE slots

\* Mutant: a scheduler's turn serves its own requests only.
Dispatch_OwnPool ==
  LET r == Head(worker.done)
  IN  /\ worker.pc = "dispatch"
      /\ IF r.owner[1] \in running /\ r.owner[1] = worker.snap[worker.at] THEN DrainCompletion(r) ELSE UNCHANGED <<mem, loads, slots>>
      /\ WorkerMoves
      /\ UNCHANGED <<setupVars, running, registered, engineVars, used>>

\* Each harvested request goes to its owner, or nowhere when that has stopped.
Dispatch ==
  LET r == Head(worker.done)
  IN  /\ worker.pc = "dispatch"
      /\ IF r.owner[1] \in running THEN DrainCompletion(r) ELSE UNCHANGED <<mem, loads, slots>>
      /\ WorkerMoves
      /\ UNCHANGED <<setupVars, running, registered, engineVars, used>>

\* A slot that alloc_or_evict can give: in the group's RAM region or its first one
\* on a device, the first that is empty, any one to evict when none is.
Available(s, slot, key) ==
  LET p == pool[s]
      g == GroupOf(topo[s], key[1])
      device == {r \in DOMAIN p.regions : p.regions[r].group = g /\ p.regions[r].pool # 0}
      empty  == {x \in DOMAIN slots[s] : x[1] = slot[1] /\ slots[s][x].state = "EMPTY"}
  IN  /\ p.regions[slot[1]].group = g
      /\ slot[1] = IF p.regions[slot[1]].pool = 0 THEN g ELSE Min(device)
      /\ \A x \in DOMAIN slots[s] : slots[s][x].key # key
      /\ IF empty # {} THEN slot[2] = Min({x[2] : x \in empty}) ELSE slots[s][slot].state = "READY"

\* accept_requests: loads are started in the worker's tick.
Load(s, slot, key, refused) ==
  /\ worker.pc = "accept"
  /\ Up = Scheds
  /\ s \in ToSet(worker.snap) \cap running
  /\ Spent + Len(topo[s].plan[key]) + (IF refused = 0 THEN 0 ELSE 1) <= MaxSpent
  /\ Available(s, slot, key)
  /\ StartAsyncLoad(s, slot, key, refused)
  /\ used' = [used EXCEPT !.reads = @ + Len(topo[s].plan[key]), !.errors = IF refused # 0 THEN @ + 1 ELSE @]
  /\ UNCHANGED <<setupVars, running, registered, worker>>

EndTick ==
  /\ worker.pc = "accept"
  /\ WorkerMoves
  /\ UNCHANGED <<setupVars, schedVars, engineVars, used>>

----------------------------------------------------------------------------

Init ==
  /\ os = None
  /\ source \in [Scheds -> DOMAIN Sources]
  /\ \A s \in Scheds : source[s] \in SourceOf(s)
  /\ files = [s \in Scheds |-> Sources[source[s]]]
  /\ topo = <<>> /\ pool = <<>>
  /\ running = {}
  /\ registered = <<>>
  /\ slots = [s \in Scheds |-> <<>>]
  /\ mem = [s \in Scheds |-> <<>>]
  /\ loads = [s \in Scheds |-> <<>>]
  /\ flight = {}
  /\ port = <<>>
  /\ worker = [pc |-> "off", snap |-> <<>>, at |-> 1, done |-> <<>>]
  /\ used = [reads |-> 0, errors |-> 0, stops |-> 0]

WorkerStep ==
  \/ Snapshot
  \/ Harvest
  \/ Dispatch
  \/ EndTick

KernelStep == \E r \in flight, err \in BOOLEAN : KernelCompletes(r, err)

Next ==
  \/ \E main \in DOMAIN files[Converted], fmt \in Formats : Convert(main, fmt)
  \/ \E s \in Scheds : \E main \in DOMAIN files[s] : SetupFrom(s, main)
  \/ \E s \in Scheds : StopFlag(s) \/ Unregister(s)
  \/ \E s \in running : \E slot \in DOMAIN slots[s], key \in DOMAIN topo[s].plan :
       \E refused \in 0..Len(topo[s].plan[key]) : Load(s, slot, key, refused)
  \/ WorkerStep
  \/ KernelStep

\* The worker is a loop that nothing stops, and the kernel ends every read.
KernelAnswers == \E r \in flight : flight' = flight \ {r}

Spec == Init /\ [][Next]_vars /\ WF_worker(WorkerMoves) /\ WF_flight(KernelAnswers)

----------------------------------------------------------------------------
(* Properties *)

Queued == flight \cup ToSet(port) \cup ToSet(worker.done)
OwnedBy(s, i) == {r \in Queued : r.owner = <<s, i>>}

\* Every variable has its type.
TypeOK ==
  /\ os \in {"posix", "win", None}
  /\ running \subseteq Up /\ ToSet(registered) \subseteq Up
  /\ \A s \in Up :
       /\ slots[s] \in [Slots(pool[s]) -> [state : {"EMPTY", "INFLIGHT", "READY", "FAILED"},
                                         key : DOMAIN topo[s].plan \cup {None}]]
       /\ \A i \in InUse(s) : /\ loads[s][i].key \in DOMAIN topo[s].plan
                             /\ loads[s][i].slot \in DOMAIN slots[s]
                             /\ loads[s][i].mask \subseteq DOMAIN topo[s].plan[loads[s][i].key]
  /\ worker.pc \in {"off", "idle", "poll", "dispatch", "accept"}
  /\ Spent \in 0..MaxSpent

\* The converter and the loader agree: whatever the files of a model have been
\* converted to, and whichever strip is named, parse_model finds every tensor once
\* and its segments hold its bytes (writer.cpp's layout, sections and strips
\* against the offsets that model_builder.cpp works out from the keys).
TensorReads(m, opened, t) ==
  IF Category(t.name) = "C3"
  THEN \E k \in DOMAIN m.expert :
         /\ m.expert[k].name = t.name
         /\ \A e \in DOMAIN m.expert[k].srcs :
              ReadSegs(opened, m.expert[k].srcs[e], m.expert[k].per)
                = [i \in 0..(m.expert[k].per - 1) |-> Byte(t.name.id, e * m.expert[k].per + i)]
  ELSE \E k \in DOMAIN m.dense :
         /\ m.dense[k].name = t.name
         /\ ReadSegs(opened, m.dense[k].srcs, t.size) = [i \in 0..(t.size - 1) |-> Byte(t.name.id, i)]

ModelReads(m) ==
  /\ Len(m.dense) + Len(m.expert) = Len(Tensors(Converted))
  /\ \A t \in ToSet(Tensors(Converted)) : TensorReads(m, OpenedBy(m), t)

RoundTrip ==
  Converted \notin Up =>
    \A main \in DOMAIN files[Converted] : ModelReads(ParseModel(files[Converted], main))

\* "DIO windows never read stale bytes" (writer.cpp:460) and every segment of an
\* expert starts on a sector (model.h, expert_slices_4k_aligned): in a converted
\* file the aligned window around any piece of an expert has been written in full.
WindowWritten(s, file) ==
  /\ Aligned(s.off)
  /\ \A o \in s.off..(AlignUp(s.off + s.len) - 1) : ByteAt(file, o) \notin {Meta, Hole}
ExpertWindowsWritten(m) ==
  \A k \in DOMAIN m.expert : \A e \in DOMAIN m.expert[k].srcs :
    \A s \in ToSet(m.expert[k].srcs[e]) : WindowWritten(s, OpenedBy(m)[s.file])

WindowsWritten ==
  Converted \notin Up /\ files[Converted][1].kv.layout # "original" =>
    ExpertWindowsWritten(ParseModel(files[Converted], 1))

\* The memory of a pool: no two columns of slots share an address, the RAM slots stay
\* within the allocation and that within --moe-ram-pool, and every group can hold a
\* full layer, without which init says it would deadlock (scheduler.cpp:69-76).
ColumnsApart ==
  \A s \in Up : \A x, y \in Slots(pool[s]) :
    LET rx == pool[s].regions[x[1]]
        ry == pool[s].regions[y[1]]
    IN  \A c \in DOMAIN rx.cols : \A d \in DOMAIN ry.cols :
          LET ax == ColAddr(pool[s], x, c)
              ay == ColAddr(pool[s], y, d)
          IN  /\ ax \in Nat /\ rx.cols[c].stride \in Nat
              /\ rx.area = ry.area /\ <<x, c>> # <<y, d>> =>
                   ax + rx.cols[c].stride <= ay \/ ay + ry.cols[d].stride <= ax

PoolPartition ==
  /\ ColumnsApart
  /\ \A s \in Up :
       LET p == pool[s]
       IN  /\ AreaAddrs(p, 0) \subseteq 0..(p.commit - 1)
           /\ p.commit <= p.asked.bytes
           /\ \A g \in DOMAIN topo[s].groups : p.regions[g].n \in topo[s].n_expert..NExperts(topo[s], g)

\* A device pool stays within its budget and its heap, and the devices together
\* have no more slots for a group than it has experts (route_b_inject.cpp:67-72).
DevicePoolsFit ==
  \A s \in Up :
    LET p == pool[s]
        Of(d) == {r \in DOMAIN p.regions : p.regions[r].pool = d}
        N(r)  == p.regions[r].n
        Bytes(r) == N(r) * topo[s].groups[p.regions[r].group].size
    IN  /\ \A d \in DOMAIN p.asked.devices :
             MapThenSumSet(Bytes, Of(d)) <= Least(p.asked.devices[d].budget, p.asked.devices[d].heap)
        /\ \A g \in DOMAIN topo[s].groups :
             MapThenSumSet(N, {r \in DOMAIN p.regions : p.regions[r].pool # 0 /\ p.regions[r].group = g})
               <= NExperts(topo[s], g)

\* A READY slot holds its expert's weights, column by column: whatever the layout
\* and the number of files, the alignment of the columns, the end of a file and
\* the order of the completions.  What the eight bits of staging_mask cannot name
\* is left out: those pieces, read by way of the staging buffer, never arrive
\* (scheduler.cpp:613).
Lost(s, slot, key) ==
  LET plan == topo[s].plan[key]
  IN  {i \in DOMAIN plan : i > MaskBits /\ Target(s, slot, plan[i]).staged}

LostAt(s, slot, key, c) ==
  LET plan == topo[s].plan[key]
  IN  UNION {plan[i].dst..(plan[i].dst + plan[i].bytes - 1) :
               i \in {j \in Lost(s, slot, key) : plan[j].column = c}}

HoldsExpert(s, slot, key) ==
  LET r == pool[s].regions[slot[1]]
  IN  \A c \in DOMAIN r.cols :
        LET t == Branch(s, key[1], c)
        IN  \A i \in (0..(r.cols[c].stride - 1)) \ LostAt(s, slot, key, c) :
              mem[s][r.area][ColAddr(pool[s], slot, c) + i] = SliceByte(s, t, key[2], i)

LoadExact ==
  \A s \in Up : \A x \in DOMAIN slots[s] :
    slots[s][x].state = "READY" => HoldsExpert(s, x, slots[s][x].key)

\* Every piece of a plan is read in whole sectors; by way of the staging buffer,
\* it gets a range of the buffer that begins on a sector, holds all its bytes and
\* is no other piece's, within what init gives each ring entry
\* (build_expert_read_plan against load_stride_, scheduler.cpp:196-213).
PiecesAligned ==
  \A s \in Up : \A k \in DOMAIN topo[s].plan :
    LET plan == topo[s].plan[k]
    IN  /\ DOMAIN plan # {}
        /\ \A i \in DOMAIN plan : Aligned(plan[i].start) /\ Aligned(plan[i].len) /\ Aligned(plan[i].staging)

PiecesApart ==
  \A s \in Up : \A k \in DOMAIN topo[s].plan :
    LET plan == topo[s].plan[k]
        end(i) == plan[i].staging + plan[i].len
    IN  \A i \in DOMAIN plan :
          /\ {plan[i].start, plan[i].len, plan[i].staging, plan[i].src, plan[i].bytes, plan[i].dst,
               pool[s].staging} \subseteq Nat
          /\ plan[i].staging <= plan[i].src /\ plan[i].src + plan[i].bytes <= end(i)
          /\ end(i) <= pool[s].staging
          /\ \A j \in DOMAIN plan : i < j => end(i) <= plan[j].staging
          /\ plan[i].direct => plan[i].len = plan[i].bytes

\* In the columns of its group the pieces of an expert lie apart, and fill them.
Fills(plan, cols) ==
  /\ \A i \in DOMAIN plan :
       LET c   == plan[i].column
           end == plan[i].dst + plan[i].bytes
       IN  /\ c \in DOMAIN cols /\ end <= cols[c].stride
           /\ \A j \in DOMAIN plan :
                i < j /\ plan[j].column = c => end <= plan[j].dst
  /\ \A c \in DOMAIN cols : \A o \in 0..(cols[c].stride - 1) :
       \E i \in DOMAIN plan : plan[i].column = c /\ plan[i].dst <= o /\ o < plan[i].dst + plan[i].bytes

PiecesInside ==
  \A s \in Up : \A k \in DOMAIN topo[s].plan :
    LET g == GroupOf(topo[s], k[1])
    IN  \A r \in DOMAIN pool[s].regions :
          pool[s].regions[r].group = g => Fills(topo[s].plan[k], pool[s].regions[r].cols)

\* A piece's window holds, where the piece is, what belongs where it goes to: what
\* the converter wrote is what the plan expects there.
PiecesRight ==
  \A s \in Up : \A k \in DOMAIN topo[s].plan : \A i \in DOMAIN topo[s].plan[k] :
    LET sl   == topo[s].plan[k][i]
        file == Opened(s)[sl.file]
        from == sl.start + sl.src - sl.staging
        t    == Branch(s, k[1], sl.column)
    IN  \A o \in 0..(sl.bytes - 1) :
          /\ from + o < file.data_off + Len(file.data)
          /\ ByteAt(file, from + o) = SliceByte(s, t, k[2], sl.dst + o)

\* So the reads of a load are accepted, do not meet in its buffer, and make its slot
\* an expert.
PlansFit == PiecesAligned /\ PiecesApart /\ PiecesInside /\ PiecesRight

\* A step changes no byte but of a slot that is being loaded: a direct read is of
\* whole sectors, and a column's neighbours are other experts.
OwnSlotOnly ==
  [][\A s \in Up : \A a \in DOMAIN mem[s] : \A x \in DOMAIN mem[s][a] :
       mem'[s][a][x] # mem[s][a][x] =>
         \E y \in DOMAIN slots[s] :
           /\ pool[s].regions[y[1]].area = a /\ x \in SlotAddrs(pool[s], y)
           /\ "INFLIGHT" \in {slots[s][y].state, slots'[s][y].state}]_vars

\* The pending count of a load is the number of its requests that are still to be
\* drained, and a ring entry is free only when none is: an entry given back early
\* would let a late read write into another load's buffer and settle it.  What a
\* stopped scheduler's completions would have counted is dropped.
PendingExact ==
  /\ \A s \in running : \A i \in InUse(s) : loads[s][i].pending = Cardinality(OwnedBy(s, i))
  /\ \A r \in Queued : r.owner[2] \in InUse(r.owner[1])

\* Nothing the scheduler submits is refused for its alignment: a load fails only
\* when a read does (scheduler.cpp:593-605; async_dio_win.cpp:172).
FailsOnlyOnError ==
  used.errors = 0 =>
    \A s \in Up :
      /\ \A x \in DOMAIN slots[s] : slots[s][x].state # "FAILED"
      /\ \A x \in DOMAIN slots[s] : slots[s][x].state = "INFLIGHT" =>
           \E i \in InUse(s) : loads[s][i].slot = x

\* The loads of a running scheduler are settled, well or not, as long as the
\* worker runs and the kernel answers (drain_completions), whichever scheduler's
\* turn harvests their completions.
LoadsSettle ==
  \A s \in Scheds : InUse(s) # {} ~> InUse(s) = {} \/ s \notin running

=============================================================================
