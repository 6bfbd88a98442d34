# A verification development for StreamMoE

StreamMoE runs mixture-of-experts models whose expert weights do not fit in
memory. The experts live on disk; a scheduler streams them through pools of
slots in RAM and in device memory while compute threads work on one layer after
the other. This directory holds TLA+ models of that machinery, TLC runs that
check them on small instances, and TLAPS proofs of what matters most. Paths
below are relative to the repository; the implementation is under `src/src/`.

## 1. Inventory

| Component | Source | State | Operations | What is hard | What makes it correct |
|---|---|---|---|---|---|
| Expert scheduler | `backend/scheduler.{h,cpp}` | slots, directory, active request, ledger of pins, ring of loads, move queues, stall clock | `pin_layer`, `unpin`, `accept_requests`, `alloc_or_evict`, `start_async_load`, `drain_completions`, `drain_moves`, `active_*`, worker loop, move worker | three threads and the I/O engine; loads that fail, are refused, or complete after their request is gone; demotion that evicts in turn | a READY entry holds its weights; no double load; pinned slots are left alone; refcounts balance; every call returns |
| Slot words, directory | `backend/slot.h` | one atomic word per slot (state, generation, refcount); entry per layer, expert, pool | `try_pin`, `unpin`, `mark_ready`, `begin_evict`, `begin_reload`, `release_to_empty`, `mark_failed`, `scan`, `transition` | two words that change one after the other | a scan never leads to another expert's bytes |
| Request ring | `backend/slot.h` `mpsc_alloc_queue` | head, tail, cells, generations | `push`, `pop` | lock-free, plain payload | a bounded FIFO queue |
| Batch await | `backend/slot.h` `batch_await_t`, futex helpers | `done`, `failed`, `target` | `wait`, `reset`, settle, finish, fail | wait/wake races; the object is a stack local | no lost wake, no store after the call has returned |
| DIO engines | `io/async_dio_{posix,win}.cpp` | requests in flight, completion queue | `submit_batch`, `wait_events` | one engine for every model and for the synchronous reads; partial acceptance, short reads, reads that post no completion | every accepted read is reported once, to whom it belongs |
| Staging reader | `io/staging_reader.cpp` | none (plans); requests of one call | `build_expert_read_plan`, `read_expert_sync` | alignment at both ends; timeout with reads in flight | the payload arrives where the column expects it |
| Expert statistics | `pool/expert_stats.cpp` | counters, scores | `record_access`, `notify_tokens_generated`, `flush` | the scheduler gives it no file (`scheduler.cpp:223`): nothing persists | |
| Mix split, scatter plan | `backend/{mix_split,scatter_plan}.cpp` | none | pure functions | boundaries | every token and expert is in exactly one part |
| Minigraph executor | `backend/minigraph_exec.cpp` | buckets, scratch buffers, transfers of the call that are done, staging buffers | `moe_exec_mul_mat_id`, `exec_dense_head`, `exec_moe_closure`, `exec_dense_tail`, `exec_fused_tail_and_head`, `topo_segment_execute`, `select_relays`, `dispatch_relay_batch` and the bucket kernels | pins held across compute; error paths; three ways through a layer; transfers chosen in five places | what is pinned is unpinned once; a node reads the results of this call only |
| Route B chain | `backend/route_b_chain.cpp` | split of each layer, memory plan of each device, transfers | capture, `build_layer_plans`, `layout_arena`, `pack_interval` | memory reused by units, layers and stages; tensors that outlive their unit | what is still to be read is not overwritten |
| MoE backend | `backend/moe_backend.cpp` | buffers, device registration | ggml backend interface | order of initialisation | buffers outlive their users |
| Model loading | `loader/*` | model description, topology | `parse_model`, `build_topology` | four layouts, strips over N files, names that anchor a set of files | the segments of a tensor hold its bytes |
| Server injection | `server/route_b_inject.cpp` | pools of all models, the shared engine | `route_b_setup`, `plan_device_slots`, `vram_alloc_group`, `route_b_fill_dense` | heaps that fall short of a plan; dense reads next to a running worker | no device over its budget, no group with more slots than experts |
| Converter | `convert/*` | output files | `convert_model` to V2, V3, V3 strips | padding, sections, splits by ratio, conversion of what was converted | what is read back is what was written, and no aligned window holds unwritten bytes |
| Profiler, logger, crash, TSC | `profile/*`, `common/*` | diagnostics | | | |

How they interact. The executor calls `pin_layer` on its own thread. A call pins
what is resident and pushes one request with the rest into the ring, with
pointers to its `batch_await_t`; it then sleeps on `done`. The global scheduler
thread (`worker_loop`) drains completions of the DIO engine, serves the one
active request of each scheduler (allocating or evicting a slot and submitting
reads for each missing expert), and finishes moves that the scheduler's move
worker has copied. All models share the engine and the scheduler thread: a completion
is handed to the scheduler that its request names. It pins each expert of the request as it becomes READY and
counts `done` up; a failure unpins what it pinned and sets `failed`. After the
computation the executor unpins everything.

Before that, once: the converter may rewrite the model's files; `route_b_setup`
parses them, groups the layers by the size of their experts, plans the reads of
each expert, divides RAM and device memory into regions of slots, and starts the
scheduler. The loader then reads the dense tensors through the same engine.

## 2. Modules

| Module | Models | State and actions |
|---|---|---|
| `ExpertScheduler` | one `expert_scheduler` with its three threads and the I/O engine | one variable per member or queue; one action per handler or per turn of a loop that another thread can observe. `spc` is where `worker_loop` stands, `epc` where `pin_layer` stands |
| `PinService` | what `pin_layer` and `unpin` promise | ask, hold, grant, refuse, return |
| `PinRefinement` | the mapping from the first to the second | |
| `ExpertSchedulerProofs`, `AccountingProofs`, `SlotProofs` | theorems about `ExpertScheduler`: types and copies, pins and `PinService`, the return of slots; each extends the one before | |
| `AllocQueue` | `mpsc_alloc_queue` | one action per atomic load, store or exchange and one per payload access |
| `BoundedFifo` | what the ring promises | push, pop |
| `BatchAwait` | `batch_await_t`, the futex calls and the scheduler's side of them | one action per load, store and system call |
| `RequestChannel` | the two together: submit, wait, pop, register, settle, finish, fail | |
| `RequestChannelProofs` | theorems about `RequestChannel` and the ring in it | |
| `MixSplit`, `ScatterPlan` | `build_mix_plan` and `build_scatter_plan` | operators |
| `LayerBuckets` | `exec_layer_burst_chain_buckets`: rounds, targets, ways out, failures | `pc` is where the calling thread stands; one action per loop turn, one per device graph |
| `LayerBucketsProofs` | theorems about `LayerBuckets` | |
| `ArenaLayout` | `build_layer_plans`, `layout_arena`, `pack_interval` | operators from a graph to the place of every tensor and shell |
| `LayerPipeline` | `moe_exec_mul_mat_id` and the dense segments, relays and fusions, on the memory of `ArenaLayout` | `mem` is what every unit of every buffer holds, `flying` the asynchronous copies, `executed` the relays done; `pc` is where the calling thread stands |
| `LayerPipelineProofs` | theorems about the transfers of `LayerPipeline` | |
| `FileLayout` | what converter and loader share: tensors, categories, segments, `sm_split_blocks` | operators |
| `GgufWriter` | `convert/writer.cpp` | operators from a model to the bytes and keys of its files |
| `ModelBuilder` | `loader/model_builder.cpp` | operators from files to a model |
| `Topology` | `build_topology`, `build_expert_read_plan` | operators |
| `ExpertPool` | `plan_device_slots`, `vram_alloc_group`, `expert_scheduler::init`, the addresses of slots | operators |
| `ExpertLoad` | the way of a weight from a file to a slot, for several schedulers: convert, set up, load, read, harvest, dispatch, stop | `files`, what each scheduler made of them (`topo`, `pool`), its slots, its memory byte by byte and its ring of loads; the engine (`flight`, `port`); the worker thread |
| `ExpertLoadProofs` | theorems about `ExpertLoad`: types, the reads of a load, why a load fails, where it writes; and about the read plans of `Topology` | |
| `Induction` | induction over sets of numbers, for functions defined by recursion | |
| `DenseLoad` | the same with `route_b_fill_dense` and `read_expert_sync` on the main thread | `dense` is where that thread stands |
| `MCModels`, `MCExpertScheduler`, `MCRequestChannel`, `MCLayerBuckets`, `MCLayerPipeline`, `MCExpertLoad`, `MCDenseLoad` | model values, models, graphs and symmetry for TLC | |

`ExpertScheduler` takes a handler of the scheduler thread as one step where no
other thread can tell the difference: while the scheduler evicts, the one exec
thread waits in `pin_layer`, so only completions (drained by the same thread) and
the move worker run next to it. `RequestChannel` opens the steps of the hand-over
that `ExpertScheduler` takes at once.

`LayerBuckets` follows one call of the executor. `Init` has the plan of the split;
then come the loops of the function, in its order: a target for each device,
the rounds, the submissions, the CPU graph, the convergence, `layer_fold`, the
guard that frees the round buffers, and the caller's `unpin`. A device runs its
graph at any time after its submission. A value is the bag of expert evaluations
summed into it, so that a dropped, repeated or misrouted one is seen wherever it
ends up. Each place the function can fail is an action. Left out: the ggml
operations inside a round, the sizes of staging and arena, the fusion of the next
layer's head, and the relays of a fused tail (these are in `LayerPipeline`).

`LayerPipeline` builds one graph (`Build`: capture, plans, layout) and calls it
several times. A call runs the first head, then for each layer the closure and
what follows it in one of three ways: tail and next head inside the closure's
device graph (`ClosureFused(TRUE)`), the tail only (`ClosureFused(FALSE)`), or by
segments of one device each (`ClosureThenTail`, then `SegIncoming`, `SegFlush`,
`SegBoundary` per segment). A result is the pair of its tensor and the call it was
computed in, written over every unit of memory it occupies; a node that finds in
the place of an operand anything but that operand's result of this call writes a
wrong result. So overlaps, early or missing copies and stale results all show in
`FreshReads`, wherever they come from. A closure is one step that reads its
operands and leaves `moe_out` (its inside is `LayerBuckets`). Whether a device
supports the operations of a fusion is left open. A copy to a device with a
pinned staging buffer lies in that buffer until it lands, in the order of the
device's queue; a new batch reuses the buffer from its start. The copies for a
segment's own device are not waited for before its graph is submitted
(`skip_h2d_sync_dev`, `minigraph_exec.cpp:598-603`), so whether they land first is the
backend's affair. The constant `Ordered` names the devices that end the copies sent to
them before a later graph reads; on another one the graph may run any number of its
nodes before they land (`RunBefore`, `RunGraph`). `docs/DEVICE_FOLD_HEAD_FUSION.md:619-630`
reports that the backend of its tests did not keep that order; Tier 2 has
synchronized since (`minigraph_exec.cpp:2728-2732`), the segments have not. The outgoing
copies of a fused graph
are modelled, but no placement of `--dense-placement` gives them anything to do.
Left out: debug dumps and prefill export, audits that abort at build time,
operands that are expert tables, a second build over the plan of the first.

`ExpertLoad` composes the pure modules with the threads. A byte of a weight is the
pair of its tensor and its place in it, so that a wrong offset anywhere between
the converter and a column shows as another byte. `Convert` replaces the files of
the main model by a conversion of them, from any of them and to any target, any
number of times; `SetupFrom` is `route_b_setup`, for the main model and then the
draft. `Load` is `start_async_load` within `accept_requests`: on POSIX the bytes
arrive at once and the requests are queued, on Windows `KernelCompletes` ends each
later, in any order. The worker (`Snapshot`, `Harvest`, `Dispatch`, `EndTick`) takes
a snapshot of the registered schedulers, harvests for each in turn, hands every
completion to its owner (`DrainCompletion`) and accepts loads; `StopFlag` and
`Unregister` are the two steps of `stop()` that other threads see. Its test of
`is_running` and the drain that follows are one step.

Scaled or left out in it: a sector is 4 bytes, a header 5 bytes and starts the data
area at the next sector; `staging_mask` has 2 bits instead of 8, so that experts of
a few pieces already have more than it names (`LoadExact` holds for all other
pieces, and `Lost` names these: the bytes never reach the slot); 2 completions per
harvest instead of 64, a ring of 2 instead of 16. Shares of memory and ratios are
exact quotients, doubles rounded down in the code. Which free ring entry a load
gets is not told apart (the code keeps a stack of them). A read past the end of a
file is short; other short reads do not occur. Tensor types are left out: a size
stands for them. Every source has a tensor without a layer (`build_units` reads the
global section without a test that there is one, `writer.cpp:483`), and layers
whose experts have equal sizes have equal branches (`build_topology` does not
check). A slot is taken as `alloc_or_evict` may give it, without pins or moves; a
load that is refused at once leaves its slot in flight with no key, as in
`ExpertScheduler`. `DenseLoad` follows the queue and not the bytes.

Abstractions of `ExpertScheduler`: one expert group (groups share no slot); one
exec thread (`scheduler.cpp:850`); the eviction score is any choice among the
candidates of the preferred layer distance; the FIFO order of moves is any order;
generations are left out (`unpin` does not compare them); a load is a number of
reads, each of which may be refused or fail.

## 3. Runs

| Run | Instance | Shows |
|---|---|---|
| `sched_errors` | 2 RAM slots, 1 device slot, 2 ring elements, read errors and refused submissions | `OneCopyOneSlot`, `EverySlotComesBack`, `NoSlotOnlyBehindTransfer`, `ReadyIsResident`, `RequestAccounted`, `RefcountExact`, `ComputeHoldsLayer`, `PinnedSlotKept`, `TypeOK`; `PinServiceSpec`: `pin_layer` is all or nothing |
| `sched_live` | one ring element, 2 reads per load, read errors and refused submissions, fairness | `PinLayerReturns` |
| `sched_retry` | violation | `RetryHasRoom`: a FAILED slot is never taken back |
| `channel` | 2 exec threads, ring of 2 cells, 3 pushes, requests of 1 or 2 items | `CellExclusive`, `FifoSpec`, `NoStoreAfterReturn`, `ReturnSettled`, `SettledReturns`, `TypeOK` |
| `channel_lost` | violation | `FailureWakes`: the wake of a failure can be lost |
| `buckets` | 3 experts, 3 pools, 2 slots per token, every routing of 1 and of 4 tokens, 11 placements | `OutputExact`, `FusedTailComplete`, `ReleaseWhenIdle`, `RoundsPartition`, `RunsGreedy`, `TypeOK` |
| `buckets_release` | violation | `BuffersOutliveGraphs`: a failing way out frees what a device still reads |
| `pipeline` | 4 layers, host and 2 devices (one with pinned staging, which is in `Ordered`; one without, which is not), 21 placements of C1, C2 and the expert pool, 8 forms of graph, 2 calls, failures | `FreshReads`, `OutputFresh`, `SyncPinned`, `AllRelayed`, `PackLowest`, `TypeOK` |
| `pipeline_unordered` | violation | `FreshReads`: on a device that is not in `Ordered` a segment reads its operands before they are copied |
| `pipeline_early` | violation | `FreshReads`: a tensor of the tail is copied before the tail computes it |
| `load` | a main model of two forms (two groups; two shards and three branches) and a draft, 4 formats of conversion, both engines, 2 device pools, up to 3 reads, errors and stops | `RoundTrip`, `WindowsWritten`, `PoolPartition`, `DevicePoolsFit`, `LoadExact`, `OwnSlotOnly`, `PendingExact`, `PlansFit`, `FailsOnlyOnError`, `LoadsSettle`, `TypeOK` |
| `load_dense` | violation | `EventHasOwner`: the worker harvests a read of the main thread |

Bounds, and why they are enough. The pool floor is one layer; two layers with a
pool of little more than one make every request evict, and a device slot makes
evictions demote and demotions evict in turn. One ring element makes the ring
run out; two let loads overlap. With two cells one thread can stand between claim and
publication while the other publishes behind it, two requests are queued at once, and
the third push takes the first cell again. A thread has one request outstanding, so
that two threads fill the ring and nobody is left to find it full; `CellsExclusive`
and `RingIsFifo` have any number of cells and threads. Four tokens give runs with gaps and tight orders that
are not the identity; two slots give pools with none, one or two hits of a token;
the placements reach every way out (direct, in place, copied, folded), with and
without a device context and a CPU share. Four layers use both parity halves twice, and a carry over more than one layer
exists when the embedding is read again in the last; a second call finds the
results of the first in memory; sizes of one to three units with lines of two
exercise rounding and packing. The 21 placements are all those of C1, C2 and
pool on three devices except C2 apart from a C1 that has the experts, which is
what `pipeline_early` shows wrong; the tensors that cross units fill whole lines,
because with others the sync region is too small (`PaddingMissing` in
`MCLayerPipeline`, which TLC evaluates for both kinds). A device without pinned
staging copies at once and needs no order; on one with it `FreshReads` and
`OutputFresh` hold if it is in `Ordered`, and `pipeline_unordered` shows that they need
that. With I/O errors slots are lost for good
(`sched_retry`); `EverySlotComesBack` and `NoSlotOnlyBehindTransfer` name those
(`Lost`) and hold for all others.

In `load`, sizes from 2 to 8 bytes with sectors of 4 make tensors that start and end
on and off a sector, strips that cut a branch in the middle, and columns whose slots
are aligned in one region and not in another; two devices, the first with less heap
than its plan, make blocks halve and a second device plan with the rest. The files of
a model reach a fixed set of forms after a few conversions, so conversions need no
bound: the bound on reads, errors and stops is the only one. Three of them are one load of three pieces, one of two
and an error, two schedulers' loads at a time, or a stop between; loads and stops
begin when both models are set up.

Fairness. Every thread of the program is a loop that nothing stops, so each has
weak fairness on its whole next-state action; reads complete (the kernel ends
them) and the clock advances. The exec thread is not required to make a call.
In `RequestChannel` a failure is never required. In `ExpertLoad` the worker
(`WorkerMoves`) and the kernel (`KernelAnswers`) have weak fairness: the worker is a
loop that ends with the process, and the kernel ends every read. A stop is never
required, and neither is a load.

## 4. Proofs

Every theorem holds for all values of the constants that satisfy the `ASSUME`s of
the modules: every number of layers, experts, slots, ring elements, threads, cells
and reads, with and without device slots and I/O errors. The invariants were run in
TLC as invariants of the run of their component before they were proved.

### The scheduler

`TypeCorrect` (`Spec => []TypeOK`) rests on the inductive `Typed`: `TypeOK` and
four facts it needs, that an entry names a slot of its own pool, that the reads
of a load add up to at most `NSlices`, that a load is started only for a slot just
claimed, and that a request's target is the size of its bitmap.

`OneCopy`, `ReadyResident` and `PinnedKept` rest on the inductive `Residency`. None
of them is inductive alone. `Residency` says what stands behind every entry that
is not READY (a slot IO_INFLIGHT with exactly one load or move under way for
that key and slot), that a pinned slot is READY, and, inside `accept_requests`,
that a claimed slot belongs to no load yet and that `alloc_or_evict` works for an
expert with no copy anywhere. Three lemmas cover the ways a slot changes hands:
nothing but refcounts changes, a slot is claimed, a transfer ends.

`RequestsAccounted`, `RefcountsExact`, `ComputesOnItsLayer` and the refinement
`ImplementsPinService` rest on `Accounted`, inductive together with `Typed` and
`Residency`. A pin is recorded in a handle, or given by the scheduler and not
recorded yet: on the ledger while the request is active, on its way to the exec
thread after it. An expert has one copy, so the call pins no slot twice, and
`PinsExact` says that a refcount is 1 for the copies of the experts recorded or
given and 0 elsewhere. For that to be inductive, `CallSets` says what the call has
and lacks in each of its phases, `CallStage` where its request stands and that the
counts of request and await add up, `LedgerExact` that the ledger is what was given,
and `PinsPlaced` that no pinned expert moves. In the refinement `PinBegin` is `Ask`;
`PinScan`, settling and registration are `Hold`; `PinHit` and `PinReturn` are
`Grant`; `active_fail` is `Refuse`; the failing return and `UnpinAll` are `Return`;
every other step is `Cache`, or stutters. The proof shows two exits of the code
never taken in the model: the branch of `active_settle` for a pin that fails on
what a scan has just found, and the error of `pin_layer` for an expert that is gone
when it collects what the scheduler has pinned.

`SlotsComeBack` and `SlotBehindTransfer` rest on `Backed`, the converse of
`Residency`: a slot being vacated is the source of a move, a READY slot is named by a
READY entry, a LOADING entry has its load (or `start_async_load` is about to begin
it), a MOVING_IN entry has its move. So a slot out of use is out of use for one
transfer or for an error. `SlotBehindTransfer` adds a count: when a pass finds no
slot in RAM and nothing is under way, every RAM slot not lost to errors is pinned,
by `PinsExact` for an expert of the layer other than the item; different slots have
different experts, so there are fewer of them than `NExperts`.

### The request channel

`ChannelTyped`, `CellsExclusive`, `StoresBeforeReturn`, `ReturnsSettled` and the
refinement `RingIsFifo` rest on one inductive invariant in two parts. `QueueInv` is
about the ring. A producer's view of `head` may be old but is never ahead, so that
the room it saw is still there when its exchange claims a number. A claimed
number that is not yet published belongs to one producer alone, and its cell does
not carry that number's generation (`HeldApart`); so when `pop` sees the generation
it asks for, nobody holds the cell. The abstract queue is the sequence of the
numbers claimed and not popped, each with the request its producer or its cell
holds: the claim is the abstract push, the store to `head` the abstract pop.
`AwaitInv` follows the request of a thread, which from its submission until its
items have settled is in exactly one place: the push, a claimed number, popped, or
active. Until it is registered its await is as the thread has reset it
(`SentUntouched`), and while it is active the thread is inside (`LiveExact`): no
store can reach an await that has been left. `MaxPush` bounds the pushes and not
the argument.

### The executor

`ReleaseIdle` (`LayerBucketsProofs`) rests on `Busy`: what is in flight was
submitted and has not been waited for, loop by loop. `SuccessKeepsBuffers` adds
`RoundsOwned`, that a round is allocated by the step that puts it in a graph: as long
as nothing has failed, `BuffersOutliveGraphs` holds, which the run `buckets_release`
refutes for a layer that fails.

### The transfers

`TransfersAllRun` (`LayerPipelineProofs`) states `AllRelayed` for any set of graphs that
satisfy `Placed`: every transfer is for a real node that its layer's head or tail runs
on the device of the copy, and what lies between the closures of two layers is on one
device. That is what `--dense-placement` gives (`blk.*` on C1, the embedding and the
output on C2, `route_b_inject.cpp:332`), and `MCLayerPipeline` has TLC evaluate it for
every graph of the run `pipeline`. The invariant `Settled` follows a call from job to
job: a transfer that is due is made, or a segment to come runs on its device and the
device of its source has not been flushed (`Ahead`). Without `Placed` the theorem is
false: where a fused tail has a segment on a device that the head reads from and does
not run on, that device counts as flushed before the head's copies are due, and they
are never made. `docs/PER_DEVICE_ARENA.md:123` foresees layers on different devices; `select_relays`
does not yet allow for them. `Split`, that what `SelectSeq` picks is a sequence of
nodes, is a hypothesis only because its test is an operator; TLC evaluates it too.

### The loads

`LoadTyped` and `PendingCounts` (`ExpertLoadProofs`) rest on the inductive `LoadInv`.
What is completed and not drained is one line: the completions harvested, then those
in the port; a harvest leaves it as it is, a drain takes its first. `PendingExact` is
not inductive alone: a count goes down by one with every completion drained, which is
right only if no read is in flight or in line twice (`Apart`), and a load may take a
free ring entry only if no read is left that names it. So `LoadInv` says that every
read belongs to an entry in use (`Owned`), also when its scheduler has stopped and its
completion will be dropped. The assumptions are that `MaxSubTensors`, `MaskBits` and
`MaxSpent` are naturals and that a harvest may take at least one completion; nothing
is assumed about plans, addresses and alignment, and with a plan of any length every
read may be refused. The bytes that are read, staged and copied are no part of it.

`FailsNeedErrors` says that nothing is refused for its alignment and no load fails
before a read does. It rests on `Sound`: while no error has occurred, no load and no
queued read has failed and a slot in flight has its load. A read goes to its column
only where the address is aligned, else to the staging buffer, so all that is left to
know is that the pieces of a plan are whole sectors. That is the theorem's hypothesis,
`PiecesAligned`, the first part of `PlansFit`, which the run `load` checks; and
`PiecesFit` proves, of any pieces at natural offsets, as many as a plan may have, that
`build_expert_read_plan` reads whole sectors that hold each piece, into places of the
staging buffer that begin on a sector, hold the piece and do not overlap. Between the
two lies only that the offsets which `parse_model` works out from a file's keys are
naturals (they come from folds over the file) and that an expert has no more pieces
than `MaxSubTensors`; with more, its plan is empty and it can not be loaded.

`OwnSlots` says that no step changes a byte but of a slot that is being loaded, so
neither a direct read nor a copy out of a staging buffer reaches an expert that is in
use. Its hypotheses are `PlansFit` and `PoolPartition`: an expert's pieces lie within
the columns of its group, one that may be read straight to its column has a window
with nothing else in it, and no two columns of slots share an address. They speak of
what set-up makes, once, of files and memory; the run `load` checks them for all that
the planner and the allocator make of theirs. What the steps add is proved: a
completion may come late, out of order or after its scheduler has stopped, so it is
not enough that a load is started in a free slot. The invariant `Placed` says that a
load in progress has an INFLIGHT slot of its expert's group which is no other load's
(`SlotsTaken`), and that every read in flight or in line is of a piece of its load's
expert (`SlicesPlanned`); with `LoadInv`, which keeps a ring entry until its last read
is drained, whatever ends late ends in the slot it was meant for. `MemShape`, that the
addresses of a scheduler are those of its slots, goes along. A proof can not look into
a fold, so `ReadInto` says at once what the reads submitted for a load leave at an
address: the byte of the last of them that reaches it.

`ReadyExact` says that a slot that is READY holds its expert (`LoadExact`), under the
same two hypotheses. Of `PlansFit` it also takes that the pieces fill their columns,
that each has a part of the staging buffer of its own, and that the file has, where a
window is read, what belongs where the piece goes (`PiecesRight`). `LoadExact` is not
inductive: a slot becomes READY with its last completion, and what is in it then was
read long before, in an order the kernel chose, by both ways at once. The invariant
`Exact` adds what holds of a load while it runs (`Arrived`): if it has not failed,
each of its pieces is waiting for a read in flight or one that failed, or it is in the
load's staging buffer if its mask bit is set and its completion is still to be
drained, or else it is in its slot, or one of those the mask has no bit for (`Lost`).
With it, the last completion of a load that has not failed finds every piece in the
slot (`LastArrives`), and one before the last moves one piece from the buffer to the
slot (`MoreArrives`); where the engine reads at once, all pieces have arrived when the
load starts (`BegunArrived`). All that others do leaves a slot and a load alone
(`OthersKept`), by what `OwnSlots` rests on: nothing is written outside the slot of a
load, a slot in flight is one load's, and the one `alloc_or_evict` gives is in no
load.

### Model-checked only

The liveness properties `PinLayerReturns`, `SettledReturns` and `LoadsSettle`
(fairness is beyond the prover). What rests on what the folds of the community modules
compute for all inputs: the bags that the rounds of a layer add up to (`OutputExact`,
`FusedTailComplete`, `RoundsPartition`, `RunsGreedy`, and the `TypeOK` of
`LayerBuckets` and `LayerPipeline`), the memory plan and what is in that memory
(`FreshReads`, `OutputFresh`, `SyncPinned`, `PackLowest`), the layout of files and
pools (`RoundTrip`, `WindowsWritten`, `PoolPartition`, `DevicePoolsFit`, and of
`PlansFit` that the staging buffer of a ring entry is long enough, that an expert's
pieces fill their columns and that the file has their bytes). A fold takes its
operator as a parameter, and no prover here can instantiate an induction over it; a
function that a module defines by recursion itself can be reasoned about with
`SetInduction` (`Induction`), as `PiecesFit` does for `StagedAt`.

## 5. Disagreements found

Each is a run that is expected to be violated, and a `findings` entry in
`PROJECT.json` with the quoted comment: the slot of a failed load is never
reclaimed, and neither is that of a refused one (`sched_retry`), the
wake of a failure can be lost (`channel_lost`), a failing layer frees its
round buffers under a running device graph (`buckets_release`), the copies for a
segment are not ordered before its graph by anything in the code
(`pipeline_unordered`), the
copies before a tail take tensors that it has yet to compute (`pipeline_early`), and
the worker takes the completions of the synchronous reads for loads (`load_dense`).
Seen and without a run of their own: the sync region is sized without the padding that
its tensors get, so that the last of several that do not fill whole lines lies in the
next unit's window (`route_b_chain.cpp:599`, also 551 and 711; the comment at 372 says
they are pinned "otherwise the next unit's window would overwrite them"), evaluated as
`PaddingMissing`; the eight bits of `staging_mask`
(`scheduler.cpp:613`, in `load` as what `LoadExact` excepts); device regions but the
first of a group are never used (`scheduler.h:253`, in `Available`); a plan that a
device fulfils leaves nothing of its group to the next device, although the comment
at `route_b_inject.cpp:70` has only what was allocated taken off (260, in
`DeviceRegions`); the arena of an old build is never freed (`route_b_chain.cpp:732`).

## 6. Not modelled, and the plan

Not modelled: what `stop()` does to moves and to a thread that waits; the
statistics (they persist nothing and feed only the eviction score, which is a free
choice in the models); strips of the V2 layout, which nothing in the repository
writes; a conversion that is interrupted (its header is complete before its data);
the ggml operations themselves; the buffers and registration of the MoE backend;
several builds of a pipeline (the arena that is not freed; views across layers,
`route_b_chain.cpp:276`); the hand-over of tensor overrides to llama.cpp.
Diagnostics (profiler, logger, crash handler) change no state of the system.

Next, in order: the second half of `stop()`; a finer model of eviction against a
second exec thread (slot words with generations; the program runs one); the backend's
buffers. To prove: that what a segment reads has been written (`FreshReads`, with the
memory plan as hypothesis), and the columns of a pool apart (`PoolPartition`) from the
sums that `init` takes of its groups.
