----------------------------- MODULE ExpertPool -----------------------------
(***************************************************************************)
(* How the memory for experts is divided: the device pools planned and     *)
(* allocated by server/route_b_inject.cpp, then expert_scheduler::init.    *)
(* The shares of spare memory are exact quotients here, doubles rounded    *)
(* down in the code.                                                       *)
(***************************************************************************)
EXTENDS Topology

CONSTANT RingFloor       \* the least number of loads in flight (16)

Least(a, b) == IF a < b THEN a ELSE b
GroupBytes(topo, g) == Len(topo.groups[g].layers) * topo.n_expert * topo.groups[g].size
NExperts(topo, g)   == Len(topo.groups[g].layers) * topo.n_expert

----------------------------------------------------------------------------
(* plan_device_slots: slots of each group on a device with a byte budget,  *)
(* at most remaining[g]: a full layer of the groups with the largest       *)
(* experts first, then the spare by what is still missing.                 *)

PlanDeviceSlots(topo, budget, remaining) ==
  LET groups == topo.groups
      order  == SortSeq([g \in DOMAIN groups |-> g], LAMBDA a, b : groups[a].size > groups[b].size)
      Floor(acc, g) ==
        LET want == Least(remaining[g], topo.n_expert)
        IN  IF groups[g].size <= acc.budget /\ want * groups[g].size <= acc.budget
            THEN [plan |-> [acc.plan EXCEPT ![g] = want], budget |-> acc.budget - want * groups[g].size]
            ELSE acc
      first == FoldLeft(Floor, [plan |-> [g \in DOMAIN groups |-> 0], budget |-> budget], order)
      left  == [g \in DOMAIN groups |-> remaining[g] - first.plan[g]]
      bytes == [g \in DOMAIN groups |-> left[g] * groups[g].size]
      share(g) == (first.budget * bytes[g]) \div Total(bytes)
  IN  IF Total(bytes) = 0 THEN first.plan
      ELSE [g \in DOMAIN groups |-> first.plan[g] + Least(share(g) \div groups[g].size, left[g])]

\* vram_alloc_group: blocks, in slots, got from a heap with room for `room` of
\* them.  A refused request is halved until a single slot is refused.
VramAllocGroup(want, room) ==
  LET Try(acc, i) ==
        LET got == Total(acc.blocks)
            ask == Least(acc.chunk, want - got)
        IN  IF acc.stop \/ got >= want THEN acc
            ELSE IF got + ask <= room THEN [acc EXCEPT !.blocks = Append(@, ask)]
            ELSE IF ask \div 2 >= 1 THEN [acc EXCEPT !.chunk = ask \div 2]
            ELSE [acc EXCEPT !.stop = TRUE]
  IN  FoldLeft(Try, [blocks |-> <<>>, chunk |-> want, stop |-> FALSE], [i \in 1..(2 * want) |-> i]).blocks

\* Mutant: a plan that falls short leaves all it asked for to the next device.
AddBlocks_KeepsRest(acc, d, base, g, size, want, blocks) ==
  [heap      |-> acc.heap - Total(blocks) * size,
   remaining |-> [acc.remaining EXCEPT ![g] = IF Total(blocks) >= want THEN 0 ELSE @],
   regions   |-> acc.regions \o [k \in DOMAIN blocks |->
                   [pool |-> d, group |-> g, n |-> blocks[k], base |-> base]]]

\* The blocks that device d got for a group.  A plan that came off in full
\* leaves nothing of its group for the next device.
AddBlocks(acc, d, base, g, size, want, blocks) ==
  [heap      |-> acc.heap - Total(blocks) * size,
   remaining |-> [acc.remaining EXCEPT ![g] = IF Total(blocks) >= want THEN 0 ELSE @ - Total(blocks)],
   regions   |-> acc.regions \o [k \in DOMAIN blocks |->
                   [pool |-> d, group |-> g, n |-> blocks[k], base |-> base]]]

AllocPlan(groups, d, device, plan, acc) ==
  LET Alloc(a, g) ==
        IF plan[g] = 0 THEN a
        ELSE AddBlocks(a, d, device.base, g, groups[g].size, plan[g],
                       VramAllocGroup(plan[g], a.heap \div groups[g].size))
  IN  FoldLeft(Alloc, [acc EXCEPT !.heap = device.heap], [g \in DOMAIN groups |-> g])

\* The pools of the devices in order; a device is [budget, heap, base], its base
\* the alignment of its host mapping.
DeviceRegions(topo, devices) ==
  LET OnDevice(acc, d) ==
        AllocPlan(topo.groups, d, devices[d], PlanDeviceSlots(topo, devices[d].budget, acc.remaining), acc)
      all == [g \in DOMAIN topo.groups |-> NExperts(topo, g)]
  IN  FoldLeft(OnDevice, [heap |-> 0, remaining |-> all, regions |-> <<>>], [d \in DOMAIN devices |-> d]).regions

----------------------------------------------------------------------------
(* expert_scheduler::init *)

\* Mutant: the columns of the first slot only.
FillCols_OneSlot(topo, g, n) ==
  LET w == topo.groups[g].columns
  IN  [c \in DOMAIN w |-> [off |-> Before(w, c), stride |-> w[c]]]

\* Column c of a region of n slots starts after n times the columns before it.
FillCols(topo, g, n) ==
  LET w == topo.groups[g].columns
  IN  [c \in DOMAIN w |-> [off |-> n * Before(w, c), stride |-> w[c]]]

SumFloor(topo) == Total([g \in DOMAIN topo.groups |-> topo.n_expert * topo.groups[g].size])

\* A full layer of every group, and of the spare bytes a share by size.
RamSlots(topo, poolBytes, g) ==
  LET all   == Total([k \in DOMAIN topo.groups |-> GroupBytes(topo, k)])
      floor == topo.n_expert * topo.groups[g].size
      share == ((poolBytes - SumFloor(topo)) * GroupBytes(topo, g)) \div all
      n     == (floor + share) \div topo.groups[g].size
  IN  Least(Max({n, topo.n_expert}), NExperts(topo, g))

Region(topo, pool, g, n, area, base) ==
  [pool |-> pool, group |-> g, n |-> n, area |-> area, base |-> base, cols |-> FillCols(topo, g, n)]

\* init refuses a pool that cannot hold a full layer of every group.
PoolFits(topo, poolBytes) == topo.groups # <<>> /\ SumFloor(topo) <= poolBytes

\* The RAM regions lie one after the other in one allocation (area 0), each
\* device block is an area of its own.
PoolOf(topo, poolBytes, devices, ram, dev, staging) ==
  LET bytes == [g \in DOMAIN ram |-> ram[g] * topo.groups[g].size]
      regions == [g \in DOMAIN ram |-> Region(topo, 0, g, ram[g], 0, Before(bytes, g))]
                   \o [k \in DOMAIN dev |-> Region(topo, dev[k].pool, dev[k].group, dev[k].n, k, dev[k].base)]
  IN  [asked |-> [bytes |-> poolBytes, devices |-> devices],
       regions |-> Table(regions), commit |-> Total(bytes), staging |-> staging,
       ring |-> Max({RingFloor, topo.n_expert * (IF staging > 0 THEN 1 ELSE 2)})]

InitPool(topo, poolBytes, devices) ==
  PoolOf(topo, poolBytes, devices,
         Table([g \in DOMAIN topo.groups |-> RamSlots(topo, poolBytes, g)]),
         DeviceRegions(topo, devices),
         Max({StagingSize(topo.plan[x]) : x \in DOMAIN topo.plan}))

\* subpool_of_slot and group_of.  A slot is a region and a number in it; the
\* code numbers the slots of all regions through.
Slots(pool) == UNION {{<<r, i>> : i \in 0..(pool.regions[r].n - 1)} : r \in DOMAIN pool.regions}
GroupOf(topo, l) == CHOOSE g \in DOMAIN topo.groups : l \in ToSet(topo.groups[g].layers)

\* slot_col_mem: the address of a slot's part of a column.
ColAddr(pool, slot, c) ==
  LET r == pool.regions[slot[1]]
  IN  r.base + r.cols[c].off + slot[2] * r.cols[c].stride

\* The addresses of its area that a slot owns.
SlotAddrs(pool, slot) ==
  LET r == pool.regions[slot[1]]
  IN  UNION {LET a == ColAddr(pool, slot, c) IN a..(a + r.cols[c].stride - 1) : c \in DOMAIN r.cols}

=============================================================================
