---------------------------- MODULE ModelBuilder ----------------------------
(***************************************************************************)
(* The loader's read side, loader/model_builder.cpp: parse_model gives, of *)
(* any layout, the segments that hold each dense tensor and each expert's  *)
(* slice of each branch.  What it does for strips of the older block       *)
(* layout is left out: nothing in the repository writes them.              *)
(***************************************************************************)
EXTENDS FileLayout

----------------------------------------------------------------------------
(* Which files.  A shard names the whole set; a strip carries its place in *)
(* the set, which anchors the numbers of the others.                       *)

DiscoverChunkFiles(files, main) ==
  LET chunk == files[main].kv.chunk[1]
      start == main - chunk.no
  IN  [i \in 1..chunk.total |-> start + i - 1]

ModelFiles(files, main) ==
  CASE files[main].kv.layout = "original" -> [i \in DOMAIN files |-> i]
    [] files[main].kv.chunk # <<>>        -> DiscoverChunkFiles(files, main)
    [] OTHER                              -> <<main>>

----------------------------------------------------------------------------
(* build_layer_branches: the branches of a layer, from the flat tables.    *)

LayerBranches(kv, l) ==
  LET first == Before(kv.counts, l + 1)
      own   == [k \in 1..kv.counts[l + 1] |-> first + k]
      width(k) == IF kv.align THEN AlignUp(kv.sizes[own[k]]) ELSE kv.sizes[own[k]]
  IN  [k \in DOMAIN own |->
        [tag |-> kv.names[own[k]].branch, off |-> Before([j \in DOMAIN own |-> width(j)], k)]]

\* The first branch of the layer with the tag, at 0 when there is none.
FirstWith(branches, tag) ==
  LET S == {k \in DOMAIN branches : branches[k].tag = tag}
  IN  IF S = {} THEN 0 ELSE branches[Min(S)].off
BranchOffset(kv, layer, tag) == FirstWith(LayerBranches(kv, layer), tag)

----------------------------------------------------------------------------
(* v3_units_t: the sections and blocks in the order of the writer, from 1. *)

C1Unit(kv, i)    == 1 + i
C4Unit(kv, i)    == 1 + Len(kv.c1) + i
BlockUnit(kv, b) == 1 + Len(kv.c1) + Len(kv.c4) + b

\* strip_range_to_segs: bytes [rel, rel+len) of a unit, as one segment in each
\* strip i that holds some of it; the strip has the unit's [from, to).
StripSeg(opened, unit, rel, len, i, from, to) ==
  LET lo == Max({rel, from})
      hi == Min({rel + len, to})
      at == opened[i].data_off + Before(opened[i].kv.chunk[1].slices, unit) * Sector
  IN  IF lo < hi THEN << Seg(i, at + lo - from, hi - lo, lo - rel) >> ELSE <<>>

StripRangeToSegs(opened, unit, rel, len) ==
  LET cum(i) == Before([j \in DOMAIN opened |-> opened[j].kv.chunk[1].slices[unit]], i)
  IN  Join([i \in DOMAIN opened |->
        StripSeg(opened, unit, rel, len, i, cum(i) * Sector, cum(i + 1) * Sector)])

FindSection(secs, layer) == Min({k \in DOMAIN secs : secs[k].layer = layer})

----------------------------------------------------------------------------
(* Where the bytes of a tensor are.                                        *)

\* A dense tensor of a file with blocks: contiguous, or over the strips of the
\* section it is in.
DenseSrcs(opened, t) ==
  LET kv  == opened[1].kv
      cat == Category(t.name)
      InSection(unit, base) == StripRangeToSegs(opened, unit, t.off - base, t.size)
  IN  CASE kv.chunk = <<>> -> << Seg(1, opened[1].data_off + t.off, t.size, 0) >>
        [] kv.chunk # <<>> /\ cat = "C2" -> InSection(1, kv.global[1].off)
        [] kv.chunk # <<>> /\ cat = "C1" ->
             LET k == FindSection(kv.c1, t.name.layer) IN InSection(C1Unit(kv, k), kv.c1[k].off)
        [] OTHER ->
             LET k == FindSection(kv.c4, t.name.layer) IN InSection(C4Unit(kv, k), kv.c4[k].off)

\* The slice of expert e: in the block of its layer and expert.
ExpertSrcs(opened, t, per, e) ==
  LET kv  == opened[1].kv
      off == BranchOffset(kv, t.name.layer, t.name.branch)
      b   == t.name.layer * kv.n_expert + e + 1
  IN  IF kv.chunk = <<>> THEN << Seg(1, opened[1].data_off + kv.blocks[b].off + off, per, 0) >>
                         ELSE StripRangeToSegs(opened, BlockUnit(kv, b), off, per)

\* The original layout: contiguous in the tensor's shard.
PlainSrcs(opened, s, t, from, len) == << Seg(s, opened[s].data_off + t.off + from, len, 0) >>

----------------------------------------------------------------------------
(* parse_model.  A segment's file is an index into model.files.            *)

DenseTensor(t, srcs) ==
  [name |-> t.name, size |-> t.size, srcs |-> srcs,
   layer |-> IF Category(t.name) = "C2" THEN -1 ELSE t.name.layer]

ExpertTensor(t, n, srcs) ==
  [name |-> t.name, size |-> t.size, per |-> t.size \div n, layer |-> t.name.layer, srcs |-> srcs]

SortExperts(ts) ==
  SortSeq(ts, LAMBDA a, b : \/ a.layer < b.layer
                            \/ a.layer = b.layer /\ OrderOf(a.name.branch) < OrderOf(b.name.branch))

ParseModel(files, main) ==
  LET paths  == ModelFiles(files, main)
      opened == Table([i \in DOMAIN paths |-> files[paths[i]]])
      kv     == files[main].kv
      plain  == kv.layout = "original"
      shards == IF plain THEN [i \in DOMAIN opened |-> i] ELSE <<1>>
      Of(s)  == [k \in DOMAIN opened[s].kv.tensors |-> [shard |-> s, t |-> opened[s].kv.tensors[k]]]
      all    == Join([i \in DOMAIN shards |-> Of(shards[i])])
      Dense(x) == DenseTensor(x.t, IF plain THEN PlainSrcs(opened, x.shard, x.t, 0, x.t.size)
                                            ELSE DenseSrcs(opened, x.t))
      Slice(x, per, e) == IF plain THEN PlainSrcs(opened, x.shard, x.t, e * per, per)
                                   ELSE ExpertSrcs(opened, x.t, per, e)
      Expert(x) == ExpertTensor(x.t, kv.n_expert,
                     Table([e \in 0..(kv.n_expert - 1) |-> Slice(x, x.t.size \div kv.n_expert, e)]))
      dense  == SelectSeq(all, LAMBDA x : Category(x.t.name) # "C3")
      expert == SelectSeq(all, LAMBDA x : Category(x.t.name) = "C3")
  IN  [n_layer |-> kv.n_layer, n_expert |-> kv.n_expert, files |-> paths,
       dense   |-> Table([k \in DOMAIN dense |-> Dense(dense[k])]),
       expert  |-> Table(SortExperts([k \in DOMAIN expert |-> Expert(expert[k])]))]

=============================================================================
