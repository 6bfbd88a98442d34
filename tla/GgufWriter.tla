----------------------------- MODULE GgufWriter -----------------------------
(***************************************************************************)
(* The converter's write side, convert/writer.cpp: a parsed model becomes  *)
(* one file with expert blocks ("V2"), one with four sections ("V3"), or N *)
(* strip files among which every section is split ("V3_CHUNK").            *)
(***************************************************************************)
EXTENDS FileLayout

CONSTANT HeaderLen   \* length of a header, of any length in a real file

----------------------------------------------------------------------------
(* order_items and build_plan *)

\* Dense tensors: as in the source (V2), or global, by layer, expert meta.
OrderItems(model, target) ==
  LET Rank(d) == CASE Category(d.name) = "C2" -> 0
                   [] Category(d.name) = "C1" -> 1
                   [] OTHER -> 2
      Key(i)  == <<Rank(model.dense[i]), model.dense[i].layer, i>>
      Less(a, b) == \/ a[1] < b[1]
                    \/ a[1] = b[1] /\ a[2] < b[2]
                    \/ a[1] = b[1] /\ a[2] = b[2] /\ a[3] < b[3]
      keys    == [i \in DOMAIN model.dense |-> Key(i)]
      order   == IF target = "V2" THEN keys ELSE SortSeq(keys, Less)
  IN  [i \in DOMAIN order |-> model.dense[order[i][3]]] \o model.expert

\* Offset of the i-th of things laid one after the other, each padded.
PaddedOffset(sizes, i) == Before([j \in DOMAIN sizes |-> AlignUp(sizes[j])], i)

\* The offset of a branch in its layer's blocks; blocks of layers without
\* experts are empty.
LayerExperts(model, l) == SelectSeq(model.expert, LAMBDA t : t.layer = l)
\* Mutant: the branches of a block are not padded.
BranchOff_Packed(ex, k) == Before([j \in DOMAIN ex |-> ex[j].per], k)
BranchOff(ex, k) == PaddedOffset([j \in DOMAIN ex |-> ex[j].per], k)
BlockSize(ex)    == BranchOff(ex, Len(ex) + 1)

\* One block for each layer and expert, in that order.
Blocks(model, start) ==
  LET n == model.n_expert
      L(b) == (b - 1) \div n
      size == [b \in 1..(model.n_layer * n) |-> BlockSize(LayerExperts(model, L(b)))]
  IN  [b \in DOMAIN size |->
        [layer |-> L(b), expert |-> (b - 1) % n, off |-> start + Before(size, b), size |-> size[b],
         nsub |-> Len(LayerExperts(model, L(b)))]]

\* The span of the dense tensors of one category and layer: none or one.
Sections(items, off, cat, layer) ==
  LET S == {i \in DOMAIN items : Category(items[i].name) = cat /\ items[i].layer = layer}
      first == Min({off[i] : i \in S})
      last  == Max({off[i] + items[i].size : i \in S})
  IN  IF S = {} THEN <<>> ELSE <<[layer |-> layer, off |-> first, size |-> AlignUp(last) - first]>>

PaddedOffsets(items) ==
  Table([i \in DOMAIN items |-> PaddedOffset([j \in DOMAIN items |-> items[j].size], i)])

\* The items and where each goes, the blocks after the dense ones.
Plan(model, target, items, off) ==
  LET dense == {i \in DOMAIN items : Category(items[i].name) # "C3"}
      start == AlignUp(Max({off[i] + items[i].size : i \in dense} \cup {0}))
      perLayer(cat) == Join([l \in 1..model.n_layer |-> Sections(items, off, cat, l - 1)])
  IN  [items  |-> items, off |-> off,
       blocks |-> Table(Blocks(model, start)),
       global |-> IF target = "V2" THEN <<[layer |-> -1, off |-> 0, size |-> start]>>
                                   ELSE Sections(items, off, "C2", -1),
       c1     |-> IF target = "V2" THEN <<>> ELSE perLayer("C1"),
       c4     |-> IF target = "V2" THEN <<>> ELSE perLayer("C4")]

PlanOf(model, target, items) == Plan(model, target, items, PaddedOffsets(items))
BuildPlan(model, target) == PlanOf(model, target, OrderItems(model, target))

----------------------------------------------------------------------------
(* make_header.  The keys of the source are copied but for those of        *)
(* "split.", "stream_moe." and the alignment, which are set anew.          *)

\* gguf_add_tensor lays the data of the tensors out one after the other.
GgufOffsets(items) == PaddedOffsets(items)

MakeHeader(model, p, target, chunk) ==
  LET layers == [l \in 1..model.n_layer |-> LayerExperts(model, l - 1)]
      off    == GgufOffsets(p.items)
  IN  [n_layer |-> model.n_layer, n_expert |-> model.n_expert,
       layout  |-> IF target = "V2" THEN "expert-blocks-v2" ELSE "v3",
       global  |-> p.global, c1 |-> p.c1, c4 |-> p.c4,
       blocks  |-> [b \in DOMAIN p.blocks |-> [off |-> p.blocks[b].off, size |-> p.blocks[b].size]],
       names   |-> Join([l \in DOMAIN layers |-> [k \in DOMAIN layers[l] |-> layers[l][k].name]]),
       sizes   |-> Join([l \in DOMAIN layers |-> [k \in DOMAIN layers[l] |-> layers[l][k].per]]),
       counts  |-> [l \in DOMAIN layers |-> Len(layers[l])],
       align   |-> TRUE, chunk |-> chunk,
       tensors |-> [i \in DOMAIN p.items |->
                      [name |-> p.items[i].name, size |-> p.items[i].size, off |-> off[i]]]]

----------------------------------------------------------------------------
(* do_copy and do_fill: an op writes bytes at an offset of the data area;  *)
(* what no op writes is a hole.                                            *)

CopyOp(files, file, off, len, dst) ==
  [dst |-> dst, bytes |-> [i \in 1..len |-> ByteAt(files[file], off + i - 1)]]
FillOp(dst, len) == [dst |-> dst, bytes |-> [i \in 1..len |-> Zero]]

Written(ops) ==
  LET end == Max({ops[k].dst + Len(ops[k].bytes) : k \in DOMAIN ops} \cup {0})
      Covers(k, o) == ops[k].dst < o /\ o <= ops[k].dst + Len(ops[k].bytes)
      Hits(o) == {k \in DOMAIN ops : Covers(k, o)}
  IN  Table([o \in 1..end |->
        IF Hits(o) = {} THEN Hole ELSE LET k == Max(Hits(o)) IN ops[k].bytes[o - ops[k].dst]])

GgufFile(header, ops) ==
  [kv |-> header, data_off |-> AlignUp(HeaderLen), data |-> Written(ops)]

----------------------------------------------------------------------------
(* write_single: dense tensors, then every block; then the padding of the  *)
(* blocks, between their branches and at their ends.                       *)

\* An item of a unit's or a block's content.
Content(logOff, len, srcs) == [off |-> logOff, len |-> len, srcs |-> srcs]
BlockContent(model, b) ==
  LET ex == LayerExperts(model, b.layer)
  IN  [k \in DOMAIN ex |-> Content(BranchOff(ex, k), ex[k].per, ex[k].srcs[b.expert])]

CopyAll(files, srcs, dst) ==
  [k \in DOMAIN srcs |-> CopyOp(files, srcs[k].file, srcs[k].off, srcs[k].len, dst + srcs[k].in_off)]

\* Mutant: what is after the last branch stays unwritten.
BlockPads_NoTail(content, size, base) ==
  LET end(k) == IF k = 0 THEN 0 ELSE content[k].off + content[k].len
      next(k) == IF k = Len(content) THEN size ELSE content[k + 1].off
      gaps == SelectSeq([k \in 1..Len(content) |-> k - 1], LAMBDA k : end(k) < next(k))
  IN  [g \in DOMAIN gaps |-> FillOp(base + end(gaps[g]), next(gaps[g]) - end(gaps[g]))]

\* The gaps that the content of a block of this size leaves, as fills.
BlockPads(content, size, base) ==
  LET end(k) == IF k = 0 THEN 0 ELSE content[k].off + content[k].len
      next(k) == IF k = Len(content) THEN size ELSE content[k + 1].off
      gaps == SelectSeq([k \in 1..(Len(content) + 1) |-> k - 1], LAMBDA k : end(k) < next(k))
  IN  [g \in DOMAIN gaps |-> FillOp(base + end(gaps[g]), next(gaps[g]) - end(gaps[g]))]

WriteSingle(model, files, target, p) ==
  LET dense  == SelectSeq([i \in DOMAIN p.items |-> i], LAMBDA i : Category(p.items[i].name) # "C3")
      OfBlock(b) ==
        LET c == BlockContent(model, b)
        IN  Join([k \in DOMAIN c |-> CopyAll(files, c[k].srcs, b.off + c[k].off)])
      copies == Join([k \in DOMAIN dense |-> CopyAll(files, p.items[dense[k]].srcs, p.off[dense[k]])])
                  \o Join([b \in DOMAIN p.blocks |-> OfBlock(p.blocks[b])])
      fills  == Join([b \in DOMAIN p.blocks |->
                  BlockPads(BlockContent(model, p.blocks[b]), p.blocks[b].size, p.blocks[b].off)])
  IN  << GgufFile(MakeHeader(model, p, target, <<>>), copies \o fills) >>

----------------------------------------------------------------------------
(* write_v3_chunk.  A unit is a section or a block: its size and content.  *)

Unit(size, content) == [size |-> size, content |-> content]

\* The global section is read without a test that there is one.
BuildUnits(model, p) ==
  LET InSection(s, cat) ==
        LET S == SelectSeq([i \in DOMAIN p.items |-> i], LAMBDA i :
                   Category(p.items[i].name) = cat /\ p.items[i].layer = s.layer)
        IN  Unit(s.size, [k \in DOMAIN S |->
              Content(p.off[S[k]] - s.off, p.items[S[k]].size, p.items[S[k]].srcs)])
  IN  << InSection(p.global[1], "C2") >>
        \o [k \in DOMAIN p.c1 |-> InSection(p.c1[k], "C1")]
        \o [k \in DOMAIN p.c4 |-> InSection(p.c4[k], "C4")]
        \o [b \in DOMAIN p.blocks |-> Unit(p.blocks[b].size, BlockContent(model, p.blocks[b]))]

\* content_to_ops: bytes [start, start+len) of a unit, copied to dst.
ContentToOps(files, content, start, len, dst) ==
  LET Part(c, s) ==
        LET from == Max({start, c.off + s.in_off})
            to   == Min({start + len, c.off + s.in_off + s.len, c.off + c.len})
        IN  IF from >= to THEN <<>>
            ELSE << CopyOp(files, s.file, s.off + (from - c.off - s.in_off), to - from,
                           dst + from - start) >>
  IN  Join([k \in DOMAIN content |->
        Join([j \in DOMAIN content[k].srcs |-> Part(content[k], content[k].srcs[j])])])

\* What the copies leave of a strip, filled byte by byte.
StripFills(ops, base, len) ==
  LET Covered(o) == \E k \in DOMAIN ops : ops[k].dst <= o /\ o < ops[k].dst + Len(ops[k].bytes)
      open == SelectSeq([i \in 1..len |-> base + i - 1], LAMBDA o : ~Covered(o))
  IN  [k \in DOMAIN open |-> FillOp(open[k], 1)]

\* The blocks of each unit that go to each of the N files.
UnitSplit(units, N, ratio) ==
  Table([u \in DOMAIN units |-> SplitBlocks(units[u].size \div Sector, N, ratio)])

WriteStrips(model, files, N, p, units, split) ==
  LET slices(i) == [u \in DOMAIN units |-> split[u][i]]
      Strip(i, u) ==
        LET base == Before(slices(i), u) * Sector
            len  == split[u][i] * Sector
            ops  == ContentToOps(files, units[u].content, Before(split[u], i) * Sector, len, base)
        IN  [copies |-> ops, fills |-> StripFills(ops, base, len)]
      Ops(strips) == Join([u \in DOMAIN units |-> strips[u].copies])
                       \o Join([u \in DOMAIN units |-> strips[u].fills])
  IN  Table([i \in 1..N |->
        GgufFile(MakeHeader(model, p, "V3_CHUNK",
                            <<[no |-> i - 1, total |-> N, slices |-> slices(i)]>>),
                 Ops(Table([u \in DOMAIN units |-> Strip(i, u)])))])

SplitUnits(model, files, N, ratio, p, units) ==
  WriteStrips(model, files, N, p, units, UnitSplit(units, N, ratio))
WriteV3Chunk(model, files, N, ratio, p) == SplitUnits(model, files, N, ratio, p, BuildUnits(model, p))

\* convert_model.
Write(model, files, opts, p) ==
  IF opts.target = "V3_CHUNK" THEN WriteV3Chunk(model, files, opts.chunks, opts.ratio, p)
                              ELSE WriteSingle(model, files, opts.target, p)
ConvertModel(model, files, opts) == Write(model, files, opts, BuildPlan(model, opts.target))

=============================================================================
