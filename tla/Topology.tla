------------------------------ MODULE Topology ------------------------------
(***************************************************************************)
(* From the parsed model to what the scheduler works with: the read plan   *)
(* of every expert (io/staging_reader.cpp) and the groups of layers whose  *)
(* experts share slots (loader/topo_builder.cpp).  Tensor types are left   *)
(* out: a branch's size stands for them.                                   *)
(***************************************************************************)
EXTENDS FileLayout

CONSTANT MaxSubTensors   \* MAX_SUB_TENSORS_PER_EXPERT

ASSUME PlanAssumption == MaxSubTensors \in Nat

----------------------------------------------------------------------------
(* build_expert_read_plan: for each piece the aligned window around it,    *)
(* its place in the staging buffer, and whether it may go straight to its  *)
(* column.  Too many pieces, or none, make an empty plan.                  *)

\* A piece is [file, off, len, column, col_off].
\* Mutant: the window is as long as the piece.
Window_Short(r) == [start |-> AlignDown(r.off), len |-> AlignUp(r.len)]
Window(r) == [start |-> AlignDown(r.off), len |-> AlignUp(r.off + r.len) - AlignDown(r.off)]
\* Mutant: only where the piece starts is tested.
IsDirect_Start(r) == Aligned(r.off)
IsDirect(r) == Aligned(r.off) /\ Aligned(r.len)

\* cur_staging_offset at each piece.
StagedAt(reqs) ==
  LET at[i \in DOMAIN reqs] == IF i = 1 THEN 0 ELSE at[i - 1] + AlignUp(Window(reqs[i - 1]).len)
  IN  at

ReadPlan(reqs) ==
  LET Slice(i) ==
        LET r == reqs[i]
            w == Window(r)
            at == StagedAt(reqs)[i]
        IN  [file |-> r.file, start |-> w.start, len |-> w.len, column |-> r.column,
             direct |-> IsDirect(r), staging |-> at, src |-> at + r.off - w.start,
             dst |-> r.col_off, bytes |-> r.len]
  IN  IF Len(reqs) \in 1..MaxSubTensors THEN [i \in 1..Len(reqs) |-> Slice(i)] ELSE <<>>

StagingSize(plan) == Total([i \in DOMAIN plan |-> AlignUp(plan[i].len)])

----------------------------------------------------------------------------
(* build_topology *)

BranchesOf(model, l) == SelectSeq(model.expert, LAMBDA t : t.layer = l)
ExpertSize(bs) == Total([k \in DOMAIN bs |-> bs[k].per])
MoeLayers(model) == SelectSeq([i \in 1..model.n_layer |-> i - 1], LAMBDA l : BranchesOf(model, l) # <<>>)

\* The pieces of an expert: column k holds the k-th branch of its layer, the
\* segments of the branch one after the other.
ExpertReqs(bs, e) ==
  LET Piece(k, j) ==
        LET srcs == bs[k].srcs[e]
        IN  [file |-> srcs[j].file, off |-> srcs[j].off, len |-> srcs[j].len, column |-> k,
             col_off |-> Before([i \in DOMAIN srcs |-> srcs[i].len], j)]
  IN  Join([k \in DOMAIN bs |-> [j \in DOMAIN bs[k].srcs[e] |-> Piece(k, j)]])

\* Layers with experts of the same size, in the order such a size first comes.
Groups(model) ==
  LET Size(l) == ExpertSize(BranchesOf(model, l))
      moe == MoeLayers(model)
      firsts == SelectSeq([i \in DOMAIN moe |-> i], LAMBDA i : \A j \in 1..(i - 1) : Size(moe[j]) # Size(moe[i]))
      Group(i) == [size |-> Size(moe[i]),
                   layers |-> SelectSeq(moe, LAMBDA l : Size(l) = Size(moe[i])),
                   \* one column per branch of the group's first layer
                   columns |-> LET bs == BranchesOf(model, moe[i]) IN [k \in DOMAIN bs |-> bs[k].per]]
  IN  [g \in DOMAIN firsts |-> Group(firsts[g])]

BuildTopology(model) ==
  LET moe == MoeLayers(model)
  IN  [n_expert |-> model.n_expert, files |-> model.files,
       groups |-> Table(Groups(model)),
       plan |-> [x \in {<<l, e>> : l \in ToSet(moe), e \in 0..(model.n_expert - 1)} |->
                  ReadPlan(ExpertReqs(BranchesOf(model, x[1]), x[2]))]]

=============================================================================
