----------------------------- MODULE FileLayout -----------------------------
(***************************************************************************)
(* What the converter and the loader share: loader/layout_math.h and the   *)
(* model description of loader/model.h.                                    *)
(*                                                                         *)
(* A tensor's name is a record of what sm_classify, sm_layer_of and        *)
(* sm_branch_of find in the string: the layer after "blk." (-1 without     *)
(* it), whether it holds "_exps" and ends in ".weight", its branch, and an *)
(* id that tells the tensors of a model apart.  A byte of a weight is      *)
(* Byte(id, i), the i-th of that tensor.                                   *)
(*                                                                         *)
(* A file is a record: the stream_moe.* keys, the tensor table, where its  *)
(* data area starts and the bytes of that area.  A model's files are a     *)
(* sequence, in the order of the numbers in their names.                   *)
(***************************************************************************)
EXTENDS Integers, Sequences, TLC, SequencesExt, FiniteSetsExt

CONSTANT Sector      \* DIO_SECTOR_SIZE and the converter's ALIGN

ASSUME SectorAssumption == Sector \in Nat \ {0}

AlignUp(n)   == ((n + Sector - 1) \div Sector) * Sector
AlignDown(n) == (n \div Sector) * Sector
Aligned(n)   == n % Sector = 0

\* The same function, each value worked out once.
Table(f) == f @@ <<>>
Total(s) == FoldLeft(+, 0, s)
Before(s, i) == Total(SubSeq(s, 1, i - 1))
Join(s)  == FoldLeft(\o, <<>>, s)

----------------------------------------------------------------------------
(* Tensors *)

BranchOrder == <<"gate_up", "gate", "up", "down">>
OrderOf(branch) == CHOOSE i \in DOMAIN BranchOrder : BranchOrder[i] = branch

\* DENSE_GLOBAL, DENSE_LAYER, EXPERT and EXPERT_META.
Category(name) ==
  CASE name.layer < 0 -> "C2"
    [] name.layer >= 0 /\ ~name.exps -> "C1"
    [] name.layer >= 0 /\ name.exps /\ name.weight -> "C3"
    [] OTHER -> "C4"

Byte(id, i) == 1000 * id + i
Meta == 0            \* a byte outside the data area
Zero == 1            \* written by do_fill
Hole == 2            \* never written

\* A source segment (src_seg_t): len bytes of a file, in_off bytes into the
\* tensor or the slice they belong to.
Seg(file, off, len, inOff) == [file |-> file, off |-> off, len |-> len, in_off |-> inOff]

ByteAt(file, o) ==
  LET k == o - file.data_off + 1
  IN  IF k \in DOMAIN file.data THEN file.data[k] ELSE Meta

\* What the segments of a tensor of n bytes hold, in the tensor's order.
ReadSegs(files, srcs, n) ==
  LET In(s, i) == s.in_off <= i /\ i < s.in_off + s.len
  IN  Table([i \in 0..(n - 1) |->
        IF \E k \in DOMAIN srcs : In(srcs[k], i)
        THEN LET s == srcs[CHOOSE k \in DOMAIN srcs : In(srcs[k], i)]
             IN  ByteAt(files[s.file], s.off + i - s.in_off)
        ELSE Hole])

----------------------------------------------------------------------------
(* sm_split_blocks: B blocks over N files, evenly or by largest remainder. *)
(* Quotients are exact here, doubles in the code; a ratio names N files    *)
(* and has a positive sum, otherwise the code throws.                      *)

SplitEvenly(B, N) == [i \in 1..N |-> B \div N + IF i <= B % N THEN 1 ELSE 0]

SplitByRatio(B, N, ratio) ==
  LET sum     == Total(ratio)
      frac(i) == (B * ratio[i]) % sum
      floor   == [i \in 1..N |-> (B * ratio[i]) \div sum]
      rank(i) == Cardinality({j \in 1..N : frac(j) > frac(i) \/ (frac(j) = frac(i) /\ j < i)})
  IN  [i \in 1..N |-> floor[i] + IF rank(i) < B - Total(floor) THEN 1 ELSE 0]

SplitBlocks(B, N, ratio) ==
  Table(IF ratio = <<>> THEN SplitEvenly(B, N) ELSE SplitByRatio(B, N, ratio))

=============================================================================
