------------------------------ MODULE MCModels ------------------------------
(* Models and memory for ExpertLoad and DenseLoad. *)
EXTENDS GgufWriter, ExpertPool

\* The alignment of an original file's data (32 in a real one), and its padding.
OrigAlign == 2
OrigUp(n) == ((n + OrigAlign - 1) \div OrigAlign) * OrigAlign

Name(id, l, exps, weight, b) == [id |-> id, layer |-> l, exps |-> exps, weight |-> weight, branch |-> b]
Global(id, size)     == [name |-> Name(id, -1, FALSE, TRUE, "?"), size |-> size]
Dense(id, l, size)   == [name |-> Name(id, l, FALSE, TRUE, "?"), size |-> size]
Scale(id, l, size)   == [name |-> Name(id, l, TRUE, FALSE, "?"), size |-> size]
Expert(id, l, b, per, n) == [name |-> Name(id, l, TRUE, TRUE, b), size |-> per * n]

\* A shard of an original model.
Shard(nLayer, nExpert, ts) ==
  LET off == [k \in DOMAIN ts |-> Before([j \in DOMAIN ts |-> OrigUp(ts[j].size)], k)]
      Data(k) == [i \in 1..OrigUp(ts[k].size) |->
                   IF i <= ts[k].size THEN Byte(ts[k].name.id, i - 1) ELSE Zero]
  IN  [kv |-> [n_layer |-> nLayer, n_expert |-> nExpert, layout |-> "original", chunk |-> <<>>,
               tensors |-> [k \in DOMAIN ts |-> [name |-> ts[k].name, size |-> ts[k].size, off |-> off[k]]]],
       data_off |-> OrigUp(HeaderLen),
       data |-> Table(Join([k \in DOMAIN ts |-> Data(k)]))]

\* Two layers with experts of different sizes, in one file.
TwoGroups ==
  << Shard(2, 2, << Global(1, 5), Dense(2, 0, 3), Expert(3, 0, "gate_up", 3, 2),
                    Scale(5, 0, 2), Dense(6, 1, 3), Expert(7, 1, "gate_up", 6, 2),
                    Expert(8, 1, "down", 4, 2), Global(9, 2) >>) >>

\* Two shards, the first layer without experts, three branches.
ThreeBranches ==
  << Shard(2, 2, << Dense(1, 1, 2), Expert(2, 1, "up", 4, 2), Dense(3, 0, 6) >>),
     Shard(2, 2, << Expert(4, 1, "down", 8, 2), Global(5, 3), Expert(6, 1, "gate", 4, 2) >>) >>

\* A draft model of one branch.
Draft == << Shard(1, 2, << Global(1, 3), Expert(2, 0, "gate_up", 3, 2) >>) >>

MCSources == <<TwoGroups, ThreeBranches, Draft>>
MCSourceOf(s) == IF s = "main" THEN {1, 2} ELSE {3}

MCFormats ==
  { [target |-> "V2"], [target |-> "V3"],
    [target |-> "V3_CHUNK", chunks |-> 2, ratio |-> <<>>],
    [target |-> "V3_CHUNK", chunks |-> 3, ratio |-> <<1, 2, 1>>] }

Device(budget, heap, base) == [budget |-> budget, heap |-> heap, base |-> base]

\* The least memory for the draft; for the other model some more, and two devices
\* the first of which falls short of its plan.
MCPools(t) ==
  {IF Len(t.groups) = 1 /\ Len(t.groups[1].columns) = 1 THEN [bytes |-> SumFloor(t), devices |-> <<>>]
   ELSE [bytes |-> SumFloor(t) + 5, devices |-> <<Device(24, 14, 0), Device(20, 20, 2)>>]}

=============================================================================
