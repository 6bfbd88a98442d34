------------------------- MODULE LayerPipelineProofs -------------------------
(***************************************************************************)
(* No transfer between devices is forgotten, whatever the graphs, as long  *)
(* as their nodes are placed as --dense-placement places them (Placed).    *)
(*                                                                         *)
(* The argument follows a call from job to job.  A copy that is due in the *)
(* current job is either done or still ahead of it (Ahead): one of the     *)
(* segments to come runs on its device, and the device of its source has   *)
(* not been flushed in this job.  A segment takes the copies for its       *)
(* device before it runs and those from its device after it has run, so    *)
(* nothing due is left when the job ends, and the layers whose turn is     *)
(* over have all their copies (Settled).                                   *)
(***************************************************************************)
EXTENDS LayerPipeline, Induction

\* The copies of the layers before L are made, and those of L up to its closure.
Ran(L)    == \A r \in relays : r.layer < L => r \in executed
Headed(L) == \A r \in relays : r.layer = L /\ r.stage = "FRONT" => r \in executed
Tailed(L) == \A r \in relays : r.layer = L /\ r.stage = "TAIL" => r \in executed

\* The copies the current job must make.
Due(r) ==
  IF Fused THEN \/ r.layer = job.tail /\ r.stage = "TAIL"
                \/ r.layer = job.head /\ r.stage = "FRONT"
  ELSE r.layer = job.tail /\ (r.stage = "TAIL" <=> job.stage = "tail")

Ahead(r) ==
  /\ \E i \in pos..Len(job.list) : g[job.list[i]].dev = r.dev
  /\ DevOf(g, r.src) \notin flushed

HeadJob ==
  /\ job.stage = "head" /\ job.tail = layer /\ job.head = 0
  /\ job.list = lay.head[layer]
  /\ Ran(layer)
PairJob ==
  /\ job.stage = "tail_head" /\ job.tail = layer - 1 /\ job.head = layer
  /\ layer - 1 \in 1..NLayers(g)
  /\ job.list = lay.tail[layer - 1] \o lay.head[layer]
  /\ job.tailLen = Len(lay.tail[layer - 1])
  /\ pos = 1 /\ flushed = {}
  /\ Ran(layer - 1) /\ Headed(layer - 1)
TailJob ==
  /\ job.stage = "tail" /\ job.tail = layer /\ job.head = 0
  /\ job.list = lay.tail[layer]
  /\ layer = NLayers(g)
  /\ Ran(layer) /\ Headed(layer)

InJob ==
  /\ HeadJob \/ PairJob \/ TailJob
  /\ pos \in 1..Len(job.list)
  /\ \A r \in relays \ executed :
       Due(r) => Ahead(r) /\ (pc # "incoming" => r.dev # SegDev)

Jobs == {"incoming", "flush", "boundary"}

Settled ==
  /\ pc = "unbuilt" => executed = {}
  /\ pc # "unbuilt" => g \in Graphs /\ lay = LayoutOf(g) /\ executed \subseteq relays
  /\ pc \in Jobs \cup {"closure"} => layer \in 1..NLayers(g)
  /\ pc \in Jobs => InJob
  /\ pc = "closure" => Ran(layer) /\ Headed(layer)
  /\ pc = "return" => relays \subseteq executed

-----------------------------------------------------------------------------
\* A set of numbers with a bound has a greatest member, which Max gives.
LEMMA MaxFacts ==
  ASSUME NEW b \in Nat, NEW S, S \subseteq 0..b, S # {}
  PROVE  Max(S) \in S /\ \A y \in S : y <= Max(S)
<1> DEFINE T == {b - x : x \in S}
<1>1. T \subseteq Nat /\ T # {}
  <2>1. PICK y \in S : TRUE
    OBVIOUS
  <2>2. b - y \in T
    BY <2>1
  <2>3. \A x \in S : x \in Nat /\ x <= b
    OBVIOUS
  <2>4. \A x \in S : b - x \in Nat
    BY <2>3
  <2> QED
    BY <2>2, <2>4
<1> HIDE DEF T
<1>2. PICK t \in T : \A u \in T : t <= u
  BY <1>1, LeastMember
<1>3. PICK x \in S : t = b - x
  BY <1>2 DEF T
<1>4. \A y \in S : x >= y
  <2> SUFFICES ASSUME NEW y \in S PROVE x >= y
    OBVIOUS
  <2>1. b - y \in T
    BY DEF T
  <2>2. b - x <= b - y
    BY <1>2, <1>3, <2>1
  <2> QED
    BY <2>2
<1>5. Max(S) \in S /\ \A y \in S : Max(S) >= y
  BY <1>4 DEF Max
<1> QED
  BY <1>5

\* What the layout says of the split and of the transfers of a graph.
LEMMA LayFacts ==
  ASSUME NEW x
  PROVE  /\ DOMAIN LayoutOf(x).shell = Relays(x)
         /\ LayoutOf(x).head = [L \in 1..NLayers(x) |-> DenseHead(x, L)]
         /\ LayoutOf(x).tail = [L \in 1..NLayers(x) |-> DenseTail(x, L)]
  BY DEF LayoutOf

\* A transfer is between two devices, in one of two stages.
LEMMA RelayFacts ==
  ASSUME NEW x, NEW r \in Relays(x)
  PROVE  r.stage \in {"TAIL", "FRONT"} /\ DevOf(x, r.src) # r.dev
<1>1. PICK n \in Nodes(x) : r \in {Relay(x, n, s) : s \in {t \in x[n].src : Crosses(x, n, t)}}
  BY DEF Relays
<1>2. PICK s \in x[n].src : Crosses(x, n, s) /\ r = Relay(x, n, s)
  BY <1>1
<1>3. r.src = s /\ r.dev = x[n].dev /\ r.stage \in {"TAIL", "FRONT"}
  BY <1>2 DEF Relay
<1> QED
  BY <1>2, <1>3 DEF Crosses

-----------------------------------------------------------------------------
\* What the graph of a state is, given what every graph is.
Shaped == \A x \in Graphs : Placed(x) /\ Split(x)

\* The lists of the layers, and where their transfers are due.
Listed ==
  /\ NLayers(g) \in Nat \ {0}
  /\ \A L \in 1..NLayers(g) : lay.tail[L] \in Seq(Nat \ {0}) /\ lay.head[L] \in Seq(Nat \ {0})
  /\ \A r \in relays :
       /\ r.stage \in {"TAIL", "FRONT"} /\ DevOf(g, r.src) # r.dev
       /\ r.layer \in 1..NLayers(g)
       /\ r.stage = "TAIL" =>
            \E n \in ToSet(lay.tail[r.layer]) : ~IsView(g, n) /\ g[n].dev = r.dev
       /\ r.stage = "FRONT" =>
            \E n \in ToSet(lay.head[r.layer]) : ~IsView(g, n) /\ g[n].dev = r.dev
  /\ \A L \in 1..(NLayers(g) - 1) :
       \A n, m \in ToSet(lay.tail[L] \o lay.head[L + 1]) : g[n].dev = g[m].dev

\* A built layout has them.
LEMMA ListFacts ==
  ASSUME Shaped, g \in Graphs, lay = LayoutOf(g) PROVE Listed
<1>1. /\ relays = Relays(g)
      /\ \A L \in 1..NLayers(g) : lay.head[L] = DenseHead(g, L) /\ lay.tail[L] = DenseTail(g, L)
  <2>1. DOMAIN lay.shell = Relays(g)
    BY LayFacts
  <2>2. lay.head = [L \in 1..NLayers(g) |-> DenseHead(g, L)]
    BY LayFacts
  <2>3. lay.tail = [L \in 1..NLayers(g) |-> DenseTail(g, L)]
    BY LayFacts
  <2> QED
    BY <2>1, <2>2, <2>3 DEF relays
<1>2. Placed(g) /\ Split(g)
  BY DEF Shaped
<1>3. /\ NLayers(g) \in Nat \ {0}
      /\ \A L \in 1..NLayers(g) : lay.tail[L] \in Seq(Nat \ {0}) /\ lay.head[L] \in Seq(Nat \ {0})
  BY <1>1, <1>2 DEF Split
<1>4. ASSUME NEW r \in relays
      PROVE  /\ r.stage \in {"TAIL", "FRONT"} /\ DevOf(g, r.src) # r.dev
             /\ r.layer \in 1..NLayers(g)
             /\ r.stage = "TAIL" =>
                  \E n \in ToSet(lay.tail[r.layer]) : ~IsView(g, n) /\ g[n].dev = r.dev
             /\ r.stage = "FRONT" =>
                  \E n \in ToSet(lay.head[r.layer]) : ~IsView(g, n) /\ g[n].dev = r.dev
  <2>1. /\ r.layer \in 1..NLayers(g)
        /\ \E n \in ToSet(StageList(g, r.stage, r.layer)) : ~IsView(g, n) /\ g[n].dev = r.dev
    BY <1>1, <1>2 DEF Placed
  <2> QED
    BY <1>1, <2>1, RelayFacts DEF StageList
<1>5. ASSUME NEW L \in 1..(NLayers(g) - 1)
      PROVE  \A n, m \in ToSet(lay.tail[L] \o lay.head[L + 1]) : g[n].dev = g[m].dev
  <2>1. lay.tail[L] = DenseTail(g, L) /\ lay.head[L + 1] = DenseHead(g, L + 1)
    BY <1>1, <1>3
  <2> QED
    BY <1>2, <2>1 DEF Placed
<1> QED
  BY <1>3, <1>4, <1>5 DEF Listed

\* A segment runs from its start to the last node of the list on its device in a row.
LEMMA SegmentFacts ==
  ASSUME job.list \in Seq(Nat \ {0}), pos \in 1..Len(job.list)
  PROVE  /\ SegEnd \in pos..Len(job.list)
         /\ \A k \in pos..SegEnd : g[job.list[k]].dev = SegDev
         /\ (\A k \in pos..Len(job.list) : g[job.list[k]].dev = SegDev) => SegEnd = Len(job.list)
<1> DEFINE S == {i \in pos..Len(job.list) :
                   \A k \in pos..i : g[job.list[k]].dev = g[job.list[pos]].dev}
           b == Len(job.list)
<1>1. b \in Nat /\ pos \in Nat
  OBVIOUS
<1>2. pos \in S
  <2>1. \A k \in pos..pos : k = pos
    BY <1>1
  <2> QED
    BY <2>1
<1>3. S \subseteq 0..b /\ S # {}
  BY <1>1, <1>2
<1>4. SegEnd = Max(S) /\ SegDev = g[job.list[pos]].dev
  BY DEF SegEnd, SegDev
<1>5. (\A k \in pos..b : g[job.list[k]].dev = g[job.list[pos]].dev) => b \in S
  BY <1>1
<1>6. \A i \in S : i \in pos..b /\ \A k \in pos..i : g[job.list[k]].dev = g[job.list[pos]].dev
  OBVIOUS
<1> HIDE DEF S, b
<1>7. Max(S) \in S /\ \A y \in S : y <= Max(S)
  BY <1>1, <1>3, MaxFacts
<1>8. SegEnd \in pos..b /\ \A k \in pos..SegEnd : g[job.list[k]].dev = SegDev
  BY <1>4, <1>6, <1>7
<1>9. b \in S => SegEnd = b
  BY <1>1, <1>4, <1>7, <1>8
<1> QED
  BY <1>4, <1>5, <1>8, <1>9 DEF b

-----------------------------------------------------------------------------
(* The jobs begin.                                                         *)

\* A head job: whatever is due is read by a node of the list.
LEMMA HeadBegins ==
  ASSUME Listed, UNCHANGED <<g, lay>>, NEW L \in 1..NLayers(g), layer' = L,
         BeginHead(L), \A r \in relays : r.layer < L => r \in executed'
  PROVE  /\ pc' \in {"incoming", "closure"}
         /\ pc' = "incoming" => InJob'
         /\ pc' = "closure" => Ran(layer)' /\ Headed(layer)'
<1> DEFINE list == lay.head[L]
<1>1. /\ list \in Seq(Nat \ {0}) /\ relays' = relays
      /\ \A r \in relays : r.layer = L /\ r.stage = "FRONT" => \E n \in ToSet(list) : g[n].dev = r.dev
      /\ \A r \in relays : r.stage \in {"TAIL", "FRONT"}
  BY DEF Listed, relays
<1>2. /\ job' = [stage |-> "head", list |-> list, tail |-> L, head |-> 0, tailLen |-> 0]
      /\ pos' = 1 /\ flushed' = {}
      /\ pc' = IF list # <<>> THEN "incoming" ELSE "closure"
  BY DEF BeginHead, Begin
<1>3. job'.stage = "head" /\ job'.list = lay'.head[layer'] /\ job'.tail = L /\ job'.head = 0
  BY <1>2
<1>4. \A r \in relays' : r.layer < layer' => r \in executed'
  BY <1>1
<1>5. CASE list = <<>>
  <2>1. pc' = "closure"
    BY <1>2, <1>5
  <2>2. \A r \in relays : ~(r.layer = L /\ r.stage = "FRONT")
    BY <1>1, <1>5 DEF ToSet
  <2> QED
    BY <1>1, <1>4, <2>1, <2>2 DEF Ran, Headed
<1>6. CASE list # <<>>
  <2>1. pc' = "incoming" /\ pos' \in 1..Len(job'.list)
    BY <1>1, <1>2, <1>6
  <2>2. HeadJob'
    BY <1>3, <1>4 DEF HeadJob, Ran
  <2>3. ASSUME NEW r \in relays' \ executed', Due(r)' PROVE Ahead(r)'
    <3>1. r.layer = L /\ r.stage = "FRONT"
      BY <1>1, <1>3, <2>3 DEF Due, Fused
    <3>2. PICK n \in ToSet(list) : g[n].dev = r.dev
      BY <1>1, <3>1
    <3>3. PICK i \in 1..Len(list) : list[i] = n
      BY <1>1, <3>2 DEF ToSet
    <3> QED
      BY <1>2, <1>3, <3>2, <3>3 DEF Ahead
  <2> QED
    BY <2>1, <2>2, <2>3 DEF InJob
<1> QED
  BY <1>5, <1>6

\* The last tail.
LEMMA TailBegins ==
  ASSUME Listed, UNCHANGED <<g, lay>>, layer' = NLayers(g),
         Begin("tail", lay.tail[NLayers(g)], NLayers(g), 0, 0),
         \A r \in relays : r.layer < NLayers(g) => r \in executed',
         \A r \in relays : r.layer = NLayers(g) /\ r.stage = "FRONT" => r \in executed'
  PROVE  /\ pc' \in {"incoming", "return"}
         /\ pc' = "incoming" => InJob'
         /\ pc' = "return" => relays' \subseteq executed'
<1> DEFINE N == NLayers(g)
           list == lay.tail[N]
<1>0. N \in Nat \ {0} /\ N \in 1..N /\ NLayers(g)' = N
  BY DEF Listed
<1> HIDE DEF N
<1>1. /\ list \in Seq(Nat \ {0}) /\ relays' = relays
      /\ \A r \in relays : r.layer = N /\ r.stage = "TAIL" => \E n \in ToSet(list) : g[n].dev = r.dev
      /\ \A r \in relays : r.stage \in {"TAIL", "FRONT"} /\ r.layer \in 1..N
  BY <1>0 DEF Listed, relays, N
<1>2. /\ job' = [stage |-> "tail", list |-> list, tail |-> N, head |-> 0, tailLen |-> 0]
      /\ pos' = 1 /\ flushed' = {}
      /\ pc' = IF list # <<>> THEN "incoming" ELSE "return"
  BY DEF Begin, N
<1>3. job'.stage = "tail" /\ job'.list = list /\ job'.tail = N /\ job'.head = 0
  BY <1>2
<1>4. /\ \A r \in relays' : r.layer < N => r \in executed'
      /\ \A r \in relays' : r.layer = N /\ r.stage = "FRONT" => r \in executed'
      /\ layer' = N
  BY <1>1 DEF N
<1>5. CASE list = <<>>
  <2>1. pc' = "return"
    BY <1>2, <1>5
  <2>2. \A r \in relays : ~(r.layer = N /\ r.stage = "TAIL")
    BY <1>1, <1>5 DEF ToSet
  <2>3. \A r \in relays' : r \in executed'
    BY <1>0, <1>1, <1>4, <2>2
  <2> QED
    BY <2>1, <2>3
<1>6. CASE list # <<>>
  <2>1. pc' = "incoming" /\ pos' \in 1..Len(job'.list)
    BY <1>1, <1>2, <1>6
  <2>2. TailJob'
    BY <1>0, <1>3, <1>4 DEF TailJob, Ran, Headed
  <2>3. ASSUME NEW r \in relays' \ executed', Due(r)' PROVE Ahead(r)'
    <3>1. r.layer = N /\ r.stage = "TAIL"
      BY <1>1, <1>3, <2>3 DEF Due, Fused
    <3>2. PICK n \in ToSet(list) : g[n].dev = r.dev
      BY <1>1, <3>1
    <3>3. PICK i \in 1..Len(list) : list[i] = n
      BY <1>1, <3>2 DEF ToSet
    <3> QED
      BY <1>2, <1>3, <3>2, <3>3 DEF Ahead
  <2> QED
    BY <2>1, <2>2, <2>3 DEF InJob
<1> QED
  BY <1>5, <1>6

\* A tail together with the next head.
LEMMA PairBegins ==
  ASSUME Listed, UNCHANGED <<g, lay>>, NEW L \in 1..NLayers(g), L < NLayers(g), layer' = L + 1,
         Begin("tail_head", lay.tail[L] \o lay.head[L + 1], L, L + 1, Len(lay.tail[L])),
         \A r \in relays : r.layer < L => r \in executed',
         \A r \in relays : r.layer = L /\ r.stage = "FRONT" => r \in executed'
  PROVE  /\ pc' \in {"incoming", "closure"}
         /\ pc' = "incoming" => InJob'
         /\ pc' = "closure" => Ran(layer)' /\ Headed(layer)'
<1> DEFINE front == lay.tail[L]
           back  == lay.head[L + 1]
           list  == front \o back
<1>0. L \in Nat /\ L \in 1..NLayers(g)' /\ L + 1 # 0 /\ L + 1 - 1 = L /\ L + 1 \in 1..NLayers(g)
  BY DEF Listed
<1>1. /\ front \in Seq(Nat \ {0}) /\ back \in Seq(Nat \ {0}) /\ relays' = relays
      /\ \A r \in relays : r.layer = L /\ r.stage = "TAIL" => \E n \in ToSet(front) : g[n].dev = r.dev
      /\ \A r \in relays : r.layer = L + 1 /\ r.stage = "FRONT" => \E n \in ToSet(back) : g[n].dev = r.dev
      /\ \A r \in relays : r.stage \in {"TAIL", "FRONT"} /\ r.layer \in 1..NLayers(g)
  BY <1>0 DEF Listed, relays
<1>2. /\ job' = [stage |-> "tail_head", list |-> list, tail |-> L, head |-> L + 1, tailLen |-> Len(front)]
      /\ pos' = 1 /\ flushed' = {}
      /\ pc' = IF list # <<>> THEN "incoming" ELSE "closure"
  BY DEF Begin
<1>3. /\ job'.stage = "tail_head" /\ job'.list = list /\ job'.tail = L /\ job'.head = L + 1
      /\ job'.tailLen = Len(front)
  BY <1>2
<1>4. /\ \A r \in relays' : r.layer < L => r \in executed'
      /\ \A r \in relays' : r.layer = L /\ r.stage = "FRONT" => r \in executed'
  BY <1>1
<1>5. lay'.tail = lay.tail /\ lay'.head = lay.head
  OBVIOUS
<1> HIDE DEF front, back
<1>6. CASE list = <<>>
  <2>1. pc' = "closure"
    BY <1>2, <1>6
  <2>2. front = <<>> /\ back = <<>>
    BY <1>1, <1>6
  <2>3. /\ \A r \in relays : ~(r.layer = L /\ r.stage = "TAIL")
        /\ \A r \in relays : ~(r.layer = L + 1 /\ r.stage = "FRONT")
    BY <1>1, <2>2 DEF ToSet
  <2>4. \A r \in relays' : r.layer < L + 1 => r \in executed'
    <3> SUFFICES ASSUME NEW r \in relays, r.layer < L + 1 PROVE r \in executed'
      BY <1>1
    <3>1. r.layer < L \/ r.layer = L
      BY <1>0, <1>1
    <3> QED
      BY <1>1, <1>4, <2>3, <3>1
  <2> QED
    BY <1>1, <2>1, <2>3, <2>4 DEF Ran, Headed
<1>7. CASE list # <<>>
  <2>1. pc' = "incoming" /\ pos' \in 1..Len(job'.list)
    BY <1>1, <1>2, <1>7
  <2>2. PairJob'
    <3>1. layer' - 1 = L /\ job'.head = layer' /\ job'.tail = layer' - 1
      BY <1>0, <1>3
    <3>2. job'.list = lay'.tail[layer' - 1] \o lay'.head[layer'] /\ job'.tailLen = Len(lay'.tail[layer' - 1])
      BY <1>3, <1>5, <3>1 DEF front, back
    <3> QED
      BY <1>0, <1>2, <1>3, <1>4, <3>1, <3>2 DEF PairJob, Ran, Headed
  <2>3. ASSUME NEW r \in relays' \ executed', Due(r)' PROVE Ahead(r)'
    <3>1. (r.layer = L /\ r.stage = "TAIL") \/ (r.layer = L + 1 /\ r.stage = "FRONT")
      <4>1. Fused'
        BY <1>0, <1>3 DEF Fused
      <4>2. (r.layer = job.tail /\ r.stage = "TAIL")' \/ (r.layer = job.head /\ r.stage = "FRONT")'
        BY <2>3, <4>1 DEF Due
      <4> QED
        BY <1>3, <4>2
    <3>2. PICK n \in ToSet(front) \cup ToSet(back) : g[n].dev = r.dev
      BY <1>1, <3>1
    <3>3. \E i \in 1..Len(list) : list[i] = n
      <4>1. CASE n \in ToSet(front)
        <5>1. PICK i \in 1..Len(front) : front[i] = n
          BY <1>1, <4>1 DEF ToSet
        <5>2. i \in 1..Len(list) /\ list[i] = n
          BY <1>1, <5>1
        <5> QED
          BY <5>2
      <4>2. CASE n \in ToSet(back)
        <5>1. PICK i \in 1..Len(back) : back[i] = n
          BY <1>1, <4>2 DEF ToSet
        <5>2. Len(front) + i \in 1..Len(list) /\ list[Len(front) + i] = n
          BY <1>1, <5>1
        <5> QED
          BY <5>2
      <4> QED
        BY <3>2, <4>1, <4>2
    <3>4. PICK i \in 1..Len(list) : list[i] = n
      BY <3>3
    <3> QED
      BY <1>2, <1>3, <3>2, <3>4 DEF Ahead
  <2> QED
    BY <2>1, <2>2, <2>3 DEF InJob
<1> QED
  BY <1>6, <1>7

-----------------------------------------------------------------------------
(* The segments of a job.                                                  *)

\* A job's list, and the one device of a fused pair.
LEMMA JobFacts ==
  ASSUME Listed, InJob, layer \in 1..NLayers(g)
  PROVE  /\ job.list \in Seq(Nat \ {0})
         /\ Fused <=> PairJob
         /\ PairJob => /\ \A i, j \in 1..Len(job.list) : g[job.list[i]].dev = g[job.list[j]].dev
                       /\ SegEnd = Len(job.list)
<1>0. NLayers(g) \in Nat /\ layer \in Nat /\ layer # 0 /\ layer - 1 + 1 = layer
  BY DEF Listed
<1>1. job.list \in Seq(Nat \ {0})
  <2>1. CASE PairJob
    <3>1. lay.tail[layer - 1] \in Seq(Nat \ {0}) /\ lay.head[layer] \in Seq(Nat \ {0})
      BY <2>1 DEF PairJob, Listed
    <3> QED
      BY <2>1, <3>1 DEF PairJob
  <2> QED
    BY <2>1 DEF InJob, HeadJob, TailJob, Listed
<1>2. Fused <=> PairJob
  BY <1>0 DEF InJob, HeadJob, TailJob, PairJob, Fused
<1>3. ASSUME PairJob
      PROVE  /\ \A i, j \in 1..Len(job.list) : g[job.list[i]].dev = g[job.list[j]].dev
             /\ SegEnd = Len(job.list)
  <2>1. layer - 1 \in 1..(NLayers(g) - 1) /\ job.list = lay.tail[layer - 1] \o lay.head[(layer - 1) + 1]
    BY <1>0, <1>3 DEF PairJob
  <2>2. \A n, m \in ToSet(job.list) : g[n].dev = g[m].dev
    BY <2>1 DEF Listed
  <2>3. \A i \in 1..Len(job.list) : job.list[i] \in ToSet(job.list)
    BY <1>1 DEF ToSet
  <2>4. \A i, j \in 1..Len(job.list) : g[job.list[i]].dev = g[job.list[j]].dev
    BY <2>2, <2>3
  <2>5. pos \in 1..Len(job.list)
    BY DEF InJob
  <2>6. \A k \in pos..Len(job.list) : k \in 1..Len(job.list)
    BY <1>1, <2>5
  <2>7. \A k \in pos..Len(job.list) : g[job.list[k]].dev = SegDev
    BY <2>4, <2>5, <2>6 DEF SegDev
  <2> QED
    BY <1>1, <2>4, <2>5, <2>7, SegmentFacts
<1> QED
  BY <1>1, <1>2, <1>3

\* Of the copies that are due, a segment takes those for its device that Ahead
\* allows.
LEMMA TakenIn ==
  ASSUME Listed, InJob, layer \in 1..NLayers(g),
         NEW r \in relays \ executed, Due(r), Ahead(r), r.dev = SegDev
  PROVE  r \in Selected(Scope(TRUE))
<1> DEFINE s == Scope(TRUE)
<1>0. /\ job.list \in Seq(Nat \ {0}) /\ pos \in 1..Len(job.list)
      /\ layer \in Nat /\ layer # 0
  BY JobFacts DEF InJob, Listed
<1>1. /\ s.incoming = TRUE /\ s.dev = SegDev /\ s.flushed = flushed /\ s.inGraph = {}
      /\ s.tail = job.tail /\ s.head = job.head /\ s.stage = job.stage
      /\ s.hasTail <=> (~Fused \/ pos <= job.tailLen)
      /\ s.hasHead <=> (~Fused \/ SegEnd > job.tailLen)
  BY DEF Scope
<1> HIDE DEF s
<1> SUFFICES r \in Selected(s)
  BY DEF s
<1>2. AtDevice(r, s)
  BY <1>1 DEF AtDevice, Ahead
<1>3. CASE ~Fused
  BY <1>1, <1>2, <1>3 DEF Selected, InStage, Due, Fused
<1>4. CASE Fused
  <2>1. PairJob /\ SegEnd = Len(job.list)
    BY <1>4, JobFacts
  <2> DEFINE front == lay.tail[layer - 1]
             back  == lay.head[layer]
  <2>2. /\ front \in Seq(Nat \ {0}) /\ back \in Seq(Nat \ {0})
        /\ job.list = front \o back /\ job.tailLen = Len(front) /\ pos = 1
        /\ job.tail = layer - 1 /\ job.head = layer
    BY <2>1 DEF PairJob, Listed
  <2>3. r.layer = layer - 1 /\ r.stage = "TAIL" => front # <<>>
    BY DEF Listed, ToSet
  <2>4. r.layer = layer /\ r.stage = "FRONT" => back # <<>>
    BY DEF Listed, ToSet
  <2> HIDE DEF front, back
  <2>5. CASE r.layer = layer - 1 /\ r.stage = "TAIL"
    <3>1. s.hasTail
      BY <1>1, <2>2, <2>3, <2>5
    <3> QED
      BY <1>1, <1>2, <1>4, <2>2, <2>5, <3>1 DEF Selected, InPair, Fused
  <2>6. CASE r.layer = layer /\ r.stage = "FRONT"
    <3>1. s.hasHead
      BY <1>1, <2>1, <2>2, <2>4, <2>6
    <3> QED
      BY <1>1, <1>2, <1>4, <2>2, <2>6, <3>1 DEF Selected, InPair, Fused
  <2> QED
    BY <1>4, <2>2, <2>5, <2>6 DEF Due
<1> QED
  BY <1>3, <1>4

\* What is due in this job stays so while only copies are made.
LEMMA SameJob ==
  ASSUME UNCHANGED <<g, lay, job, pos, flushed, layer>>, executed \subseteq executed',
         HeadJob \/ PairJob \/ TailJob
  PROVE  /\ (HeadJob \/ PairJob \/ TailJob)'
         /\ relays' = relays /\ SegDev' = SegDev
         /\ \A r : (Due(r)' <=> Due(r)) /\ (Ahead(r)' <=> Ahead(r))
<1>1. relays' = relays /\ SegDev' = SegDev /\ NLayers(g)' = NLayers(g)
  BY DEF relays, SegDev
<1>2. \A r : (Due(r)' <=> Due(r)) /\ (Ahead(r)' <=> Ahead(r))
  BY DEF Due, Ahead, Fused
<1>3. HeadJob => HeadJob'
  BY <1>1 DEF HeadJob, Ran
<1>4. PairJob => PairJob'
  BY <1>1 DEF PairJob, Ran, Headed
<1>5. TailJob => TailJob'
  BY <1>1 DEF TailJob, Ran, Headed
<1> QED
  BY <1>1, <1>2, <1>3, <1>4, <1>5

\* Before a segment: the copies for its device.
LEMMA IncomingStep ==
  ASSUME Settled, Listed, SegIncoming PROVE InJob' /\ executed' \subseteq relays'
<1>1. /\ pc = "incoming" /\ pc' = "flush" /\ UNCHANGED <<g, lay, layer, job, pos, flushed>>
      /\ executed' = executed \cup Selected(Scope(TRUE))
  BY DEF SegIncoming, plan
<1>2. InJob /\ layer \in 1..NLayers(g) /\ executed \subseteq relays
  BY <1>1 DEF Settled, Jobs
<1>3. /\ (HeadJob \/ PairJob \/ TailJob)'
      /\ relays' = relays /\ SegDev' = SegDev
      /\ \A r : (Due(r)' <=> Due(r)) /\ (Ahead(r)' <=> Ahead(r))
  BY <1>1, <1>2, SameJob DEF InJob
<1>4. ASSUME NEW r \in relays \ executed', Due(r) PROVE Ahead(r) /\ r.dev # SegDev
  <2>1. r \notin executed /\ r \notin Selected(Scope(TRUE))
    BY <1>1, <1>4
  <2>2. Ahead(r)
    BY <1>2, <1>4, <2>1 DEF InJob
  <2> QED
    BY <1>2, <1>4, <2>1, <2>2, TakenIn
<1>5. pos' \in 1..Len(job'.list)
  BY <1>1, <1>2 DEF InJob
<1>6. Selected(Scope(TRUE)) \subseteq relays
  BY DEF Selected
<1> QED
  BY <1>1, <1>2, <1>3, <1>4, <1>5, <1>6 DEF InJob

\* The segment itself touches no copy.
LEMMA FlushStep ==
  ASSUME Settled, SegFlush PROVE InJob'
<1>1. pc = "flush" /\ pc' = "boundary" /\ UNCHANGED <<g, lay, layer, job, pos, flushed, executed>>
  BY DEF SegFlush, plan
<1>2. InJob
  BY <1>1 DEF Settled, Jobs
<1>3. /\ (HeadJob \/ PairJob \/ TailJob)'
      /\ relays' = relays /\ SegDev' = SegDev
      /\ \A r : (Due(r)' <=> Due(r)) /\ (Ahead(r)' <=> Ahead(r))
  BY <1>1, <1>2, SameJob DEF InJob
<1> QED
  BY <1>1, <1>2, <1>3 DEF InJob

\* After a segment: the copies from its device.  One that is due and not made is
\* then from a device still to be flushed, to a device of a segment to come.
LEMMA TakenOut ==
  ASSUME Listed, InJob, layer \in 1..NLayers(g), pc = "boundary",
         NEW r \in relays \ executed, Due(r), r \notin Selected(Scope(FALSE))
  PROVE  /\ DevOf(g, r.src) \notin flushed \cup {SegDev}
         /\ \E i \in (SegEnd + 1)..Len(job.list) : g[job.list[i]].dev = r.dev
<1> DEFINE s == Scope(FALSE)
<1>0. job.list \in Seq(Nat \ {0}) /\ pos \in 1..Len(job.list)
  BY JobFacts DEF InJob
<1>1. /\ s.incoming = FALSE /\ s.dev = SegDev
      /\ s.tail = job.tail /\ s.head = job.head /\ s.stage = job.stage
  BY DEF Scope
<1>2. r \notin Selected(s)
  OBVIOUS
<1> HIDE DEF s
<1>3. Ahead(r) /\ r.dev # SegDev
  BY DEF InJob
<1>4. PICK i \in pos..Len(job.list) : g[job.list[i]].dev = r.dev
  BY <1>3 DEF Ahead
<1>5. ~Fused
  <2> SUFFICES ASSUME Fused PROVE FALSE
    OBVIOUS
  <2>1. \A k, l \in 1..Len(job.list) : g[job.list[k]].dev = g[job.list[l]].dev
    BY JobFacts
  <2>2. i \in 1..Len(job.list)
    BY <1>0, <1>4
  <2> QED
    BY <1>0, <1>3, <1>4, <2>1, <2>2 DEF SegDev
<1>6. DevOf(g, r.src) # SegDev
  BY <1>1, <1>2, <1>5 DEF Selected, AtDevice, InStage, Due, Fused
<1>7. SegEnd \in pos..Len(job.list) /\ \A k \in pos..SegEnd : g[job.list[k]].dev = SegDev
  BY <1>0, SegmentFacts
<1>8. i \in (SegEnd + 1)..Len(job.list)
  BY <1>0, <1>3, <1>4, <1>7
<1> QED
  BY <1>3, <1>4, <1>6, <1>8 DEF Ahead

\* The end of a segment, and of the job when it was the last.
LEMMA BoundaryStep ==
  ASSUME Settled, Listed, SegBoundary
  PROVE  /\ executed' \subseteq relays'
         /\ pc' \in {"incoming", "closure", "return"}
         /\ pc' = "incoming" => InJob'
         /\ pc' = "closure" => Ran(layer)' /\ Headed(layer)'
         /\ pc' = "return" => relays' \subseteq executed'
<1>1. /\ pc = "boundary" /\ UNCHANGED <<g, lay, layer, job>>
      /\ executed' = executed \cup Selected(Scope(FALSE))
      /\ flushed' = flushed \cup {SegDev} /\ pos' = SegEnd + 1
      /\ pc' = IF SegEnd < Len(job.list) THEN "incoming"
               ELSE IF job.stage = "tail" THEN "return" ELSE "closure"
  BY DEF SegBoundary, plan, AfterJob
<1>2. InJob /\ layer \in 1..NLayers(g) /\ executed \subseteq relays
  BY <1>1 DEF Settled, Jobs
<1>3. job.list \in Seq(Nat \ {0}) /\ pos \in 1..Len(job.list)
  BY <1>2, JobFacts DEF InJob
<1>4. SegEnd \in pos..Len(job.list)
  BY <1>3, SegmentFacts
<1>5. /\ relays' = relays /\ NLayers(g)' = NLayers(g)
      /\ \A r : Due(r)' <=> Due(r)
  BY <1>1 DEF relays, Due, Fused
<1>6. ASSUME NEW r \in relays \ executed', Due(r)
      PROVE  /\ DevOf(g, r.src) \notin flushed'
             /\ \E i \in pos'..Len(job'.list) : g'[job'.list[i]].dev = r.dev
  <2>1. r \notin executed /\ r \notin Selected(Scope(FALSE))
    BY <1>1, <1>6
  <2> QED
    BY <1>1, <1>2, <1>6, <2>1, TakenOut
<1>7. executed' \subseteq relays' /\ executed \subseteq executed'
  BY <1>1, <1>2, <1>5 DEF Selected
<1>8. CASE SegEnd < Len(job.list)
  <2>1. pc' = "incoming" /\ pos' \in 1..Len(job'.list)
    BY <1>1, <1>3, <1>4, <1>8
  <2>2. ~PairJob
    BY <1>2, <1>3, <1>8, JobFacts
  <2>3. (HeadJob \/ TailJob)'
    <3>1. HeadJob => HeadJob'
      BY <1>1, <1>5, <1>7 DEF HeadJob, Ran
    <3>2. TailJob => TailJob'
      BY <1>1, <1>5, <1>7 DEF TailJob, Ran, Headed
    <3> QED
      BY <1>2, <2>2, <3>1, <3>2 DEF InJob
  <2>4. \A r \in relays' \ executed' : Due(r)' => Ahead(r)'
    BY <1>1, <1>5, <1>6 DEF Ahead
  <2> QED
    BY <1>7, <2>1, <2>3, <2>4 DEF InJob
<1>9. CASE ~(SegEnd < Len(job.list))
  <2>1. SegEnd = Len(job.list) /\ pos' = Len(job.list) + 1
    BY <1>1, <1>3, <1>4, <1>9
  <2>2. \A r \in relays : Due(r) => r \in executed'
    <3> SUFFICES ASSUME NEW r \in relays \ executed', Due(r) PROVE FALSE
      OBVIOUS
    <3>1. PICK i \in pos'..Len(job'.list) : TRUE
      BY <1>6
    <3> QED
      BY <1>1, <1>3, <2>1, <3>1
  <2>3. \A r \in relays : r.stage \in {"TAIL", "FRONT"} /\ r.layer \in 1..NLayers(g)
    BY DEF Listed
  <2>4. CASE HeadJob
    <3>1. pc' = "closure" /\ layer' = layer
      BY <1>1, <1>9, <2>4 DEF HeadJob
    <3>2. \A r \in relays : r.layer < layer => r \in executed'
      BY <1>7, <2>4 DEF HeadJob, Ran
    <3>3. \A r \in relays : r.layer = layer /\ r.stage = "FRONT" => r \in executed'
      BY <2>2, <2>4 DEF HeadJob, Due, Fused
    <3> QED
      BY <1>5, <1>7, <3>1, <3>2, <3>3 DEF Ran, Headed
  <2>5. CASE PairJob
    <3>0. layer \in Nat /\ layer # 0 /\ Fused
      BY <1>2, <2>5, JobFacts DEF Listed
    <3>1. pc' = "closure" /\ layer' = layer
      BY <1>1, <1>9, <2>5 DEF PairJob
    <3>2. \A r \in relays : r.layer = layer - 1 => r \in executed'
      <4> SUFFICES ASSUME NEW r \in relays, r.layer = layer - 1 PROVE r \in executed'
        OBVIOUS
      <4>1. r.stage = "FRONT" => r \in executed
        BY <2>5 DEF PairJob, Headed
      <4>2. r.stage = "TAIL" => Due(r)
        BY <2>5, <3>0 DEF PairJob, Due
      <4> QED
        BY <1>7, <2>2, <2>3, <4>1, <4>2
    <3>3. \A r \in relays : r.layer < layer => r \in executed'
      <4> SUFFICES ASSUME NEW r \in relays, r.layer < layer PROVE r \in executed'
        OBVIOUS
      <4>1. r.layer = layer - 1 \/ r.layer < layer - 1
        BY <2>3, <3>0 DEF Listed
      <4>2. r.layer < layer - 1 => r \in executed
        BY <2>5 DEF PairJob, Ran
      <4> QED
        BY <1>7, <3>2, <4>1, <4>2
    <3>4. \A r \in relays : r.layer = layer /\ r.stage = "FRONT" => r \in executed'
      BY <2>2, <2>5, <3>0 DEF PairJob, Due
    <3> QED
      BY <1>5, <1>7, <3>1, <3>3, <3>4 DEF Ran, Headed
  <2>6. CASE TailJob
    <3>1. pc' = "return"
      BY <1>1, <1>9, <2>6 DEF TailJob
    <3>2. \A r \in relays : r \in executed'
      <4> SUFFICES ASSUME NEW r \in relays PROVE r \in executed'
        OBVIOUS
      <4>1. r.layer < layer \/ r.layer = layer
        BY <2>3, <2>6 DEF TailJob, Listed
      <4>2. r.layer < layer => r \in executed
        BY <2>6 DEF TailJob, Ran
      <4>3. r.layer = layer /\ r.stage = "FRONT" => r \in executed
        BY <2>6 DEF TailJob, Headed
      <4>4. r.layer = layer /\ r.stage = "TAIL" => Due(r)
        BY <2>6 DEF TailJob, Due, Fused
      <4> QED
        BY <1>7, <2>2, <2>3, <4>1, <4>2, <4>3, <4>4
    <3> QED
      BY <1>5, <1>7, <3>1, <3>2
  <2> QED
    BY <1>2, <2>4, <2>5, <2>6 DEF InJob
<1> QED
  BY <1>8, <1>9

-----------------------------------------------------------------------------
(* The closures.                                                           *)

\* A closure on its own, then the tail: alone in the last layer, else with the
\* next head.
LEMMA ClosureStep ==
  ASSUME Settled, Listed, ClosureThenTail
  PROVE  /\ executed' \subseteq relays' /\ layer' \in 1..NLayers(g)'
         /\ pc' \in {"incoming", "closure", "return"}
         /\ pc' = "incoming" => InJob'
         /\ pc' = "closure" => Ran(layer)' /\ Headed(layer)'
         /\ pc' = "return" => relays' \subseteq executed'
<1>0. PICK batch \in SUBSET relays : executed' = executed \cup batch
  <2> DEFINE b == {r \in relays \ executed :
                     /\ r.layer = layer /\ r.stage = "TAIL"
                     /\ \E n \in ToSet(lay.moe[layer]) : DevOf(g, r.src) = g[n].dev}
  <2>1. executed' = executed \cup b
    BY DEF ClosureThenTail, PreTail
  <2>2. b \in SUBSET relays
    OBVIOUS
  <2> QED
    BY <2>1, <2>2
<1>1. /\ pc = "closure" /\ UNCHANGED <<g, lay>> /\ RunTail /\ Advance
  BY DEF ClosureThenTail, plan
<1>2. /\ layer \in 1..NLayers(g) /\ executed \subseteq relays /\ Ran(layer) /\ Headed(layer)
      /\ NLayers(g) \in Nat
  BY <1>1 DEF Settled, Listed
<1>3. /\ \A r \in relays : r.layer < layer => r \in executed'
      /\ \A r \in relays : r.layer = layer /\ r.stage = "FRONT" => r \in executed'
      /\ executed' \subseteq relays'
  BY <1>0, <1>1, <1>2 DEF Ran, Headed, relays
<1>4. CASE AtLast
  <2>1. layer = NLayers(g) /\ layer' = NLayers(g)
    BY <1>1, <1>4 DEF AtLast, Advance
  <2>2. Begin("tail", lay.tail[NLayers(g)], NLayers(g), 0, 0)
    BY <1>1, <1>4, <2>1 DEF RunTail
  <2> QED
    BY <1>1, <1>2, <1>3, <2>1, <2>2, TailBegins
<1>5. CASE ~AtLast
  <2>1. layer < NLayers(g) /\ layer' = layer + 1
    BY <1>1, <1>2, <1>5 DEF AtLast, Advance
  <2>2. Begin("tail_head", lay.tail[layer] \o lay.head[layer + 1], layer, layer + 1, Len(lay.tail[layer]))
    BY <1>1, <1>5 DEF RunTail
  <2>3. layer' \in 1..NLayers(g)'
    BY <1>1, <1>2, <2>1
  <2> QED
    BY <1>1, <1>2, <1>3, <2>1, <2>2, <2>3, PairBegins
<1> QED
  BY <1>4, <1>5

\* Tier 2: the copies that the closure's graph needs are those that are due for
\* the tail and for the head in it, whose sources are outside.
LEMMA FusedStep ==
  ASSUME Settled, Listed, NEW h \in BOOLEAN, ClosureFused(h)
  PROVE  /\ executed' \subseteq relays' /\ layer' \in 1..NLayers(g)'
         /\ pc' \in {"incoming", "closure", "return"}
         /\ pc' = "incoming" => InJob'
         /\ pc' = "closure" => Ran(layer)' /\ Headed(layer)'
         /\ pc' = "return" => relays' \subseteq executed'
<1> DEFINE D    == g[lay.moe[layer][1]].dev
           tail == lay.tail[layer]
           head == IF h THEN lay.head[layer + 1] ELSE <<>>
           s    == [tail |-> layer, head |-> IF h THEN layer + 1 ELSE 0, stage |-> "tail",
                    incoming |-> TRUE, dev |-> D, hasTail |-> TRUE, hasHead |-> h,
                    tailNodes |-> ToSet(tail), flushed |-> {},
                    inGraph |-> IF h THEN ToSet(tail \o head) ELSE {}]
<1>1. /\ pc = "closure" /\ UNCHANGED <<g, lay>> /\ Advance
      /\ h => ~AtLast /\ OnDevice(head, D)
      /\ OnDevice(tail, D)
      /\ executed' = executed \cup Selected(s) \cup (Selected([s EXCEPT !.incoming = FALSE]) \ Selected(s))
      /\ IF AtLast THEN pc' = "return" /\ UNCHANGED <<job, pos, flushed>>
         ELSE IF h THEN pc' = "closure" /\ UNCHANGED <<job, pos, flushed>>
         ELSE BeginHead(layer + 1)
  BY DEF ClosureFused, plan
<1>2. /\ s.tail = layer /\ s.head = (IF h THEN layer + 1 ELSE 0) /\ s.stage = "tail"
      /\ s.incoming = TRUE /\ s.dev = D /\ s.flushed = {}
      /\ s.hasTail /\ (s.hasHead <=> h)
      /\ s.inGraph = IF h THEN ToSet(tail \o head) ELSE {}
  OBVIOUS
<1>3. /\ layer \in 1..NLayers(g) /\ executed \subseteq relays /\ Ran(layer) /\ Headed(layer)
      /\ NLayers(g) \in Nat /\ layer \in Nat /\ layer + 1 # 0
  BY <1>1 DEF Settled, Listed
<1>4. executed' \subseteq relays /\ executed \subseteq executed' /\ Selected(s) \subseteq executed'
  BY <1>1, <1>3 DEF Selected
<1>5. h => layer < NLayers(g) /\ head = lay.head[layer + 1]
  BY <1>1, <1>3 DEF AtLast
<1>6. /\ \A r \in relays : r.stage \in {"TAIL", "FRONT"} /\ r.layer \in 1..NLayers(g)
      /\ \A r \in relays : DevOf(g, r.src) # r.dev
      /\ \A r \in relays : r.layer = layer /\ r.stage = "TAIL" =>
           \E n \in ToSet(tail) : ~IsView(g, n) /\ g[n].dev = r.dev
      /\ h => \A r \in relays : r.layer = layer + 1 /\ r.stage = "FRONT" =>
           \E n \in ToSet(head) : ~IsView(g, n) /\ g[n].dev = r.dev
      /\ h => \A n, m \in ToSet(tail \o head) : g[n].dev = g[m].dev
      /\ tail \in Seq(Nat \ {0})
      /\ h => head \in Seq(Nat \ {0})
  <2>1. h => layer \in 1..(NLayers(g) - 1) /\ layer + 1 \in 1..NLayers(g)
    BY <1>3, <1>5
  <2> QED
    BY <1>3, <1>5, <2>1 DEF Listed
<1> HIDE DEF D, tail, head, s
<1>7. ASSUME h, NEW n \in ToSet(tail) \cup ToSet(head) PROVE n \in ToSet(tail \o head)
  <2>1. CASE n \in ToSet(tail)
    <3>1. PICK i \in 1..Len(tail) : n = tail[i]
      BY <1>6, <2>1 DEF ToSet
    <3>2. i \in 1..Len(tail \o head) /\ (tail \o head)[i] = n
      BY <1>6, <1>7, <3>1
    <3>3. DOMAIN (tail \o head) = 1..Len(tail \o head)
      BY <1>6, <1>7
    <3> QED
      BY <3>2, <3>3 DEF ToSet
  <2>2. CASE n \in ToSet(head)
    <3>1. PICK i \in 1..Len(head) : n = head[i]
      BY <1>6, <1>7, <2>2 DEF ToSet
    <3>2. Len(tail) + i \in 1..Len(tail \o head) /\ (tail \o head)[Len(tail) + i] = n
      BY <1>6, <1>7, <3>1
    <3>3. DOMAIN (tail \o head) = 1..Len(tail \o head)
      BY <1>6, <1>7
    <3> QED
      BY <3>2, <3>3 DEF ToSet
  <2> QED
    BY <1>7, <2>1, <2>2
<1>8. ASSUME NEW r \in relays \ executed, r.dev = D,
             NEW n \in ToSet(tail) \cup ToSet(head), g[n].dev = r.dev
      PROVE  AtDevice(r, s)
  <2>1. ASSUME h, r.src \in ToSet(tail \o head) PROVE FALSE
    <3>1. g[r.src].dev = g[n].dev
      BY <1>6, <1>7, <2>1
    <3>2. PICK i \in DOMAIN (tail \o head) : r.src = (tail \o head)[i]
      BY <2>1 DEF ToSet
    <3>3. tail \o head \in Seq(Nat \ {0})
      BY <1>6, <2>1
    <3>4. r.src \in Nat \ {0}
      BY <3>2, <3>3
    <3>5. DevOf(g, r.src) = g[r.src].dev
      BY <3>4 DEF DevOf
    <3> QED
      BY <1>6, <1>8, <3>1, <3>5
  <2>2. r.src \notin s.inGraph
    BY <1>2, <2>1
  <2> QED
    BY <1>2, <1>8, <2>2 DEF AtDevice
<1>9. ASSUME NEW r \in relays, r.layer = layer, r.stage = "TAIL" PROVE r \in executed'
  <2> SUFFICES ASSUME r \notin executed PROVE r \in Selected(s)
    BY <1>4
  <2>1. PICK n \in ToSet(tail) : ~IsView(g, n) /\ g[n].dev = r.dev
    BY <1>6, <1>9
  <2>2. r.dev = D
    BY <1>1, <2>1 DEF OnDevice
  <2>3. AtDevice(r, s)
    BY <1>8, <2>1, <2>2
  <2>4. CASE h
    BY <1>2, <1>3, <1>9, <2>3, <2>4 DEF Selected, InPair
  <2>5. CASE ~h
    BY <1>2, <1>9, <2>3, <2>5 DEF Selected, InStage
  <2> QED
    BY <2>4, <2>5
<1>10. ASSUME h, NEW r \in relays, r.layer = layer + 1, r.stage = "FRONT" PROVE r \in executed'
  <2> SUFFICES ASSUME r \notin executed PROVE r \in Selected(s)
    BY <1>4
  <2>1. PICK n \in ToSet(head) : ~IsView(g, n) /\ g[n].dev = r.dev
    BY <1>6, <1>10
  <2>2. r.dev = D
    BY <1>1, <1>10, <2>1 DEF OnDevice
  <2>3. AtDevice(r, s)
    BY <1>8, <2>1, <2>2
  <2> QED
    BY <1>2, <1>3, <1>10, <2>3 DEF Selected, InPair
<1>11. \A r \in relays : r.layer < layer + 1 => r \in executed'
  <2> SUFFICES ASSUME NEW r \in relays, r.layer < layer + 1 PROVE r \in executed'
    OBVIOUS
  <2>1. r.layer < layer \/ r.layer = layer
    BY <1>3, <1>6
  <2>2. r.layer < layer => r \in executed
    BY <1>3 DEF Ran
  <2>3. r.layer = layer /\ r.stage = "FRONT" => r \in executed
    BY <1>3 DEF Headed
  <2> QED
    BY <1>4, <1>6, <1>9, <2>1, <2>2, <2>3
<1>12. relays' = relays /\ NLayers(g)' = NLayers(g)
  BY <1>1 DEF relays
<1>13. CASE AtLast
  <2>1. layer = NLayers(g) /\ layer' = layer /\ pc' = "return"
    BY <1>1, <1>13 DEF AtLast, Advance
  <2>2. \A r \in relays : r.layer < layer + 1
    BY <1>3, <1>6, <2>1
  <2> QED
    BY <1>3, <1>4, <1>11, <1>12, <2>1, <2>2
<1>14. CASE ~AtLast
  <2>1. layer' = layer + 1 /\ layer + 1 \in 1..NLayers(g)
    BY <1>1, <1>3, <1>14 DEF AtLast, Advance
  <2>2. CASE h
    <3>1. pc' = "closure"
      BY <1>1, <1>14, <2>2
    <3>2. \A r \in relays : r.layer = layer + 1 /\ r.stage = "FRONT" => r \in executed'
      BY <1>10, <2>2
    <3> QED
      BY <1>4, <1>11, <1>12, <2>1, <3>1, <3>2 DEF Ran, Headed
  <2>3. CASE ~h
    <3>1. BeginHead(layer + 1)
      BY <1>1, <1>14, <2>3
    <3> QED
      BY <1>1, <1>4, <1>11, <1>12, <2>1, <3>1, HeadBegins
  <2> QED
    BY <2>2, <2>3
<1> QED
  BY <1>13, <1>14

-----------------------------------------------------------------------------
\* Nothing is built, and nothing executed, at the start.
LEMMA SettledInit == Init => Settled
  BY DEF Init, Settled, Jobs

\* The steps outside a call, and those that end one.
LEMMA IdleStep == ASSUME Settled, Build \/ Fail \/ Return PROVE Settled'
<1>1. CASE Build
  <2>1. pc' = "built" /\ g' \in Graphs /\ lay' = LayoutOf(g') /\ UNCHANGED executed /\ pc = "unbuilt"
    BY <1>1 DEF Build, call
  <2> QED
    BY <2>1 DEF Settled, Jobs
<1>2. CASE Fail
  <2>1. /\ pc' = "failed" /\ pc # "unbuilt" /\ UNCHANGED <<g, lay, executed>>
    BY <1>2 DEF Fail, plan, call
  <2>2. relays' = relays
    BY <2>1 DEF relays
  <2> QED
    BY <2>1, <2>2 DEF Settled, Jobs
<1>3. CASE Return
  <2>1. pc' = "idle" /\ pc # "unbuilt" /\ executed' = {} /\ UNCHANGED <<g, lay>>
    BY <1>3 DEF Return, plan
  <2> QED
    BY <2>1 DEF Settled, Jobs
<1> QED
  BY <1>1, <1>2, <1>3

\* What Settled reads.
LEMMA SameSettled ==
  ASSUME Settled, UNCHANGED <<g, lay, executed, pc, layer, job, pos, flushed>> PROVE Settled'
<1>1. relays' = relays /\ SegDev' = SegDev /\ NLayers(g)' = NLayers(g)
  BY DEF relays, SegDev
<1>2. /\ \A L : (Ran(L)' <=> Ran(L)) /\ (Headed(L)' <=> Headed(L))
  BY <1>1 DEF Ran, Headed
<1>3. InJob => InJob'
  <2> SUFFICES ASSUME InJob PROVE InJob'
    OBVIOUS
  <2>1. /\ (HeadJob \/ PairJob \/ TailJob)'
        /\ \A r : (Due(r)' <=> Due(r)) /\ (Ahead(r)' <=> Ahead(r))
    BY SameJob DEF InJob
  <2> QED
    BY <1>1, <2>1 DEF InJob
<1>4. Ran(layer)' <=> Ran(layer)
  BY <1>1 DEF Ran
<1>5. Headed(layer)' <=> Headed(layer)
  BY <1>1 DEF Headed
<1> QED
  BY <1>1, <1>3, <1>4, <1>5 DEF Settled

\* Every step keeps Settled.
LEMMA SettledStep == ASSUME Shaped, Settled, [Next]_vars PROVE Settled'
<1>1. pc # "unbuilt" => Listed
  BY ListFacts DEF Settled
<1>2. CASE Start
  <2>1. /\ pc \in {"built", "idle"} /\ UNCHANGED <<g, lay>> /\ executed' = {} /\ layer' = 1 /\ BeginHead(1)
    BY <1>2 DEF Start, plan
  <2>2. Listed /\ 1 \in 1..NLayers(g) /\ NLayers(g)' = NLayers(g)
    BY <1>1, <2>1 DEF Listed
  <2>3. \A r \in relays : ~(r.layer < 1)
    BY <2>2 DEF Listed
  <2>4. /\ pc' \in {"incoming", "closure"}
        /\ pc' = "incoming" => InJob'
        /\ pc' = "closure" => Ran(layer)' /\ Headed(layer)'
    BY <2>1, <2>2, <2>3, HeadBegins
  <2> QED
    BY <2>1, <2>2, <2>4 DEF Settled, Jobs
<1>3. CASE SegIncoming
  <2>1. pc = "incoming" /\ pc' = "flush" /\ UNCHANGED <<g, lay, layer>>
    BY <1>3 DEF SegIncoming, plan
  <2>2. InJob' /\ executed' \subseteq relays'
    BY <1>1, <1>3, <2>1, IncomingStep
  <2> QED
    BY <2>1, <2>2 DEF Settled, Jobs
<1>4. CASE SegFlush
  <2>1. pc = "flush" /\ pc' = "boundary" /\ UNCHANGED <<g, lay, layer, executed>>
    BY <1>4 DEF SegFlush, plan
  <2>2. relays' = relays
    BY <2>1 DEF relays
  <2> QED
    BY <1>4, <2>1, <2>2, FlushStep DEF Settled, Jobs
<1>5. CASE SegBoundary
  <2>1. pc = "boundary" /\ UNCHANGED <<g, lay, layer>>
    BY <1>5 DEF SegBoundary, plan
  <2>2. /\ executed' \subseteq relays'
        /\ pc' \in {"incoming", "closure", "return"}
        /\ pc' = "incoming" => InJob'
        /\ pc' = "closure" => Ran(layer)' /\ Headed(layer)'
        /\ pc' = "return" => relays' \subseteq executed'
    BY <1>1, <1>5, <2>1, BoundaryStep
  <2> QED
    BY <2>1, <2>2 DEF Settled, Jobs
<1>6. CASE ClosureThenTail \/ \E h \in BOOLEAN : ClosureFused(h)
  <2>1. pc = "closure" /\ UNCHANGED <<g, lay>>
    BY <1>6 DEF ClosureThenTail, ClosureFused, plan
  <2>2. /\ executed' \subseteq relays' /\ layer' \in 1..NLayers(g)'
        /\ pc' \in {"incoming", "closure", "return"}
        /\ pc' = "incoming" => InJob'
        /\ pc' = "closure" => Ran(layer)' /\ Headed(layer)'
        /\ pc' = "return" => relays' \subseteq executed'
    BY <1>1, <1>6, <2>1, ClosureStep, FusedStep
  <2> QED
    BY <2>1, <2>2 DEF Settled, Jobs
<1>7. CASE \E D \in Devices : CopyLands(D)
  <2>1. UNCHANGED <<g, lay, executed, pc, layer, job, pos, flushed>>
    BY <1>7 DEF CopyLands, plan
  <2> QED
    BY <2>1, SameSettled
<1>8. CASE UNCHANGED vars
  BY <1>8, SameSettled DEF vars
<1> QED
  BY <1>2, <1>3, <1>4, <1>5, <1>6, <1>7, <1>8, IdleStep DEF Next

(* For every set of graphs whose nodes are placed as --dense-placement     *)
(* places them: when a call of graph_compute returns, each transfer that   *)
(* the build found was run by one of the five places that select relays,   *)
(* whatever the fusions it went through, and nothing else was.             *)
THEOREM TransfersAllRun ==
  ASSUME \A x \in Graphs : Placed(x) /\ Split(x)
  PROVE  Spec => []AllRelayed
<1>1. Shaped
  BY DEF Shaped
<1>2. Settled /\ [Next]_vars => Settled'
  BY <1>1, SettledStep
<1>3. Settled => AllRelayed
  BY DEF Settled, AllRelayed
<1> QED
  BY <1>2, <1>3, SettledInit, PTL DEF Spec
=============================================================================
