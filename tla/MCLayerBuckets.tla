--------------------------- MODULE MCLayerBuckets ---------------------------
(* Model values for LayerBuckets: three experts, three pools. *)
EXTENDS LayerBuckets, TLC

\* Routes of a token, its slots counted from 0; together they give a pool
\* zero, one or two hits of a token.
Routes == {(0 :> 0 @@ 1 :> 1), (0 :> 1 @@ 1 :> 2), (0 :> 2 @@ 1 :> 0)}

\* Decode (one token) and a batch whose active tokens need not be adjacent.
Ids == [0 .. 0 -> Routes] \cup [0 .. 3 -> Routes]

\* All experts in RAM, all on one device, spread, and a device with a RAM
\* share; with and without a device context; moe_out and the tail on the
\* host or on a device.
Place(pools, ctx, outDev, tailDev) ==
  [pools |-> pools, ctx |-> ctx, outDev |-> outDev, tailDev |-> tailDev]
AllRam   == [e \in 0 .. 2 |-> 0]
AllDev   == [e \in 0 .. 2 |-> 1]
TwoDevs  == (0 :> 1 @@ 1 :> 1 @@ 2 :> 2)
RamDev   == (0 :> 0 @@ 1 :> 1 @@ 2 :> 1)
Spread   == (0 :> 0 @@ 1 :> 1 @@ 2 :> 2)
Placements ==
  { Place(AllRam, {1, 2}, 0, 0), Place(AllRam, {1, 2}, 1, 1),
    Place(AllDev, {1, 2}, 0, 0), Place(AllDev, {1, 2}, 1, 1),
    Place(AllDev, {1, 2}, 2, 2), Place(AllDev, {}, 0, 0),
    Place(TwoDevs, {1, 2}, 0, 0), Place(TwoDevs, {1, 2}, 1, 1),
    Place(TwoDevs, {1}, 1, 1),
    Place(RamDev, {1, 2}, 1, 1), Place(Spread, {1, 2}, 0, 0) }

MCInputs ==
  {[ids |-> i, pools |-> p.pools, ctx |-> p.ctx, outDev |-> p.outDev, tailDev |-> p.tailDev]
     : i \in Ids, p \in Placements}
=============================================================================
