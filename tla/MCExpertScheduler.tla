------------------------- MODULE MCExpertScheduler -------------------------
(* Small instances of ExpertScheduler for TLC.                             *)
EXTENDS PinRefinement, TLC

\* Slots of one pool, and ring elements, are interchangeable.
Symmetry == Permutations(RamSlots) \cup Permutations(DevSlots) \cup Permutations(Elems)
=============================================================================
