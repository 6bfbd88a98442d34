----------------------------- MODULE PinService -----------------------------
(***************************************************************************)
(* What expert_scheduler promises the exec thread, without slots, reads,   *)
(* moves or a scheduler thread: exec asks for a set of experts and gets    *)
(* all of them, resident and held until it releases them, or none.         *)
(*                                                                         *)
(* ExpertScheduler implements this specification; PinRefinement gives the  *)
(* mapping.                                                                *)
(***************************************************************************)
CONSTANT Keys   \* the experts of the group

VARIABLES
  phase,     \* idle, pending, refused or holding
  want,      \* the experts of the current call of pin_layer
  resident,  \* experts with a copy that can be pinned
  held       \* experts pinned for exec

vars == <<phase, want, resident, held>>

Init == phase = "idle" /\ want = {} /\ resident = {} /\ held = {}

\* exec calls pin_layer.
Ask ==
  /\ phase = "idle" /\ phase' = "pending"
  /\ want' \in (SUBSET Keys) \ {{}}
  /\ UNCHANGED <<resident, held>>

\* Experts come and go, but a held one stays.
Cache ==
  /\ resident' \in SUBSET Keys /\ held \subseteq resident'
  /\ UNCHANGED <<phase, want, held>>

\* Resident experts are pinned for the pending call, one after the other or
\* several at once, some of them as they arrive.
Hold ==
  /\ phase = "pending"
  /\ resident' \in SUBSET Keys
  /\ held \subseteq held' /\ held' \subseteq want \cap resident'
  /\ UNCHANGED <<phase, want>>

\* The call returns with everything it asked for.
Grant ==
  /\ phase = "pending" /\ held = want
  /\ phase' = "holding"
  /\ UNCHANGED <<want, resident, held>>

\* The call is going to fail, and what is held is given back.
Refuse ==
  /\ phase = "pending" /\ phase' = "refused"
  /\ held' \subseteq held
  /\ UNCHANGED <<want, resident>>

\* A failed call, or the computation, ends: nothing stays held.
Return ==
  /\ phase \in {"refused", "holding"} /\ phase' = "idle"
  /\ held' = {}
  /\ UNCHANGED <<want, resident>>

Next == Ask \/ Cache \/ Hold \/ Grant \/ Refuse \/ Return

Spec == Init /\ [][Next]_vars
=============================================================================
