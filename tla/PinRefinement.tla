---------------------------- MODULE PinRefinement ----------------------------
(* ExpertScheduler implements PinService.                                  *)
EXTENDS ExpertScheduler

\* Keys a scan finds, and those among them whose slot is pinned.
Resident == {k \in Keys : scan(k) # None}
Held     == {k \in Resident : slot[scan(k)].rc > 0}

Phase ==
  CASE epc = "idle" -> "idle"
    [] epc = "compute" -> "holding"
    [] epc = "wait" /\ await.failed -> "refused"
    [] OTHER -> "pending"

Service == INSTANCE PinService WITH
             phase    <- Phase,
             want     <- {<<elayer, e>> : e \in needed},
             resident <- Resident,
             held     <- Held

\* pin_layer is all or nothing: it returns with every expert it was asked for
\* pinned, an expert stays resident for as long as it is held, and after a
\* failure and after the computation nothing stays pinned.
PinServiceSpec == Service!Spec
=============================================================================
