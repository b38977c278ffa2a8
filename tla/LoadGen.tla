------------------------------ MODULE LoadGen ------------------------------
(***************************************************************************)
(* What the load-generation kernel promises, whatever the scheduler        *)
(* (spec.md 2 and 4.4): requests are issued only while stop is not        *)
(* asserted; each issued request is resolved once, as an observation or,  *)
(* once stop is asserted, as a dropped response; stop, once asserted,      *)
(* stays asserted.  The counts are all the abstraction keeps.              *)
(***************************************************************************)
EXTENDS Naturals

VARIABLES
  issued,    \* requests begun
  inFlight,  \* requests begun and not yet resolved
  observed,  \* observations recorded
  dropped,   \* responses resolved without an observation
  stopped    \* the stop broadcast has been asserted

avars == <<issued, inFlight, observed, dropped, stopped>>

Init ==
  /\ issued = 0 /\ inFlight = 0 /\ observed = 0 /\ dropped = 0
  /\ stopped = FALSE

Issue ==
  /\ ~stopped
  /\ issued' = issued + 1
  /\ inFlight' = inFlight + 1
  /\ UNCHANGED <<observed, dropped, stopped>>

Observe ==
  /\ inFlight > 0
  /\ inFlight' = inFlight - 1
  /\ observed' = observed + 1
  /\ UNCHANGED <<issued, dropped, stopped>>

Drop ==
  /\ stopped
  /\ inFlight > 0
  /\ inFlight' = inFlight - 1
  /\ dropped' = dropped + 1
  /\ UNCHANGED <<issued, observed, stopped>>

Stop ==
  /\ stopped' = TRUE
  /\ UNCHANGED <<issued, inFlight, observed, dropped>>

Resolve == Observe \/ Drop

Next == Issue \/ Resolve \/ Stop

(* Safety only: nothing is promised about progress.                        *)
SafetySpec == Init /\ [][Next]_avars

(* Every request in flight is eventually resolved.                         *)
Spec == SafetySpec /\ WF_avars(Resolve)

=============================================================================
