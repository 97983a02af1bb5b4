--------------------------- MODULE MCSafetyClaims ---------------------------
(***************************************************************************)
(* A statement of the class comment of safety_layer.hpp that the code does *)
(* not keep, with an observer of what the heads showed.                    *)
(***************************************************************************)
EXTENDS MCSafetyLayer

VARIABLES
  last,   \* the last green shown, "none" before the first
  since   \* the phases shown since

ClaimInit == Init /\ last = "none" /\ since = {}

\* The control loop never calls reset().
ClaimNext ==
  /\ \/ \E desired \in OperationalPhases : Validate(desired)
     \/ \E on \in BOOLEAN : SetEmergencyMode(on)
     \/ Tick
  /\ last' = IF IsGreen(applied') THEN applied' ELSE last
  /\ since' = IF IsGreen(applied') THEN {} ELSE since \cup {applied'}

ClaimSpec == ClaimInit /\ [][ClaimNext]_<<vars, last, since>>

\* safety_layer.hpp:50-53, C-3: the transition between any two different greens
\* is mediated by the amber of the first and by ALL_RED.
GreensMediatedByAmber ==
  [][IsGreen(applied') /\ last \notin {"none", applied'}
       => {YellowFor(last), "ALL_RED"} \subseteq since]_<<vars, last, since>>

=============================================================================
