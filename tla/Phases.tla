------------------------------- MODULE Phases -------------------------------
(***************************************************************************)
(* The phases of a four-way intersection and the pure classification       *)
(* helpers that the interlock, the signal controller and the control loop  *)
(* share: enum Phase of edge/include/semaforo/policy_engine.hpp and the    *)
(* static members of SafetyLayer in edge/include/semaforo/safety_layer.hpp.*)
(***************************************************************************)

Greens  == {"GREEN_NS", "GREEN_EW", "GREEN_NS_LEFT", "GREEN_EW_LEFT"}
Yellows == {"YELLOW_NS", "YELLOW_EW"}
Flashes == {"FLASH_YELLOW_NS", "FLASH_YELLOW_EW", "FLASH_ALL_RED"}

\* What the parser's whitelist lets the Brain ask for: every phase but FLASH_*.
OperationalPhases == {"ALL_RED"} \cup Greens \cup Yellows

Phase == OperationalPhases \cup Flashes

IsGreen(p)  == p \in Greens
IsYellow(p) == p \in Yellows
IsFlash(p)  == p \in Flashes

IsNS(p) == p \in {"GREEN_NS", "GREEN_NS_LEFT", "YELLOW_NS"}
IsEW(p) == p \in {"GREEN_EW", "GREEN_EW_LEFT", "YELLOW_EW"}

\* The amber that must follow a green, and the through green of the other axis.
YellowFor(green)     == IF IsNS(green) THEN "YELLOW_NS" ELSE "YELLOW_EW"
OppositeGreen(green) == IF IsNS(green) THEN "GREEN_EW" ELSE "GREEN_NS"

MajorApproach == {"NS", "EW", "UNKNOWN"}

\* The only producer of flash phases.
FlashPhaseFor(m) ==
  CASE m = "NS" -> "FLASH_YELLOW_NS"
    [] m = "EW" -> "FLASH_YELLOW_EW"
    [] OTHER    -> "FLASH_ALL_RED"

=============================================================================
