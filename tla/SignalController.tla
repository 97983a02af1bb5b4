-------------------------- MODULE SignalController --------------------------
(***************************************************************************)
(* The actuator of edge/src/signal_controller.cpp: the lamps of the two    *)
(* heads, and the 1 Hz square wave a flashing head derives from the start  *)
(* of its phase.  The "gpio" controller is not implemented by the code and *)
(* falls back to this one.                                                 *)
(***************************************************************************)
EXTENDS Integers, Phases

CONSTANT HalfPeriod   \* FLASH_HALF_PERIOD

VARIABLES
  current_phase,  \* state_.current_phase
  north_south,    \* state_.north_south
  east_west,      \* state_.east_west
  since           \* time since state_.phase_start, modulo the flash

lampVars == <<current_phase, north_south, east_west>>
vars == <<current_phase, north_south, east_west, since>>

Lamps == {"red", "yellow", "green", "left_arrow", "flashing"}
Head  == [Lamps -> BOOLEAN]

TypeOK ==
  /\ current_phase \in Phase
  /\ north_south \in Head
  /\ east_west \in Head
  /\ since \in 0..(2 * HalfPeriod - 1)

\* MUTANT: the reset forgets the protected arrows.
LitKeepingArrow(lamps, head) ==
  [l \in DOMAIN head |-> l \in lamps \/ (l = "left_arrow" /\ head[l])]
\* A head with exactly these lamps on, written over whatever it held.
Lit(lamps, head) == [l \in DOMAIN head |-> l \in lamps]

NSLamps(p) ==
  CASE p = "GREEN_NS"        -> {"green"}
    [] p = "GREEN_NS_LEFT"   -> {"left_arrow"}
    [] p = "YELLOW_NS"       -> {"yellow"}
    [] p = "FLASH_YELLOW_NS" -> {"yellow", "flashing"}
    [] IsFlash(p) /\ p # "FLASH_YELLOW_NS" -> {"red", "flashing"}
    [] OTHER                 -> {"red"}

EWLamps(p) ==
  CASE p = "GREEN_EW"        -> {"green"}
    [] p = "GREEN_EW_LEFT"   -> {"left_arrow"}
    [] p = "YELLOW_EW"       -> {"yellow"}
    [] p = "FLASH_YELLOW_EW" -> {"yellow", "flashing"}
    [] IsFlash(p) /\ p # "FLASH_YELLOW_EW" -> {"red", "flashing"}
    [] OTHER                 -> {"red"}

----------------------------------------------------------------------------

\* MUTANT: re-asserting the active phase restarts its timer.
SetPhaseAlways(p) ==
  /\ current_phase' = p
  /\ north_south' = Lit(NSLamps(p), north_south)
  /\ east_west' = Lit(EWLamps(p), east_west)
  /\ since' = 0

\* set_phase: the control loop re-applies the phase every tick, so the active
\* phase is left alone, timer included.
SetPhase(p) ==
  IF p = current_phase
    THEN UNCHANGED vars
    ELSE /\ current_phase' = p
         /\ north_south' = Lit(NSLamps(p), north_south)
         /\ east_west' = Lit(EWLamps(p), east_west)
         /\ since' = 0

SetEmergencyFlash ==
  /\ current_phase' = "FLASH_ALL_RED"
  /\ north_south' = Lit({"red", "flashing"}, north_south)
  /\ east_west' = Lit({"red", "flashing"}, east_west)
  /\ since' = 0

\* Time passes.
Frame ==
  /\ since' = (since + 1) % (2 * HalfPeriod)
  /\ UNCHANGED lampVars

FlashLampLit == since < HalfPeriod

\* get_signal_state: in the dark half a flashing head shows no lamp.
Visible(head) ==
  IF ~FlashLampLit /\ head["flashing"]
    THEN [head EXCEPT !["red"] = FALSE, !["yellow"] = FALSE, !["green"] = FALSE]
    ELSE head

----------------------------------------------------------------------------

\* The constructor flashes red before the first phase is applied.
Init ==
  /\ current_phase = "FLASH_ALL_RED"
  /\ north_south = [l \in Lamps |-> l \in {"red", "flashing"}]
  /\ east_west = [l \in Lamps |-> l \in {"red", "flashing"}]
  /\ since = 0

Next ==
  \/ \E p \in Phase : SetPhase(p)
  \/ SetEmergencyFlash
  \/ Frame

Spec == Init /\ [][Next]_vars

Permissive(head) == head["green"] \/ head["left_arrow"]
Restrictive(head) == head["red"] /\ ~Permissive(head) /\ ~head["yellow"]

\* An axis may be let through, warned or flashed yellow only against an axis that
\* is held by red and nothing else, whatever phase was shown before.
NoConflictingIndication ==
  \A one \in {<<north_south, east_west>>, <<east_west, north_south>>} :
    Permissive(one[1]) \/ one[1]["yellow"] => Restrictive(one[2])

=============================================================================
