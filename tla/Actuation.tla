----------------------------- MODULE Actuation -----------------------------
(***************************************************************************)
(* What one iteration of the control loop of edge/src/main.cpp does to the *)
(* street: it writes the validated phase to the heads and kicks the        *)
(* hardware dead-man, in this order, and at shutdown it drops the dead-man *)
(* before it flashes the heads.  The loop may die between any two steps,   *)
(* with its last phase on the lamps.                                       *)
(***************************************************************************)
EXTENDS Heartbeat, Phases

CONSTANT HalfPeriod   \* FLASH_HALF_PERIOD, in the unit of period

ASSUME ActuationAssumption == HalfPeriod \in Nat \ {0}

VARIABLES
  current_phase, north_south, east_west, since,   \* the signal controller
  turn    \* the next step of the loop: "apply", "kick", "flash" or "off"

Signals == INSTANCE SignalController

lampVars   == <<current_phase, north_south, east_west, since>>
streetVars == <<vars, lampVars, turn>>

----------------------------------------------------------------------------

ApplyPhase ==
  /\ running
  /\ turn = "apply"
  /\ turn' = "kick"
  /\ \E p \in Phase : Signals!SetPhase(p)
  /\ UNCHANGED vars

Kick ==
  /\ turn = "kick"
  /\ turn' = "apply"
  /\ KickAlive \/ KickDead
  /\ UNCHANGED lampVars

\* heartbeat->stop(), then set_emergency_flash().
DropPulse ==
  /\ turn = "apply"
  /\ turn' = "flash"
  /\ Stop
  /\ UNCHANGED lampVars

FlashHeads ==
  /\ turn = "flash"
  /\ turn' = "off"
  /\ Signals!SetEmergencyFlash
  /\ UNCHANGED vars

Die == Crash /\ UNCHANGED <<lampVars, turn>>

BreakLine == LineFails /\ UNCHANGED <<lampVars, turn>>

Pass == Tick /\ Signals!Frame /\ UNCHANGED turn

StreetInit == Init /\ Signals!Init /\ turn = "apply"

StreetNext ==
  ApplyPhase \/ Kick \/ DropPulse \/ FlashHeads \/ Die \/ BreakLine \/ Pass

\* A live loop gets to its next step, and time goes on.
StreetSpec ==
  /\ StreetInit
  /\ [][StreetNext]_streetVars
  /\ WF_streetVars(ApplyPhase \/ Kick \/ DropPulse \/ FlashHeads \/ Die)
  /\ SF_streetVars(Pass)

----------------------------------------------------------------------------

\* No axis is let through, warned or flashed yellow against an axis that is not
\* held by red, whatever phases were shown before.
NoConflictingIndication == Signals!NoConflictingIndication

\* The ~1 Hz flash is sustained (set_phase, signal_controller.cpp:21-26): a
\* pattern the loop re-asserts in every iteration keeps going dark and lit.
FlashKeepsBlinking ==
  \A f \in Flashes :
    <>[](current_phase = f)
      => /\ []<>(Signals!Visible(north_south) # north_south)
         /\ []<>(Signals!Visible(north_south) = north_south)

=============================================================================
