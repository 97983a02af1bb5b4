------------------------------ MODULE EdgeNode ------------------------------
(***************************************************************************)
(* The control loop of edge/src/main.cpp around the interlock and the      *)
(* actuator: one iteration drains the command verdicts, reads a frame,     *)
(* runs detection, validates the requested phase and drives the heads.     *)
(*                                                                         *)
(* Three independent sources ask for the fixed cycle -- the command guard, *)
(* the camera watchdog and the inference watchdog -- and each gives it     *)
(* back only if the two others agree.  The steps are separate because the  *)
(* two that block, read_frame() and detect(), let time pass between the    *)
(* moment the interlock is told of an emergency and the moment the heads   *)
(* follow.                                                                 *)
(*                                                                         *)
(* The guard is seen through its verdicts here: CommandIngestion models    *)
(* how it reaches them.  The requested phase is any phase the latch or the *)
(* local policy may produce.                                               *)
(***************************************************************************)
EXTENDS Integers, Phases

CONSTANTS
  Never, TimingChoices, MajorChoices, MAX_GREEN_S, ALL_RED_S,
  SanityGreenS, SanityYellowS,
  MaxBlock,        \* bound: most seconds one iteration of the loop may take
  MaxAge,          \* bound: where the elapsed-time counters saturate
  CameraTimeout    \* the camera watchdog, in seconds


VARIABLES
  \* the interlock; idle is also the time the current iteration has taken
  t, major, state, applied, target_green, target_valid, emergency, ring_idx,
  age, idle,
  \* the actuator
  current_phase, north_south, east_west,
  \* the loop
  pc,                \* the step of the iteration about to run
  in_fallback,       \* cmd_guard.in_fallback()
  is_camera_online,
  inference_online,
  last_frame,        \* last_frame_timer, in seconds
  shown_for          \* elapsed_since_phase_start() of the actuator

safetyVars == <<t, major, state, applied, target_green, target_valid, emergency,
                ring_idx, age, idle>>
headVars == <<current_phase, north_south, east_west>>
healthVars == <<in_fallback, is_camera_online, inference_online, last_frame>>
vars == <<safetyVars, headVars, healthVars, pc, shown_for>>

Safety == INSTANCE SafetyLayer WITH PollGap <- MaxBlock

\* The node builds its interlock within the interlock's own assumptions, with a
\* polling gap of one iteration.
ASSUME EdgeNodeAssumption ==
  /\ Never \notin Int
  /\ TimingChoices \subseteq Safety!Timings
  /\ MajorChoices \subseteq MajorApproach
  /\ {MAX_GREEN_S, ALL_RED_S, SanityGreenS, SanityYellowS} \subseteq Nat \ {0}
  /\ SanityGreenS <= MAX_GREEN_S
  /\ SanityYellowS <= MAX_GREEN_S
  /\ ALL_RED_S <= MAX_GREEN_S
  /\ {MaxBlock, CameraTimeout, MaxAge} \subseteq Nat
  /\ MaxAge > MAX_GREEN_S + MaxBlock

\* An iteration of the loop is shorter than the clearance the node was built with,
\* whenever that ends at all.  The code does not enforce it.
IterationsAreShort == t.all_red = Never \/ t.all_red > MaxBlock

\* The flash rhythm is left to the actuator's own module.
Controller == INSTANCE SignalController WITH since <- 0, HalfPeriod <- 1

TypeOK ==
  /\ Safety!TypeOK
  /\ Controller!TypeOK
  /\ pc \in {"drain", "read", "detect", "validate", "apply"}
  /\ in_fallback \in BOOLEAN
  /\ is_camera_online \in BOOLEAN
  /\ inference_online \in BOOLEAN
  /\ last_frame \in 0..(CameraTimeout + 1)
  /\ shown_for \in 0..MaxAge

Goto(step) == pc' = step
HeadsStay  == UNCHANGED <<headVars, shown_for>>

----------------------------------------------------------------------------
(* Step 0: the verdicts of the command guard.                              *)

\* exit_fallback_if_safe: a trusted Brain is not enough.
ExitFallbackIfSafe ==
  IF is_camera_online /\ inference_online
    THEN Safety!CallSetEmergencyMode(FALSE)
    ELSE UNCHANGED safetyVars

\* A rejected payload, or the silence timeout, makes the guard distrust the Brain.
EnterFallback ==
  /\ pc = "drain"
  /\ ~in_fallback
  /\ in_fallback' = TRUE
  /\ Safety!CallSetEmergencyMode(TRUE)
  /\ UNCHANGED <<is_camera_online, inference_online, last_frame, pc>>
  /\ HeadsStay

ExitFallback ==
  /\ pc = "drain"
  /\ in_fallback
  /\ in_fallback' = FALSE
  /\ ExitFallbackIfSafe
  /\ UNCHANGED <<is_camera_online, inference_online, last_frame, pc>>
  /\ HeadsStay

\* The queue is empty and the silence watchdog has had its say.
Drained ==
  /\ pc = "drain"
  /\ Goto("read")
  /\ UNCHANGED <<safetyVars, healthVars>>
  /\ HeadsStay

----------------------------------------------------------------------------
(* Step 1: read_frame().                                                   *)

\* MUTANT: a recovered camera ends the fixed cycle the Brain's silence asked for.
CameraMayRelease(trusted) == inference_online
\* Only when no other source holds the fixed cycle.
MayRelease(trusted) == trusted /\ inference_online

FrameRead ==
  /\ pc = "read"
  /\ Goto("detect")
  /\ last_frame' = 0
  /\ is_camera_online' = TRUE
  /\ IF ~is_camera_online /\ MayRelease(~in_fallback)
       THEN Safety!CallSetEmergencyMode(FALSE)
       ELSE UNCHANGED safetyVars
  /\ UNCHANGED <<in_fallback, inference_online>>
  /\ HeadsStay

NoFrame ==
  /\ pc = "read"
  /\ Goto("detect")
  /\ is_camera_online' = (is_camera_online /\ last_frame <= CameraTimeout)
  /\ IF is_camera_online /\ ~is_camera_online'
       THEN Safety!CallSetEmergencyMode(TRUE)
       ELSE UNCHANGED safetyVars
  /\ UNCHANGED <<in_fallback, inference_online, last_frame>>
  /\ HeadsStay

----------------------------------------------------------------------------
(* Step 2: detect(), skipped while the camera is offline.                  *)

SkipDetection ==
  /\ pc = "detect"
  /\ ~is_camera_online
  /\ Goto("validate")
  /\ UNCHANGED <<safetyVars, healthVars>>
  /\ HeadsStay

InferenceFault ==
  /\ pc = "detect"
  /\ is_camera_online
  /\ Goto("validate")
  /\ inference_online' = FALSE
  /\ IF inference_online THEN Safety!CallSetEmergencyMode(TRUE)
                         ELSE UNCHANGED safetyVars
  /\ UNCHANGED <<in_fallback, is_camera_online, last_frame>>
  /\ HeadsStay

Inferred ==
  /\ pc = "detect"
  /\ is_camera_online
  /\ Goto("validate")
  /\ inference_online' = TRUE
  /\ IF ~inference_online /\ ~in_fallback
       THEN Safety!CallSetEmergencyMode(FALSE)
       ELSE UNCHANGED safetyVars
  /\ UNCHANGED <<in_fallback, is_camera_online, last_frame>>
  /\ HeadsStay

----------------------------------------------------------------------------
(* Steps 5 to 7: the request, the verdict of the interlock, the heads.     *)

Decide(desired) ==
  /\ pc = "validate"
  /\ ~is_camera_online => desired = "GREEN_NS"
  /\ Goto("apply")
  /\ Safety!Validate(desired)
  /\ UNCHANGED healthVars
  /\ HeadsStay

\* MUTANT: the heads are driven only while the camera is online.
ApplyWhenOnline ==
  /\ pc = "apply"
  /\ Goto("drain")
  /\ IF is_camera_online
       THEN /\ Controller!SetPhase(applied)
            /\ shown_for' = IF applied = current_phase THEN shown_for ELSE 0
       ELSE HeadsStay
  /\ UNCHANGED <<safetyVars, healthVars>>
\* set_phase(safe.phase), whatever the health of the sensors.
Apply ==
  /\ pc = "apply"
  /\ Goto("drain")
  /\ Controller!SetPhase(applied)
  /\ shown_for' = IF applied = current_phase THEN shown_for ELSE 0
  /\ UNCHANGED <<safetyVars, healthVars>>

\* Time passes while the loop waits for a frame or for the detector.
Tick ==
  /\ pc \in {"read", "detect"}
  /\ Safety!Tick
  /\ last_frame' = IF last_frame <= CameraTimeout THEN last_frame + 1 ELSE last_frame
  /\ shown_for' = IF shown_for < MaxAge THEN shown_for + 1 ELSE shown_for
  /\ UNCHANGED <<headVars, in_fallback, is_camera_online, inference_online, pc>>

----------------------------------------------------------------------------

Init ==
  /\ Safety!Init
  /\ Controller!Init
  /\ pc = "drain"
  /\ in_fallback = FALSE
  /\ is_camera_online = TRUE
  /\ inference_online = TRUE
  /\ last_frame = 0
  /\ shown_for = 0

Loop ==
  \/ EnterFallback \/ ExitFallback \/ Drained
  \/ FrameRead \/ NoFrame
  \/ SkipDetection \/ InferenceFault \/ Inferred
  \/ \E desired \in OperationalPhases : Decide(desired)
  \/ Apply

Next == Loop \/ Tick

\* The loop never stops: the queue is drained, a blocked call returns within
\* MaxBlock, and time passes.
Fairness ==
  /\ WF_vars(Drained)
  /\ WF_vars(FrameRead \/ NoFrame)
  /\ WF_vars(SkipDetection \/ InferenceFault \/ Inferred)
  /\ WF_vars(\E desired \in OperationalPhases : Decide(desired))
  /\ WF_vars(Apply)
  /\ SF_vars(Tick)

Spec == Init /\ [][Next]_vars
FairSpec == Spec /\ Fairness

----------------------------------------------------------------------------
(* Safety. *)

\* The fixed cycle is engaged exactly while some source asks for it: no order of
\* failures and recoveries leaves the Brain in control of a blind node, or the
\* node stuck in the fixed cycle with everything healthy.
ModeAgreement ==
  state \notin Safety!FlashStates =>
    (emergency <=> in_fallback \/ ~is_camera_online \/ ~inference_online)

\* The heads freeze no more than the interlock does, although they follow it an
\* iteration later and its clock restarts with every toggle of the mode: an amber is
\* gone from the street within the ceiling and one iteration, however long iterations
\* are, and so is a green while they are short -- else a toggle and the whole all-red
\* may pass unseen between two applications, which keeps the green.  Interlock,
\* controller and loop stay well typed.
HeadsNotFrozen ==
  /\ TypeOK
  /\ IsYellow(current_phase) \/ (IsGreen(current_phase) /\ IterationsAreShort)
       => shown_for < MAX_GREEN_S + MaxBlock

\* What the drivers see.  The heads follow the interlock a blocked call later, so
\* of the all-red they keep at least the clearance less one iteration.
Aspect(through, left, amber, flash) ==
  CASE current_phase = through -> "through"
    [] current_phase = left    -> "left"
    [] current_phase = amber   -> "amber"
    [] current_phase = flash   -> "flash_yellow"
    [] IsFlash(current_phase) /\ current_phase # flash -> "flash_red"
    [] OTHER -> "red"

Heads == INSTANCE Intersection WITH
  MaxRed    <- MaxAge,
  ns        <- Aspect("GREEN_NS", "GREEN_NS_LEFT", "YELLOW_NS", "FLASH_YELLOW_NS"),
  ew        <- Aspect("GREEN_EW", "GREEN_EW_LEFT", "YELLOW_EW", "FLASH_YELLOW_EW"),
  red_for   <- IF current_phase = "ALL_RED" THEN shown_for ELSE 0,
  clearance <- t.all_red - MaxBlock

\* While iterations are short: after the boot flash, every change of the heads is one
\* the promise allows.
HeadsKeepPromise ==
  [][IterationsAreShort /\ current_phase # "FLASH_ALL_RED"
       => [Heads!Next]_(Heads!promise)]_vars

\* safety_layer.hpp:50-53 for the lamps themselves: a green never becomes another
\* green directly.
HeadsNeverJump ==
  [][IsGreen(current_phase) /\ current_phase' # current_phase
       => ~IsGreen(current_phase')]_vars

----------------------------------------------------------------------------
(* Liveness. *)

\* C-4 at the heads: while some source keeps asking for the fixed cycle, both
\* approaches are served over and over, whichever sources come and go meanwhile.
OutageServesEveryApproach ==
  <>[](in_fallback \/ ~is_camera_online \/ ~inference_online)
    => []<>(current_phase = "GREEN_NS") /\ []<>(current_phase = "GREEN_EW")

=============================================================================
