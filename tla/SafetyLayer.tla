---------------------------- MODULE SafetyLayer ----------------------------
(***************************************************************************)
(* The self-timed interlock of edge/src/safety_layer.cpp: the single       *)
(* source of truth for what the signal heads show.                         *)
(*                                                                         *)
(* One action per public operation -- validate, set_emergency_mode, reset  *)
(* -- each atomic because the class holds its mutex for the whole call,    *)
(* and one action for the monotonic clock the class reads.  The reason     *)
(* strings, the remaining_s countdown and stuck_phase_ feed the log only   *)
(* and are left out.                                                       *)
(*                                                                         *)
(* Time is counted in seconds.  A duration of the Timings struct is an     *)
(* integer or Never, which stands for the NaN and infinity that a corrupt  *)
(* configuration may hold: no elapsed time is >= Never.                    *)
(***************************************************************************)
EXTENDS Integers, Phases

CONSTANTS
  Never,             \* a NaN or infinite duration
  TimingChoices,     \* the Timings the layer may be built with
  MajorChoices,      \* the major approaches the layer may be built with
  MAX_GREEN_S,       \* system-wide green ceiling, also the trust bound
  ALL_RED_S,         \* compile-time default of the clearance
  SanityGreenS,      \* kEmergencyScheduleSanityTimeoutMs, in seconds
  SanityYellowS,     \* kEmergencyYellowSanityTimeoutMs, in seconds
  PollGap,           \* bound: most seconds between two validate() calls
  MaxAge             \* bound: where the elapsed-time counter saturates

Duration == Int \cup {Never}

Timings == [min_green : Duration, yellow : Duration, all_red : Duration,
            max_green : Duration, emergency_green : Duration]

\* The two static_asserts, the default clearance, and a saturation point that
\* lies beyond every threshold of the layer.
ASSUME SafetyLayerAssumption ==
  /\ Never \notin Int
  /\ TimingChoices \subseteq Timings
  /\ MajorChoices \subseteq MajorApproach
  /\ {MAX_GREEN_S, ALL_RED_S, SanityGreenS, SanityYellowS} \subseteq Nat \ {0}
  /\ SanityGreenS <= MAX_GREEN_S
  /\ SanityYellowS <= MAX_GREEN_S
  /\ ALL_RED_S <= MAX_GREEN_S
  /\ PollGap \in Nat
  /\ MaxAge \in Nat
  /\ MaxAge > MAX_GREEN_S + PollGap

VARIABLES
  t,             \* t_: the timing budget, fixed at construction
  major,         \* major_: the corridor's main axis, fixed at construction
  state,         \* state_
  applied,       \* applied_: the phase shown on the heads
  target_green,  \* target_green_
  target_valid,  \* target_valid_
  emergency,     \* emergency_
  ring_idx,      \* ring_idx_
  age,           \* now - phase_start_
  idle           \* seconds since the control loop last called validate()

config == <<t, major>>
vars == <<t, major, state, applied, target_green, target_valid, emergency,
          ring_idx, age, idle>>

FlashStates == {"FLASH_CLEARANCE", "FLASH"}
States == {"GREEN", "YELLOW", "ALL_RED", "EMERGENCY"} \cup FlashStates

\* C-4: the data-independent emergency ring, index 0 first.
kEmergencyRing ==
  [i \in 0..5 |-> CASE i = 1 -> "GREEN_NS"
                    [] i = 2 -> "YELLOW_NS"
                    [] i = 4 -> "GREEN_EW"
                    [] i = 5 -> "YELLOW_EW"
                    [] OTHER -> "ALL_RED"]

TypeOK ==
  /\ t \in TimingChoices
  /\ major \in MajorChoices
  /\ state \in States
  /\ applied \in Phase
  /\ target_green \in Greens
  /\ target_valid \in BOOLEAN
  /\ emergency \in BOOLEAN
  /\ ring_idx \in DOMAIN kEmergencyRing
  /\ age \in 0..MaxAge
  /\ idle \in 0..PollGap

----------------------------------------------------------------------------
(* Time helpers. *)

Elapsed(d) == d # Never /\ age >= d

\* MUTANT: the upper bound of the trust check forgotten.
TrustedWithoutCeiling(d) == d # Never /\ d >= 0
\* schedule_trusted: finite, not negative, within the system-wide ceiling.
Trusted(d) == d # Never /\ d >= 0 /\ d <= MAX_GREEN_S

RingDuration(p) ==
  CASE IsGreen(p)  -> t.emergency_green
    [] IsYellow(p) -> t.yellow
    [] OTHER       -> t.all_red

\* The clearance before FLASH never depends on an untrusted duration.
FlashClearance ==
  IF Trusted(t.all_red) /\ t.all_red # 0 THEN t.all_red ELSE ALL_RED_S

\* How long the watchdogs wait for a phase whose schedule is not trusted.
SanityTimeout(p) == IF IsYellow(p) THEN SanityYellowS ELSE SanityGreenS

----------------------------------------------------------------------------
(* What a step does to the heads. *)

Show(s, p) ==
  /\ state' = s
  /\ applied' = p
  /\ age' = 0

HoldPhase == UNCHANGED <<state, applied, age>>

KeepTarget == UNCHANGED <<target_green, target_valid>>
KeepMode   == UNCHANGED <<emergency, ring_idx>>

EnterFlashClearance ==
  /\ Show("FLASH_CLEARANCE", "ALL_RED")
  /\ KeepTarget
  /\ KeepMode

BeginYellow(green) ==
  /\ Show("YELLOW", YellowFor(applied))
  /\ target_green' = green
  /\ target_valid' = TRUE
  /\ KeepMode

----------------------------------------------------------------------------
(* step_normal: the AI-driven interlock, one operator per case of state_.  *)

\* Only a green request moves a green.
Want(desired) == IF IsGreen(desired) THEN desired ELSE applied

\* A-1 goes where the request points, else to the opposite axis.
WatchdogTarget(desired) ==
  IF Want(desired) # applied THEN Want(desired) ELSE OppositeGreen(applied)

NormalGreen(desired) ==
  /\ state = "GREEN"
  /\ LET corrupt == ~Trusted(t.max_green) /\ age >= MAX_GREEN_S
         switch  == Want(desired) # applied /\ Elapsed(t.min_green)
     IN  \/ corrupt /\ EnterFlashClearance
         \/ ~corrupt /\ Elapsed(t.max_green) /\ BeginYellow(WatchdogTarget(desired))
         \/ ~corrupt /\ ~Elapsed(t.max_green) /\ switch /\ BeginYellow(Want(desired))
         \/ /\ ~corrupt /\ ~Elapsed(t.max_green) /\ ~switch
            /\ HoldPhase /\ KeepTarget /\ KeepMode

NormalYellow ==
  /\ state = "YELLOW"
  /\ LET corrupt == ~Trusted(t.yellow) /\ age >= SanityYellowS
     IN  \/ corrupt /\ EnterFlashClearance
         \/ /\ ~corrupt /\ Elapsed(t.yellow)
            /\ Show("ALL_RED", "ALL_RED") /\ KeepTarget /\ KeepMode
         \/ /\ ~corrupt /\ ~Elapsed(t.yellow)
            /\ HoldPhase /\ KeepTarget /\ KeepMode

\* MUTANT: a green request retargets a clearance already under way.
AcceptsAnyGreen(desired) == IsGreen(desired)
\* A target is accepted only when none is committed; a committed one is locked.
AcceptsTarget(desired) == ~target_valid /\ IsGreen(desired)

NormalAllRed(desired) ==
  /\ state = "ALL_RED"
  /\ LET corrupt == ~Trusted(t.all_red) /\ age >= SanityGreenS
         commit  == AcceptsTarget(desired)
     IN  \/ corrupt /\ EnterFlashClearance
         \/ /\ ~corrupt
            /\ target_green' = IF commit THEN desired ELSE target_green
            /\ target_valid' = (target_valid \/ commit)
            /\ IF Elapsed(t.all_red) /\ target_valid'
                 THEN Show("GREEN", target_green')
                 ELSE HoldPhase
            /\ KeepMode

StepNormal(desired) ==
  /\ ~emergency
  /\ NormalGreen(desired) \/ NormalYellow \/ NormalAllRed(desired)

----------------------------------------------------------------------------
(* step_emergency: one lap serves both axes, whatever is requested.        *)

\* MUTANT: a ring phase is declared stuck by its age alone, trusted or not.
RingStuckByAge == age >= SanityTimeout(kEmergencyRing[ring_idx])
\* MUTANT: the ring watchdog covers greens and ambers but not the all-red.
RingStuckExceptRed ==
  LET current == kEmergencyRing[ring_idx]
  IN  current # "ALL_RED" /\ ~Trusted(RingDuration(current))
        /\ age >= SanityTimeout(current)
\* E-5: the schedule of the current ring phase can never fire.
RingStuck ==
  LET current == kEmergencyRing[ring_idx]
  IN  ~Trusted(RingDuration(current)) /\ age >= SanityTimeout(current)

AdvanceRing ==
  /\ ring_idx' = (ring_idx + 1) % 6
  /\ Show(state, kEmergencyRing[ring_idx'])
  /\ KeepTarget
  /\ UNCHANGED emergency

StepEmergency ==
  /\ emergency
  /\ state \notin FlashStates
  /\ LET due == Elapsed(RingDuration(kEmergencyRing[ring_idx]))
     IN  \/ due /\ AdvanceRing
         \/ ~due /\ RingStuck /\ EnterFlashClearance
         \/ ~due /\ ~RingStuck /\ HoldPhase /\ KeepTarget /\ KeepMode

(* step_flash: clearance, then the terminal pattern. *)
StepFlash ==
  /\ state \in FlashStates
  /\ KeepTarget
  /\ KeepMode
  /\ IF state = "FLASH_CLEARANCE" /\ age >= FlashClearance
       THEN Show("FLASH", FlashPhaseFor(major))
       ELSE HoldPhase

----------------------------------------------------------------------------
(* The public operations and the clock. *)

Validate(desired) ==
  /\ StepFlash \/ StepEmergency \/ StepNormal(desired)
  /\ idle' = 0
  /\ UNCHANGED config

\* MUTANT: emergency entered without blanking the heads to ALL_RED.
EnterRingAtGreen ==
  /\ ring_idx' = 1
  /\ Show("EMERGENCY", kEmergencyRing[1])
  /\ KeepTarget
\* Entering the ring starts at its clearance, whatever was shown before.
EnterRing ==
  /\ ring_idx' = 0
  /\ Show("EMERGENCY", kEmergencyRing[0])
  /\ KeepTarget

LeaveRing ==
  /\ Show("ALL_RED", "ALL_RED")
  /\ target_valid' = FALSE
  /\ UNCHANGED <<target_green, ring_idx>>

\* MUTANT: a repeated request starts the ring over.
SetEmergencyModeEveryCall(on) ==
  /\ state \notin FlashStates
  /\ emergency' = on
  /\ IF on THEN EnterRing ELSE LeaveRing
  /\ UNCHANGED <<config, idle>>
\* The toggle acts on the edge only.
SetEmergencyMode(on) ==
  /\ state \notin FlashStates
  /\ on # emergency
  /\ emergency' = on
  /\ IF on THEN EnterRing ELSE LeaveRing
  /\ UNCHANGED <<config, idle>>

\* Terminal flash outranks the toggle, and a repeated toggle is no toggle: a
\* call then returns without effect.
SetEmergencyModeIgnored(on) ==
  /\ state \in FlashStates \/ on = emergency
  /\ UNCHANGED vars

CallSetEmergencyMode(on) == SetEmergencyMode(on) \/ SetEmergencyModeIgnored(on)

Reset ==
  /\ Show("ALL_RED", "ALL_RED")
  /\ target_valid' = FALSE
  /\ emergency' = FALSE
  /\ ring_idx' = 0
  /\ UNCHANGED <<config, target_green, idle>>

\* The monotonic clock.  The control loop polls at least every PollGap.
Tick ==
  /\ idle < PollGap
  /\ idle' = idle + 1
  /\ age' = IF age < MaxAge THEN age + 1 ELSE age
  /\ UNCHANGED <<config, state, applied, target_green, target_valid,
                 emergency, ring_idx>>

----------------------------------------------------------------------------

Init ==
  /\ t \in TimingChoices
  /\ major \in MajorChoices
  /\ state = "ALL_RED"
  /\ applied = "ALL_RED"
  /\ target_green = "GREEN_NS"
  /\ target_valid = FALSE
  /\ emergency = FALSE
  /\ ring_idx = 0
  /\ age = 0
  /\ idle = 0

Next ==
  \/ \E desired \in OperationalPhases : Validate(desired)
  \/ \E on \in BOOLEAN : SetEmergencyMode(on)
  \/ Reset
  \/ Tick

\* The control loop never stops calling validate() and the clock never stops;
\* nobody has to touch the emergency toggle or the reset.
Fairness ==
  /\ WF_vars(\E desired \in OperationalPhases : Validate(desired))
  /\ WF_vars(Tick)

Spec == Init /\ [][Next]_vars
FairSpec == Spec /\ Fairness

----------------------------------------------------------------------------
(* Safety. *)

SaneNormal    == Trusted(t.yellow) /\ Trusted(t.all_red) /\ Trusted(t.max_green)
SaneEmergency == Trusted(t.yellow) /\ Trusted(t.all_red) /\ Trusted(t.emergency_green)

\* Waiting in red for the first request; the one phase with no time limit.
Resting == state = "ALL_RED" /\ ~target_valid /\ Trusted(t.all_red)

\* No schedule, however corrupt, freezes a phase: whatever is shown is gone
\* within MAX_GREEN_S and one polling interval (A-1, E-5 and the guards of
\* step_normal), unless it is the terminal flash or the rest in red; and the layer
\* stays well typed.
NoFrozenPhase ==
  /\ TypeOK
  /\ state = "FLASH" \/ Resting \/ age < MAX_GREEN_S + PollGap

\* The flash path is entered only for the fault it exists for: a layer whose
\* five durations are trusted never flashes, at any age, in any mode.
FlashOnlyIfCorrupt ==
  state \in FlashStates => ~(SaneNormal /\ SaneEmergency)

\* C-3 and F-1 as the drivers see them.  The aspect of one axis:
Aspect(through, left, amber, flash) ==
  CASE applied = through -> "through"
    [] applied = left    -> "left"
    [] applied = amber   -> "amber"
    [] applied = flash   -> "flash_yellow"
    [] IsFlash(applied) /\ applied # flash -> "flash_red"
    [] OTHER -> "red"

Promise == INSTANCE Intersection WITH
  MaxRed    <- MaxAge,
  ns        <- Aspect("GREEN_NS", "GREEN_NS_LEFT", "YELLOW_NS", "FLASH_YELLOW_NS"),
  ew        <- Aspect("GREEN_EW", "GREEN_EW_LEFT", "YELLOW_EW", "FLASH_YELLOW_EW"),
  red_for   <- IF applied = "ALL_RED" THEN age ELSE 0,
  clearance <- t.all_red

\* Every step of the interlock -- AI-driven, emergency ring, corruption guard,
\* emergency toggle, reset -- is a step the promise allows.
KeepsPromise == Promise!Spec

\* The destination of a transition is locked (step_normal, YELLOW and ALL_RED):
\* between its amber and its green no request of the Brain can retarget it.
TargetLocked ==
  [][target_valid /\ state \in {"YELLOW", "ALL_RED"} /\ ~emergency'
       => \/ UNCHANGED <<target_green, target_valid>>
          \/ ~target_valid' /\ state' = "ALL_RED" /\ age' = 0]_vars

----------------------------------------------------------------------------
(* Liveness. *)

\* C-4: while the fixed cycle stays engaged it serves both approaches over and
\* over, whatever is requested meanwhile.
RingServesEveryApproach ==
  <>[](emergency /\ SaneEmergency)
    => []<>(applied = "GREEN_NS") /\ []<>(applied = "GREEN_EW")

\* A committed green is reached, or the corruption guard, the fixed cycle or a
\* reset takes over.
CommittedGreenServed ==
  \A g \in Greens :
    (state = "YELLOW" /\ target_green = g)
      ~> (applied = g \/ emergency \/ state \in FlashStates \/ ~target_valid)

\* E-5: a fixed cycle that stays engaged on a schedule it cannot trust ends in
\* the terminal flash.
CorruptRingEndsInFlash ==
  <>[](emergency /\ \E d \in {t.emergency_green, t.yellow, t.all_red} :
                      d = Never \/ d > MAX_GREEN_S)
    => <>[](state = "FLASH")

=============================================================================
