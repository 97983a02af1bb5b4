------------------------- MODULE SafetyLayerProofs -------------------------
(***************************************************************************)
(* Theorems about the interlock for every timing budget, every polling     *)
(* interval and every value of the ceilings that SafetyLayerAssumption     *)
(* allows.                                                                 *)
(***************************************************************************)
EXTENDS SafetyLayer, TLAPS

\* What state_ says about the phase on the heads and about the mode.
Shape ==
  /\ state = "GREEN" => IsGreen(applied)
  /\ state = "YELLOW" => IsYellow(applied) /\ target_valid
  /\ state \in {"ALL_RED", "FLASH_CLEARANCE"} => applied = "ALL_RED"
  /\ state = "FLASH" => applied \in Flashes
  /\ state = "EMERGENCY" => emergency /\ applied = kEmergencyRing[ring_idx]
  /\ emergency /\ state \notin FlashStates => state = "EMERGENCY"

\* When validate() last returned, the phase it left had not reached the ceiling.
FreshAtLastPoll ==
  state = "FLASH" \/ Resting \/ age < MAX_GREEN_S + idle

IInv == TypeOK /\ Shape /\ FreshAtLastPoll /\ FlashOnlyIfCorrupt

----------------------------------------------------------------------------
(* Facts about the constants and the helpers. *)

\* The ring shows no flash, and its phases carry the classes step_emergency
\* distinguishes.
LEMMA RingPhases ==
  \A i \in DOMAIN kEmergencyRing :
    kEmergencyRing[i] \in {"ALL_RED", "GREEN_NS", "YELLOW_NS", "GREEN_EW", "YELLOW_EW"}
BY DEF kEmergencyRing

\* The ring index stays within the table.
LEMMA RingIndex ==
  /\ DOMAIN kEmergencyRing = 0..5
  /\ \A i \in 0..5 : (i + 1) % 6 \in 0..5
BY DEF kEmergencyRing

\* A duration of the budget is an integer or Never.
LEMMA DurationType ==
  ASSUME TypeOK
  PROVE  /\ t.min_green \in Duration
         /\ t.yellow \in Duration
         /\ t.all_red \in Duration
         /\ t.max_green \in Duration
         /\ t.emergency_green \in Duration
BY SafetyLayerAssumption DEF TypeOK, Timings

\* A phase that its trusted schedule or its sanity timeout has not ended is
\* younger than the ceiling.
LEMMA BelowCeiling ==
  ASSUME NEW d \in Duration, NEW limit \in Nat, limit <= MAX_GREEN_S,
         age \in Nat,
         ~Elapsed(d),
         ~(~Trusted(d) /\ age >= limit)
  PROVE  age < MAX_GREEN_S
BY SafetyLayerAssumption DEF Elapsed, Trusted, Duration

\* The clearance before the flash is positive and below the ceiling.
LEMMA FlashClearanceBound ==
  ASSUME TypeOK
  PROVE  /\ FlashClearance \in Int
         /\ FlashClearance > 0
         /\ FlashClearance <= MAX_GREEN_S
BY DurationType, SafetyLayerAssumption DEF FlashClearance, Trusted, Duration

----------------------------------------------------------------------------
(* Type correctness and the inductive invariant. *)

\* The ceilings are positive integers and the polling gap a natural number.
LEMMA ConstantTypes ==
  /\ MAX_GREEN_S \in Nat /\ MAX_GREEN_S > 0
  /\ SanityGreenS \in Nat /\ SanityGreenS <= MAX_GREEN_S
  /\ SanityYellowS \in Nat /\ SanityYellowS <= MAX_GREEN_S
  /\ PollGap \in Nat
  /\ MaxAge \in Nat /\ MaxAge > MAX_GREEN_S + PollGap
BY SafetyLayerAssumption


\* The two halves of TypeOK.
FlagsOK == target_valid \in BOOLEAN /\ emergency \in BOOLEAN
DataOK ==
  /\ t \in TimingChoices
  /\ major \in MajorChoices
  /\ state \in States
  /\ applied \in Phase
  /\ target_green \in Greens
  /\ ring_idx \in 0..5
  /\ age \in 0..MaxAge
  /\ idle \in 0..PollGap

\* Together they are TypeOK.
LEMMA TypeOKHalves == TypeOK <=> FlagsOK /\ DataOK
BY RingIndex, Zenon DEF TypeOK, FlagsOK, DataOK

\* The boot state is well typed.
LEMMA InitTypeOK == Init => TypeOK
<1> SUFFICES ASSUME Init PROVE FlagsOK /\ DataOK
  BY TypeOKHalves
<1>1. FlagsOK
  BY Zenon DEF Init, FlagsOK
<1>2. DataOK
  BY ConstantTypes DEF Init, DataOK, States, Phase, OperationalPhases, Greens
<1> QED
  BY <1>1, <1>2

\* The three outcomes of a poll in red: the corruption guard, a green, a wait.
LEMMA AllRedMoves ==
  ASSUME NEW desired, NormalAllRed(desired)
  PROVE  \/ EnterFlashClearance
         \/ /\ KeepMode
            /\ target_valid' = (target_valid \/ AcceptsTarget(desired))
            /\ \/ AcceptsTarget(desired) /\ target_green' = desired
               \/ ~AcceptsTarget(desired) /\ target_green' = target_green
            /\ \/ Elapsed(t.all_red) /\ target_valid' /\ Show("GREEN", target_green')
               \/ ~(Elapsed(t.all_red) /\ target_valid') /\ HoldPhase
               
BY Zenon DEF NormalAllRed

\* The flags stay Boolean.
LEMMA StepFlagsOK == ASSUME FlagsOK, Next PROVE FlagsOK'
<1>1. ASSUME NEW desired \in OperationalPhases, Validate(desired) PROVE FlagsOK'
  <2>1. CASE StepFlash
    BY <2>1, Zenon DEF FlagsOK, StepFlash, KeepTarget, KeepMode
  <2>2. CASE StepEmergency
    BY <2>2, Zenon DEF FlagsOK, StepEmergency, AdvanceRing, EnterFlashClearance,
                       KeepTarget, KeepMode
  <2>3. CASE NormalGreen(desired)
    BY <2>3, Zenon DEF FlagsOK, NormalGreen, EnterFlashClearance, BeginYellow,
                       KeepTarget, KeepMode
  <2>4. CASE NormalYellow
    BY <2>4, Zenon DEF FlagsOK, NormalYellow, EnterFlashClearance, KeepTarget, KeepMode
  <2>5. CASE NormalAllRed(desired)
    BY <2>5, AllRedMoves, Zenon DEF FlagsOK, EnterFlashClearance, KeepTarget, KeepMode
  <2> QED
    BY <1>1, <2>1, <2>2, <2>3, <2>4, <2>5 DEF Validate, StepNormal
<1>2. ASSUME NEW on \in BOOLEAN, SetEmergencyMode(on) PROVE FlagsOK'
  BY <1>2, Zenon DEF FlagsOK, SetEmergencyMode, EnterRing, LeaveRing, KeepTarget
<1>3. CASE Reset
  BY <1>3, Zenon DEF FlagsOK, Reset
<1>4. CASE Tick
  BY <1>4, Zenon DEF FlagsOK, Tick
<1> QED
  BY <1>1, <1>2, <1>3, <1>4 DEF Next

\* So does the rest of the state.
LEMMA StepDataOK == ASSUME DataOK, Next PROVE DataOK'
<1> USE ConstantTypes DEF DataOK, States, Phase, OperationalPhases, Greens, Yellows,
                          FlashStates, Flashes
<1>1. ASSUME NEW desired \in OperationalPhases, Validate(desired) PROVE DataOK'
  <2> USE DEF Validate, config, Show, HoldPhase, KeepTarget, KeepMode, EnterFlashClearance
  <2>1. CASE StepFlash
    BY <1>1, <2>1 DEF StepFlash, FlashPhaseFor
  <2>2. CASE StepEmergency
    <3>1. (ring_idx + 1) % 6 \in 0..5
      BY RingIndex
    <3>2. kEmergencyRing[(ring_idx + 1) % 6] \in Phase
      BY <3>1, RingIndex, RingPhases
    <3>3. CASE AdvanceRing
      BY <1>1, <2>2, <3>1, <3>2, <3>3 DEF AdvanceRing
    <3>4. CASE EnterFlashClearance
      BY <1>1, <3>4
    <3>5. CASE HoldPhase /\ KeepTarget /\ KeepMode
      BY <1>1, <3>5
    <3> QED
      BY <2>2, <3>3, <3>4, <3>5, Zenon DEF StepEmergency
  <2>3. CASE NormalGreen(desired)
    BY <1>1, <2>3 DEF NormalGreen, BeginYellow, Want, WatchdogTarget, OppositeGreen,
                      YellowFor, IsGreen
  <2>4. CASE NormalYellow
    BY <1>1, <2>4 DEF NormalYellow
  <2>5. CASE NormalAllRed(desired)
    BY <1>1, <2>5, AllRedMoves DEF AcceptsTarget, IsGreen
  <2> QED
    BY <1>1, <2>1, <2>2, <2>3, <2>4, <2>5 DEF Validate, StepNormal
<1>2. ASSUME NEW on \in BOOLEAN, SetEmergencyMode(on) PROVE DataOK'
  BY <1>2, RingPhases, RingIndex
     DEF SetEmergencyMode, EnterRing, LeaveRing, KeepTarget, Show, config
<1>3. CASE Reset
  BY <1>3 DEF Reset, Show, config
<1>4. CASE Tick
  BY <1>4 DEF Tick, config
<1> QED
  BY <1>1, <1>2, <1>3, <1>4 DEF Next

\* Every variable keeps its type, whatever the timings and the requests.
THEOREM TypeCorrect == Spec => []TypeOK
<1>1. Init => TypeOK
  BY InitTypeOK
<1>2. TypeOK /\ [Next]_vars => TypeOK'
  <2>1. ASSUME TypeOK, Next PROVE TypeOK'
    <3>1. FlagsOK' /\ DataOK'
      BY <2>1, StepFlagsOK, StepDataOK, TypeOKHalves
    <3> QED
      BY <3>1, RingIndex, Zenon DEF TypeOK, FlagsOK, DataOK
  <2>2. TypeOK /\ UNCHANGED vars => TypeOK'
    BY Zenon DEF TypeOK, vars
  <2> QED
    BY <2>1, <2>2
<1> QED
  BY <1>1, <1>2, PTL DEF Spec

----------------------------------------------------------------------------
(* The inductive invariant. *)

\* The boot state satisfies it.
LEMMA InitIInv == Init => IInv
<1> SUFFICES ASSUME Init PROVE IInv
  OBVIOUS
<1>1. Shape
  BY Zenon DEF Init, Shape, FlashStates
<1>2. FreshAtLastPoll
  BY ConstantTypes DEF Init, FreshAtLastPoll
<1>3. FlashOnlyIfCorrupt
  BY DEF Init, FlashOnlyIfCorrupt, FlashStates
<1> QED
  BY <1>1, <1>2, <1>3, InitTypeOK DEF IInv

\* state_ keeps describing the phase on the heads.
LEMMA StepShape == ASSUME TypeOK, Shape, Next PROVE Shape'
<1> USE DEF Shape, FlashStates, Show, KeepTarget, KeepMode
<1>1. ASSUME NEW desired \in OperationalPhases, Validate(desired) PROVE Shape'
  <2>1. CASE EnterFlashClearance
    BY <2>1 DEF EnterFlashClearance
  <2>2. CASE HoldPhase /\ KeepTarget /\ KeepMode
    BY <2>2 DEF HoldPhase
  <2>3. CASE StepFlash
    BY <2>3 DEF StepFlash, HoldPhase, FlashPhaseFor, Flashes
  <2>4. CASE StepEmergency /\ AdvanceRing
    BY <2>4 DEF StepEmergency, AdvanceRing
  <2>5. ASSUME NEW g, StepNormal(desired), state = "GREEN", BeginYellow(g)
        PROVE  Shape'
    BY <2>5 DEF StepNormal, BeginYellow, YellowFor, IsYellow, Yellows
  <2>6. CASE StepNormal(desired) /\ state = "YELLOW" /\ Show("ALL_RED", "ALL_RED")
             /\ KeepTarget /\ KeepMode
    BY <2>6 DEF StepNormal
  <2>7. CASE StepNormal(desired) /\ NormalAllRed(desired)
    <3>1. target_valid => target_valid' \/ EnterFlashClearance
      BY <2>7, AllRedMoves, Zenon
    <3>2. target_green' \in Greens \/ EnterFlashClearance
      BY <2>7, AllRedMoves DEF TypeOK, AcceptsTarget, IsGreen
    <3>3. CASE KeepMode /\ Show("GREEN", target_green')
      BY <2>1, <2>7, <3>2, <3>3 DEF StepNormal, IsGreen
    <3>4. CASE KeepMode /\ HoldPhase
      BY <2>7, <3>4 DEF StepNormal, NormalAllRed, HoldPhase
    <3> QED
      BY <2>1, <2>7, <3>3, <3>4, AllRedMoves, Zenon
  <2> QED
    BY <1>1, <2>1, <2>2, <2>3, <2>4, <2>5, <2>6, <2>7, Zenon
       DEF Validate, StepEmergency, StepNormal, NormalGreen, NormalYellow
<1>2. ASSUME NEW on \in BOOLEAN, SetEmergencyMode(on) PROVE Shape'
  BY <1>2 DEF SetEmergencyMode, EnterRing, LeaveRing
<1>3. CASE Reset
  BY <1>3 DEF Reset
<1>4. CASE Tick
  BY <1>4 DEF Tick
<1> QED
  BY <1>1, <1>2, <1>3, <1>4 DEF Next

\* A poll that leaves the phase in place leaves it below the ceiling, or at rest.
LEMMA HeldIsYoung ==
  ASSUME TypeOK, Shape, NEW desired, Validate(desired), HoldPhase
  PROVE  state = "FLASH" \/ Resting' \/ age < MAX_GREEN_S
<1> USE ConstantTypes, DurationType
<1>1. age \in Nat
  BY DEF TypeOK
<1>2. CASE StepFlash
  BY <1>1, <1>2, FlashClearanceBound DEF StepFlash, FlashStates, Show, HoldPhase
<1>3. CASE StepEmergency
  <2> DEFINE current == kEmergencyRing[ring_idx]
  <2>1. RingDuration(current) \in Duration
    BY DEF RingDuration
  <2>2. SanityTimeout(current) \in Nat /\ SanityTimeout(current) <= MAX_GREEN_S
    BY DEF SanityTimeout
  <2>3. CASE AdvanceRing \/ EnterFlashClearance
    BY <2>3 DEF AdvanceRing, EnterFlashClearance, Show, HoldPhase
  <2>4. CASE ~Elapsed(RingDuration(current)) /\ ~RingStuck
    BY <1>1, <2>1, <2>2, <2>4, BelowCeiling DEF RingStuck
  <2> QED
    BY <1>3, <2>3, <2>4, Zenon DEF StepEmergency
<1>4. CASE NormalGreen(desired)
  <2>1. CASE EnterFlashClearance \/ \E g : BeginYellow(g)
    BY <2>1 DEF EnterFlashClearance, BeginYellow, Show, HoldPhase
  <2>2. CASE ~(~Trusted(t.max_green) /\ age >= MAX_GREEN_S) /\ ~Elapsed(t.max_green)
    BY <1>1, <2>2, BelowCeiling
  <2> QED
    BY <1>4, <2>1, <2>2, Zenon DEF NormalGreen
<1>5. CASE NormalYellow
  <2>1. CASE EnterFlashClearance \/ Show("ALL_RED", "ALL_RED")
    BY <2>1 DEF EnterFlashClearance, Show, HoldPhase
  <2>2. CASE ~(~Trusted(t.yellow) /\ age >= SanityYellowS) /\ ~Elapsed(t.yellow)
    BY <1>1, <2>2, BelowCeiling
  <2> QED
    BY <1>5, <2>1, <2>2, Zenon DEF NormalYellow
<1>6. CASE NormalAllRed(desired)
  <2>1. CASE EnterFlashClearance \/ Show("GREEN", target_green')
    BY <2>1 DEF EnterFlashClearance, Show, HoldPhase
  <2>2. CASE /\ state = "ALL_RED"
             /\ ~(~Trusted(t.all_red) /\ age >= SanityGreenS)
             /\ ~(Elapsed(t.all_red) /\ target_valid')
    <3>1. CASE ~Elapsed(t.all_red)
      BY <1>1, <2>2, <3>1, BelowCeiling
    <3>2. CASE ~Trusted(t.all_red)
      BY <1>1, <2>2, <3>2
    <3>3. CASE Trusted(t.all_red) /\ ~target_valid'
      <4>1. Trusted(t.all_red)'
        BY <3>3 DEF Validate, config, Trusted
      <4> QED
        BY <2>2, <3>3, <4>1, Zenon DEF Resting, HoldPhase
    <3> QED
      BY <2>2, <3>1, <3>2, <3>3
  <2> QED
    BY <1>6, <2>1, <2>2, Zenon DEF NormalAllRed
<1> QED
  BY <1>2, <1>3, <1>4, <1>5, <1>6, Zenon DEF Validate, StepNormal

\* The time a phase has been shown keeps below the ceiling between two polls.
LEMMA StepFresh ==
  ASSUME TypeOK, Shape, FreshAtLastPoll, Next PROVE FreshAtLastPoll'
<1> USE ConstantTypes
<1>1. ASSUME NEW desired \in OperationalPhases, Validate(desired)
      PROVE  FreshAtLastPoll'
  <2>1. CASE age' = 0
    BY <1>1, <2>1 DEF Validate, FreshAtLastPoll
  <2>2. CASE HoldPhase
    <3>1. age \in Nat /\ idle' = 0 /\ age' = age /\ state' = state
      BY <1>1, <2>2 DEF TypeOK, Validate, HoldPhase
    <3>2. state = "FLASH" \/ Resting' \/ age < MAX_GREEN_S
      BY <1>1, <2>2, HeldIsYoung
    <3> QED
      BY <3>1, <3>2 DEF FreshAtLastPoll
  <2> QED
    BY <1>1, <2>1, <2>2, AllRedMoves, Zenon
       DEF Validate, StepFlash, StepEmergency, StepNormal, NormalGreen, NormalYellow,
           AdvanceRing, EnterFlashClearance, BeginYellow, Show
<1>2. ASSUME NEW on \in BOOLEAN, SetEmergencyMode(on) PROVE FreshAtLastPoll'
  BY <1>2 DEF SetEmergencyMode, EnterRing, LeaveRing, Show, FreshAtLastPoll, TypeOK
<1>3. CASE Reset
  BY <1>3 DEF Reset, Show, FreshAtLastPoll, TypeOK
<1>4. CASE Tick
  <2>1. age' <= age + 1 /\ idle' = idle + 1 /\ age' \in Int
    BY <1>4 DEF Tick, TypeOK
  <2>2. state' = state /\ (Resting => Resting')
    BY <1>4 DEF Tick, config, Resting, Trusted
  <2> QED
    BY <2>1, <2>2 DEF FreshAtLastPoll, TypeOK
<1> QED
  BY <1>1, <1>2, <1>3, <1>4 DEF Next

\* The flash path opens only from the corruption guards.
LEMMA StepFlashOnlyIfCorrupt ==
  ASSUME FlashOnlyIfCorrupt, Next PROVE FlashOnlyIfCorrupt'
<1> USE DEF FlashOnlyIfCorrupt, FlashStates
<1>1. t' = t
  BY DEF Next, Validate, SetEmergencyMode, Reset, Tick, config
<1>2. (SaneNormal /\ SaneEmergency)' <=> (SaneNormal /\ SaneEmergency)
  BY <1>1, Zenon DEF SaneNormal, SaneEmergency, Trusted
<1>3. state' \in FlashStates =>
        state \in FlashStates \/ ~(SaneNormal /\ SaneEmergency)
  <2>1. ASSUME NEW desired \in OperationalPhases, Validate(desired),
               state' \in FlashStates
        PROVE  state \in FlashStates \/ ~(SaneNormal /\ SaneEmergency)
    <3>1. CASE StepEmergency
      <4>1. SaneEmergency => Trusted(RingDuration(kEmergencyRing[ring_idx]))
        BY DEF SaneEmergency, RingDuration
      <4> QED
        BY <2>1, <3>1, <4>1, Zenon
           DEF StepEmergency, AdvanceRing, Show, RingStuck, HoldPhase
    <3>2. CASE StepNormal(desired)
      BY <2>1, <3>2
         DEF StepNormal, NormalGreen, NormalYellow, NormalAllRed, BeginYellow, Show,
             HoldPhase, SaneNormal
    <3> QED
      BY <2>1, <3>1, <3>2, Zenon DEF Validate, StepFlash
  <2>2. ASSUME NEW on \in BOOLEAN, SetEmergencyMode(on), state' \in FlashStates
        PROVE  FALSE
    BY <2>2 DEF SetEmergencyMode, EnterRing, LeaveRing, Show
  <2>3. ~(Reset /\ state' \in FlashStates)
    BY DEF Reset, Show
  <2>4. CASE Tick
    BY <2>4, Zenon DEF Tick
  <2> QED
    BY <2>1, <2>2, <2>3, <2>4 DEF Next
<1> QED
  BY <1>2, <1>3

\* The invariant survives a stuttering step.
LEMMA StutterIInv == IInv /\ UNCHANGED vars => IInv'
<1> SUFFICES ASSUME IInv, UNCHANGED vars PROVE IInv'
  OBVIOUS
<1>1. TypeOK'
  BY Zenon DEF IInv, vars, TypeOK
<1>2. Shape'
  BY Zenon DEF IInv, vars, Shape
<1>3. FreshAtLastPoll'
  BY Zenon DEF IInv, vars, FreshAtLastPoll, Resting, Trusted
<1>4. FlashOnlyIfCorrupt'
  BY Zenon DEF IInv, vars, FlashOnlyIfCorrupt, SaneNormal, SaneEmergency, Trusted
<1> QED
  BY <1>1, <1>2, <1>3, <1>4 DEF IInv

\* The inductive invariant: what state_ says about the heads, and how long the
\* heads have been left alone.
THEOREM Invariance == Spec => []IInv
<1>1. IInv /\ Next => IInv'
  <2> SUFFICES ASSUME IInv, Next PROVE IInv'
    OBVIOUS
  <2>1. FlagsOK' /\ DataOK'
    BY StepFlagsOK, StepDataOK, TypeOKHalves DEF IInv
  <2>2. TypeOK'
    BY <2>1, RingIndex, Zenon DEF TypeOK, FlagsOK, DataOK
  <2> QED
    BY <2>2, StepShape, StepFresh, StepFlashOnlyIfCorrupt DEF IInv
<1>2. IInv /\ [Next]_vars => IInv'
  BY <1>1, StutterIInv
<1> QED
  BY <1>2, InitIInv, PTL DEF Spec

\* A-1, E-5 and the guards of step_normal together: for every timing budget,
\* NaN, infinite, negative or absurd durations included, nothing but the terminal
\* flash and the rest in red is shown for MAX_GREEN_S plus a polling interval.
THEOREM NothingFreezes == Spec => []NoFrozenPhase
<1>1. IInv => state = "FLASH" \/ Resting \/ age < MAX_GREEN_S + PollGap
  BY ConstantTypes DEF IInv, FreshAtLastPoll, TypeOK
<1>2. IInv => NoFrozenPhase
  BY <1>1 DEF IInv, NoFrozenPhase
<1> QED
  BY <1>2, Invariance, PTL

\* The terminal flash is never a false alarm: no history of requests, toggles and
\* delays brings a layer with trusted durations into it.
THEOREM NoFalseFlash == Spec => []FlashOnlyIfCorrupt
<1>1. IInv => FlashOnlyIfCorrupt
  BY DEF IInv
<1> QED
  BY <1>1, Invariance, PTL

----------------------------------------------------------------------------
(* The locked target. *)

\* The destination of a transition under way is out of the Brain's reach.
THEOREM TargetIsLocked == Spec => TargetLocked
<1>1. ASSUME TypeOK, Shape, Next,
             target_valid, state \in {"YELLOW", "ALL_RED"}, ~emergency'
      PROVE  \/ UNCHANGED <<target_green, target_valid>>
             \/ ~target_valid' /\ state' = "ALL_RED" /\ age' = 0
  <2>1. ASSUME NEW desired \in OperationalPhases, Validate(desired)
        PROVE  UNCHANGED <<target_green, target_valid>>
    <3>1. CASE NormalAllRed(desired)
      <4>1. ~AcceptsTarget(desired)
        BY <1>1 DEF AcceptsTarget
      <4>2. target_valid' = TRUE \/ EnterFlashClearance
        BY <1>1, <3>1, <4>1, AllRedMoves, Zenon
      <4>3. target_valid = TRUE
        BY <1>1, Zenon DEF TypeOK
      <4> QED
        BY <3>1, <4>1, <4>2, <4>3, AllRedMoves, Zenon DEF EnterFlashClearance, KeepTarget
    <3> QED
      BY <1>1, <2>1, <3>1, Zenon
         DEF Validate, StepFlash, StepEmergency, StepNormal, NormalGreen, NormalYellow,
             AdvanceRing, EnterFlashClearance, KeepTarget
  <2>2. ASSUME NEW on \in BOOLEAN, SetEmergencyMode(on)
        PROVE  FALSE
    BY <1>1, <2>2, Zenon DEF SetEmergencyMode, TypeOK, Shape, FlashStates
  <2>3. CASE Reset
    BY <2>3, Zenon DEF Reset, Show
  <2>4. CASE Tick
    BY <2>4, Zenon DEF Tick
  <2> QED
    BY <1>1, <2>1, <2>2, <2>3, <2>4 DEF Next
<1>2. IInv /\ [Next]_vars
        => [target_valid /\ state \in {"YELLOW", "ALL_RED"} /\ ~emergency'
              => \/ UNCHANGED <<target_green, target_valid>>
                 \/ ~target_valid' /\ state' = "ALL_RED" /\ age' = 0]_vars
  BY <1>1, Zenon DEF IInv
<1> QED
  BY <1>2, Invariance, PTL DEF TargetLocked, Spec

----------------------------------------------------------------------------
(* The promise to the drivers. *)

NSAspect == Aspect("GREEN_NS", "GREEN_NS_LEFT", "YELLOW_NS", "FLASH_YELLOW_NS")
EWAspect == Aspect("GREEN_EW", "GREEN_EW_LEFT", "YELLOW_EW", "FLASH_YELLOW_EW")
RedFor   == IF applied = "ALL_RED" THEN age ELSE 0

\* The aspects of the two axes, phase by phase.
LEMMA Aspects ==
  /\ applied = "ALL_RED" => NSAspect = "red" /\ EWAspect = "red"
  /\ applied \in Greens => \/ NSAspect \in {"through", "left"} /\ EWAspect = "red"
                           \/ NSAspect = "red" /\ EWAspect \in {"through", "left"}
  /\ applied \in Greens /\ IsNS(applied) => NSAspect \in {"through", "left"}
  /\ applied \in Greens /\ ~IsNS(applied) => EWAspect \in {"through", "left"}
  /\ applied = "YELLOW_NS" => NSAspect = "amber" /\ EWAspect = "red"
  /\ applied = "YELLOW_EW" => NSAspect = "red" /\ EWAspect = "amber"
  /\ applied = "FLASH_YELLOW_NS" => NSAspect = "flash_yellow" /\ EWAspect = "flash_red"
  /\ applied = "FLASH_YELLOW_EW" => NSAspect = "flash_red" /\ EWAspect = "flash_yellow"
  /\ applied = "FLASH_ALL_RED" => NSAspect = "flash_red" /\ EWAspect = "flash_red"
BY DEF NSAspect, EWAspect, Aspect, Greens, IsNS, IsFlash, Flashes

\* The same after a step.
LEMMA AspectsAfter ==
  /\ applied' = "ALL_RED" => NSAspect' = "red" /\ EWAspect' = "red"
  /\ applied' \in Greens => \/ NSAspect' \in {"through", "left"} /\ EWAspect' = "red"
                            \/ NSAspect' = "red" /\ EWAspect' \in {"through", "left"}
  /\ applied' = "YELLOW_NS" => NSAspect' = "amber" /\ EWAspect' = "red"
  /\ applied' = "YELLOW_EW" => NSAspect' = "red" /\ EWAspect' = "amber"
  /\ applied' = "FLASH_YELLOW_NS" => NSAspect' = "flash_yellow" /\ EWAspect' = "flash_red"
  /\ applied' = "FLASH_YELLOW_EW" => NSAspect' = "flash_red" /\ EWAspect' = "flash_yellow"
  /\ applied' = "FLASH_ALL_RED" => NSAspect' = "flash_red" /\ EWAspect' = "flash_red"
BY DEF NSAspect, EWAspect, Aspect, Greens, IsNS, IsFlash, Flashes

\* Showing red where nothing flashes is a clearance.
LEMMA ClearStep ==
  ASSUME applied \in Phase \ Flashes, applied' = "ALL_RED", age' = 0, t' = t
  PROVE  Promise!Clear
<1>1. ~({NSAspect, EWAspect} \cap {"flash_yellow", "flash_red"} # {})
  BY Aspects DEF Phase, OperationalPhases, Yellows
<1> QED
  BY <1>1, AspectsAfter, Zenon
     DEF Promise!Clear, Promise!Heads, Promise!Flashing, NSAspect, EWAspect, RedFor

\* Showing the amber of the green on the heads is the promised amber.
LEMMA AmberStep ==
  ASSUME applied \in Greens, applied' = YellowFor(applied), age' = 0, t' = t
  PROVE  Promise!Amber
<1>1. CASE IsNS(applied)
  <2>1. NSAspect \in Promise!Movements /\ NSAspect' = "amber" /\ EWAspect' = "red"
    BY <1>1, Aspects, AspectsAfter DEF YellowFor, Promise!Movements
  <2> QED
    BY <2>1, Zenon DEF Promise!Amber, Promise!Heads, NSAspect, EWAspect, RedFor, YellowFor
<1>2. CASE ~IsNS(applied)
  <2>1. EWAspect \in Promise!Movements /\ NSAspect' = "red" /\ EWAspect' = "amber"
    BY <1>2, Aspects, AspectsAfter DEF YellowFor, Promise!Movements
  <2> QED
    BY <2>1, Zenon DEF Promise!Amber, Promise!Heads, NSAspect, EWAspect, RedFor, YellowFor
<1> QED
  BY <1>1, <1>2

\* A green shown after a completed all-red is a promised service.
LEMMA ServeStep ==
  ASSUME applied = "ALL_RED", applied' \in Greens, age' = 0, t' = t,
         Elapsed(t.all_red)
  PROVE  Promise!Serve
<1>1. NSAspect = "red" /\ EWAspect = "red" /\ RedFor = age /\ RedFor' = 0
  BY Aspects, AspectsAfter, Zenon DEF RedFor, Greens
<1>2. Promise!Cleared
  BY <1>1, Zenon DEF Promise!Cleared, Promise!AllRed, Elapsed, NSAspect, EWAspect, RedFor
<1>3. \E m \in Promise!Movements :
         \/ NSAspect' = m /\ EWAspect' = "red"
         \/ NSAspect' = "red" /\ EWAspect' = m
  BY AspectsAfter DEF Promise!Movements
<1> QED
  BY <1>1, <1>2, <1>3, Zenon
     DEF Promise!Serve, Promise!Heads, NSAspect, EWAspect, RedFor

\* Leaving the clearance for a flash pattern is the promised flash.
LEMMA FlashStep ==
  ASSUME applied = "ALL_RED", age > 0, applied' \in Flashes, age' = 0, t' = t
  PROVE  Promise!Flash
<1>1. NSAspect = "red" /\ EWAspect = "red" /\ RedFor = age /\ RedFor' = 0
  BY Aspects, Zenon DEF RedFor, Flashes
<1>2. \/ NSAspect' = "flash_yellow" /\ EWAspect' = "flash_red"
      \/ NSAspect' = "flash_red" /\ EWAspect' = "flash_yellow"
      \/ NSAspect' = "flash_red" /\ EWAspect' = "flash_red"
  BY AspectsAfter DEF Flashes
<1> QED
  BY <1>1, <1>2, Zenon
     DEF Promise!Flash, Promise!AllRed, Promise!Heads, NSAspect, EWAspect, RedFor

\* Time that passes, and a poll that changes nothing, leave the aspects alone.
LEMMA WaitStep ==
  ASSUME TypeOK, applied' = applied, t' = t,
         age' \in {age, age + 1}, age' <= MaxAge
  PROVE  Promise!Wait
<1>1. NSAspect' = NSAspect /\ EWAspect' = EWAspect
  BY Zenon DEF NSAspect, EWAspect, Aspect, IsFlash
<1>2. RedFor' \in {RedFor, RedFor + 1} /\ RedFor' <= MaxAge
  BY ConstantTypes DEF RedFor, TypeOK
<1> QED
  BY <1>1, <1>2, Zenon DEF Promise!Wait, NSAspect, EWAspect, RedFor

\* What a poll does to the heads, whichever mode decides it.
PollClears  == applied \in Phase \ Flashes /\ applied' = "ALL_RED"
PollWarns   == applied \in Greens /\ applied' = YellowFor(applied)
PollServes  == applied = "ALL_RED" /\ Elapsed(t.all_red) /\ applied' \in Greens
PollFlashes ==
  state = "FLASH_CLEARANCE" /\ applied = "ALL_RED" /\ age > 0 /\ applied' \in Flashes

\* A poll leaves the heads alone, clears them, warns, serves after a completed
\* all-red, or starts the flash after a clearance.
LEMMA PollMoves ==
  ASSUME TypeOK, Shape, NEW desired \in OperationalPhases, Validate(desired)
  PROVE  \/ HoldPhase
         \/ age' = 0 /\ (PollClears \/ PollWarns \/ PollServes \/ PollFlashes)
<1> USE Zenon
<1>1. age \in Nat
  BY SMT DEF TypeOK
<1>2. CASE EnterFlashClearance /\ state \notin FlashStates
  <2>1. applied \in Phase \ Flashes
    BY <1>2, RingPhases, SMT
       DEF TypeOK, Shape, FlashStates, States, IsGreen, IsYellow, Greens, Yellows, Flashes
  <2> QED
    BY <1>2, <2>1 DEF EnterFlashClearance, Show, PollClears
<1>3. CASE StepFlash
  <2>1. CASE state = "FLASH_CLEARANCE" /\ age >= FlashClearance
    <3>1. applied = "ALL_RED" /\ age > 0
      BY <1>1, <2>1, FlashClearanceBound, SMT DEF Shape
    <3>2. applied' \in Flashes /\ age' = 0
      BY <1>3, <2>1, SMT DEF StepFlash, Show, FlashPhaseFor, Flashes
    <3> QED
      BY <2>1, <3>1, <3>2 DEF PollFlashes
  <2> QED
    BY <1>3, <2>1 DEF StepFlash
<1>4. CASE StepEmergency
  <2>1. CASE Elapsed(RingDuration(kEmergencyRing[ring_idx])) /\ AdvanceRing
    <3> DEFINE next == kEmergencyRing[(ring_idx + 1) % 6]
    <3>1. state = "EMERGENCY" /\ applied = kEmergencyRing[ring_idx]
      BY <1>4 DEF StepEmergency, Shape
    <3>2. Elapsed(RingDuration(applied))
      BY <2>1, <3>1
    <3>3. applied' = next /\ age' = 0
      BY <2>1 DEF AdvanceRing, Show
    <3>4. CASE applied = "ALL_RED"
      <4>1. Elapsed(t.all_red)
        BY <3>2, <3>4, SMT DEF RingDuration, IsGreen, IsYellow, Greens, Yellows
      <4>2. next \in Greens
        BY <3>1, <3>4, SMT DEF TypeOK, kEmergencyRing, Greens
      <4> QED
        BY <3>3, <3>4, <4>1, <4>2 DEF PollServes
    <3>5. CASE applied \in {"GREEN_NS", "GREEN_EW"}
      <4>1. next = YellowFor(applied) /\ applied \in Greens
        BY <3>1, <3>5, SMT DEF TypeOK, kEmergencyRing, Greens, YellowFor, IsNS
      <4> QED
        BY <3>3, <4>1 DEF PollWarns
    <3>6. CASE applied \in {"YELLOW_NS", "YELLOW_EW"}
      <4>1. next = "ALL_RED" /\ applied \in Phase \ Flashes
        BY <3>1, <3>6, SMT DEF TypeOK, kEmergencyRing, Flashes
      <4> QED
        BY <3>3, <4>1 DEF PollClears
    <3> QED
      BY <3>1, <3>4, <3>5, <3>6, RingPhases, SMT DEF TypeOK
  <2> QED
    BY <1>2, <1>4, <2>1 DEF StepEmergency
<1>5. CASE NormalGreen(desired)
  <2>1. ASSUME NEW g, BeginYellow(g), state = "GREEN" PROVE age' = 0 /\ PollWarns
    BY <2>1 DEF BeginYellow, Show, Shape, IsGreen, PollWarns
  <2> QED
    BY <1>2, <1>5, <2>1 DEF NormalGreen, FlashStates
<1>6. CASE NormalYellow
  <2>1. CASE Show("ALL_RED", "ALL_RED") /\ state = "YELLOW"
    <3>1. applied \in Phase \ Flashes
      BY <2>1, SMT DEF TypeOK, Shape, IsYellow, Yellows, Flashes
    <3> QED
      BY <2>1, <3>1 DEF Show, PollClears
  <2> QED
    BY <1>2, <1>6, <2>1 DEF NormalYellow, FlashStates
<1>7. CASE NormalAllRed(desired)
  <2>1. CASE Elapsed(t.all_red) /\ Show("GREEN", target_green')
    <3>1. applied = "ALL_RED"
      BY <1>7 DEF NormalAllRed, Shape
    <3>2. applied' \in Greens /\ age' = 0
      BY <1>7, <2>1, AllRedMoves, SMT
         DEF TypeOK, AcceptsTarget, IsGreen, Show, EnterFlashClearance
    <3> QED
      BY <2>1, <3>1, <3>2 DEF PollServes
  <2> QED
    BY <1>2, <1>7, <2>1, AllRedMoves DEF NormalAllRed, FlashStates
<1> QED
  BY <1>3, <1>4, <1>5, <1>6, <1>7 DEF Validate, StepNormal

\* Every poll is a promised step.
LEMMA ValidatePromise ==
  ASSUME IInv, NEW desired \in OperationalPhases, Validate(desired)
  PROVE  Promise!Next
<1>1. t' = t /\ TypeOK /\ Shape
  BY Zenon DEF Validate, config, IInv
<1>2. age \in Int /\ age <= MaxAge
  BY <1>1 DEF TypeOK
<1>3. CASE HoldPhase
  BY <1>1, <1>2, <1>3, WaitStep, Zenon DEF HoldPhase, Promise!Next
<1>4. CASE age' = 0 /\ PollClears
  BY <1>1, <1>4, ClearStep, Zenon DEF PollClears, Promise!Next
<1>5. CASE age' = 0 /\ PollWarns
  BY <1>1, <1>5, AmberStep, Zenon DEF PollWarns, Promise!Next
<1>6. CASE age' = 0 /\ PollServes
  BY <1>1, <1>6, ServeStep, Zenon DEF PollServes, Promise!Next
<1>7. CASE age' = 0 /\ PollFlashes
  BY <1>1, <1>7, FlashStep, Zenon DEF PollFlashes, Promise!Next
<1> QED
  BY <1>1, <1>3, <1>4, <1>5, <1>6, <1>7, PollMoves, Zenon

\* So is every step of the interlock.
LEMMA StepPromise == ASSUME IInv, Next PROVE Promise!Next
<1>1. TypeOK /\ Shape
  BY DEF IInv
<1>2. ASSUME NEW desired \in OperationalPhases, Validate(desired)
      PROVE  Promise!Next
  BY <1>2, ValidatePromise
<1>3. ASSUME NEW on \in BOOLEAN, SetEmergencyMode(on) PROVE Promise!Next
  <2>1. applied \in Phase \ Flashes
    BY <1>1, <1>3, RingPhases
       DEF SetEmergencyMode, TypeOK, Shape, FlashStates, States, IsGreen, IsYellow,
           Greens, Yellows, Flashes
  <2>2. applied' = "ALL_RED" /\ age' = 0 /\ t' = t
    BY <1>3 DEF SetEmergencyMode, EnterRing, LeaveRing, Show, config, kEmergencyRing
  <2> QED
    BY <2>1, <2>2, ClearStep, Zenon DEF Promise!Next
<1>4. CASE Reset
  <2>1. applied' = "ALL_RED" /\ age' = 0 /\ t' = t
    BY <1>4 DEF Reset, Show, config
  <2>2. CASE applied \in Flashes
    <3>1. {NSAspect, EWAspect} \cap {"flash_yellow", "flash_red"} # {}
      BY <2>2, Aspects DEF Flashes
    <3>2. Promise!Resume
      BY <2>1, <3>1, AspectsAfter, Zenon
         DEF Promise!Resume, Promise!Heads, Promise!Flashing, NSAspect, EWAspect, RedFor
    <3> QED
      BY <3>2, Zenon DEF Promise!Next
  <2>3. CASE applied \notin Flashes
    BY <1>1, <2>1, <2>3, ClearStep, Zenon DEF Promise!Next, TypeOK
  <2> QED
    BY <2>2, <2>3
<1>5. CASE Tick
  <2>1. applied' = applied /\ t' = t
    BY <1>5, Zenon DEF Tick, config
  <2>2. age' \in {age, age + 1} /\ age' <= MaxAge
    BY <1>1, <1>5, ConstantTypes DEF Tick, TypeOK
  <2> QED
    BY <1>1, <2>1, <2>2, WaitStep, Zenon DEF Promise!Next
<1> QED
  BY <1>2, <1>3, <1>4, <1>5, Zenon DEF Next

\* The interlock implements Intersection: C-3 and F-1 hold for every budget, every
\* history of requests, toggles, resets and polling delays.
THEOREM ImplementsPromise == Spec => KeepsPromise
<1>1. Init => Promise!Init
  <2> SUFFICES ASSUME Init PROVE Promise!Init
    OBVIOUS
  <2>1. TypeOK
    BY InitTypeOK
  <2>2. NSAspect = "red" /\ EWAspect = "red" /\ RedFor = 0
    BY Aspects, Zenon DEF Init, RedFor
  <2>3. t.all_red \in Int \cup {Never}
    BY <2>1, DurationType DEF Duration
  <2> QED
    BY <2>2, <2>3, Zenon DEF Promise!Init, NSAspect, EWAspect, RedFor
<1>2. UNCHANGED vars => UNCHANGED Promise!promise
  BY Zenon DEF vars, Promise!promise, Aspect, IsFlash
<1>3. IInv /\ [Next]_vars => [Promise!Next]_(Promise!promise)
  BY <1>2, StepPromise, Zenon
<1> QED
  BY <1>1, <1>3, Invariance, PTL DEF Spec, KeepsPromise, Promise!Spec

=============================================================================
