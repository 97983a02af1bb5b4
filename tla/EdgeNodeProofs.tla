--------------------------- MODULE EdgeNodeProofs ---------------------------
(***************************************************************************)
(* Theorems about the control loop, for every budget, every length of an   *)
(* iteration and every camera timeout EdgeNodeAssumption allows; what some *)
(* say of the heads is conditional on IterationsAreShort.  The loop        *)
(* implements the interlock's specification, so that what is proved of the *)
(* interlock holds of the node; and what it publishes of itself is true.   *)
(***************************************************************************)
EXTENDS NodeStatus, TLAPS

----------------------------------------------------------------------------
(* The loop uses the interlock as its clients must. *)

\* The interlock's phases are the loop's.
LEMMA SamePhases == OperationalPhases = Safety!OperationalPhases
BY DEF OperationalPhases, Greens, Yellows,
       Safety!OperationalPhases, Safety!Greens, Safety!Yellows

\* A call of set_emergency_mode() is a step of the interlock, or none.
LEMMA CallIsStep ==
  ASSUME NEW on \in BOOLEAN, Safety!CallSetEmergencyMode(on)
  PROVE  [Safety!Next]_(Safety!vars)
BY Zenon DEF Safety!CallSetEmergencyMode, Safety!SetEmergencyModeIgnored, Safety!Next

\* Leaving the interlock alone is a stutter of it.
LEMMA AloneIsStutter ==
  ASSUME UNCHANGED safetyVars
  PROVE  [Safety!Next]_(Safety!vars)
BY Zenon DEF safetyVars, Safety!vars

\* Every step of the loop is a step of the interlock, or none.
LEMMA StepUsesInterlock ==
  ASSUME [Next]_vars
  PROVE  [Safety!Next]_(Safety!vars)
<1>1. CASE EnterFallback
  BY <1>1, CallIsStep, Zenon DEF EnterFallback
<1>2. CASE ExitFallback
  BY <1>2, CallIsStep, AloneIsStutter, Zenon DEF ExitFallback, ExitFallbackIfSafe
<1>3. CASE Drained
  BY <1>3, AloneIsStutter, Zenon DEF Drained
<1>4. CASE FrameRead
  BY <1>4, CallIsStep, AloneIsStutter, Zenon DEF FrameRead
<1>5. CASE NoFrame
  BY <1>5, CallIsStep, AloneIsStutter, Zenon DEF NoFrame
<1>6. CASE SkipDetection
  BY <1>6, AloneIsStutter, Zenon DEF SkipDetection
<1>7. CASE InferenceFault
  BY <1>7, CallIsStep, AloneIsStutter, Zenon DEF InferenceFault
<1>8. CASE Inferred
  BY <1>8, CallIsStep, AloneIsStutter, Zenon DEF Inferred
<1>9. ASSUME NEW desired \in OperationalPhases, Decide(desired)
      PROVE  [Safety!Next]_(Safety!vars)
  BY <1>9, SamePhases, Zenon DEF Decide, Safety!Next
<1>10. CASE Apply
  BY <1>10, AloneIsStutter, Zenon DEF Apply
<1>11. CASE Tick
  BY <1>11, Zenon DEF Tick, Safety!Next
<1>12. CASE UNCHANGED vars
  BY <1>12, AloneIsStutter, Zenon DEF vars
<1> QED
  BY <1>1, <1>2, <1>3, <1>4, <1>5, <1>6, <1>7, <1>8, <1>9, <1>10, <1>11, <1>12, Zenon
     DEF Next, Loop

\* Every behaviour of the node is one of the interlock, so that what is proved of the
\* interlock holds of the node.
LEMMA NodeUsesInterlock == Spec => Safety!Spec
<1>1. Init => Safety!Init
  BY Zenon DEF Init
<1>2. [Next]_vars => [Safety!Next]_(Safety!vars)
  BY StepUsesInterlock, Zenon
<1> QED
  BY <1>1, <1>2, PTL DEF Spec, Safety!Spec

----------------------------------------------------------------------------
(* The fixed cycle is engaged exactly while a source asks for it. *)

\* The flags of the three sources and of the interlock's mode.
FlagsOK ==
  /\ emergency \in BOOLEAN
  /\ in_fallback \in BOOLEAN
  /\ is_camera_online \in BOOLEAN
  /\ inference_online \in BOOLEAN

ModeInv == FlagsOK /\ ModeAgreement

\* A poll neither changes the mode nor ends the terminal flash.
LEMMA PollKeepsMode ==
  ASSUME NEW desired, Safety!Validate(desired)
  PROVE  /\ emergency' = emergency
         /\ state \in Safety!FlashStates => state' \in Safety!FlashStates
<1>1. CASE Safety!StepFlash
  BY <1>1, Zenon DEF Safety!StepFlash, Safety!KeepMode, Safety!Show, Safety!HoldPhase,
                     Safety!FlashStates
<1>2. CASE Safety!StepEmergency
  BY <1>2, Zenon DEF Safety!StepEmergency, Safety!AdvanceRing,
                     Safety!EnterFlashClearance, Safety!KeepMode
<1>3. CASE Safety!StepNormal(desired)
  <2>1. state \notin Safety!FlashStates
    BY <1>3 DEF Safety!StepNormal, Safety!NormalGreen, Safety!NormalYellow,
                Safety!NormalAllRed, Safety!FlashStates
  <2>2. emergency' = emergency
    BY <1>3, Zenon DEF Safety!StepNormal, Safety!NormalGreen, Safety!NormalYellow,
                Safety!NormalAllRed, Safety!BeginYellow, Safety!EnterFlashClearance,
                Safety!KeepMode
  <2> QED
    BY <2>1, <2>2
<1> QED
  BY <1>1, <1>2, <1>3 DEF Safety!Validate

\* A call of set_emergency_mode() takes effect unless the terminal flash outranks it.
LEMMA CallSetsMode ==
  ASSUME NEW on \in BOOLEAN, Safety!CallSetEmergencyMode(on)
  PROVE  emergency' = on \/ (state \in Safety!FlashStates /\ UNCHANGED safetyVars)
BY Zenon DEF Safety!CallSetEmergencyMode, Safety!SetEmergencyMode,
             Safety!SetEmergencyModeIgnored, Safety!vars, safetyVars

\* Neither the mode nor a source moves.
LEMMA NothingHappens ==
  ASSUME FlagsOK, ModeAgreement, UNCHANGED <<safetyVars, healthVars>>
  PROVE  FlagsOK' /\ ModeAgreement'
<1>1. /\ state' = state /\ emergency' = emergency /\ in_fallback' = in_fallback
      /\ is_camera_online' = is_camera_online /\ inference_online' = inference_online
  BY Zenon DEF safetyVars, healthVars
<1> QED
  BY <1>1, Zenon DEF FlagsOK, ModeAgreement, Safety!FlashStates

\* The effect of each step on the mode and on the sources: the mode is set to what
\* the sources say after the step, or neither is touched.
LEMMA StepMode ==
  ASSUME FlagsOK, ModeAgreement, Next
  PROVE  FlagsOK' /\ ModeAgreement'
<1>1. CASE EnterFallback
  <2>1. in_fallback' = TRUE /\ Safety!CallSetEmergencyMode(TRUE)
        /\ is_camera_online' = is_camera_online /\ inference_online' = inference_online
    BY <1>1, Zenon DEF EnterFallback
  <2>2. emergency' = TRUE \/ (state \in Safety!FlashStates /\ UNCHANGED safetyVars)
    BY <2>1, CallSetsMode
  <2> QED
    BY <2>1, <2>2, Zenon DEF FlagsOK, ModeAgreement, safetyVars, Safety!FlashStates
<1>2. CASE ExitFallback
  <2>1. in_fallback = TRUE /\ in_fallback' = FALSE
        /\ is_camera_online' = is_camera_online /\ inference_online' = inference_online
    BY <1>2, Zenon DEF ExitFallback, FlagsOK
  <2>2. CASE is_camera_online /\ inference_online
    <3>1. emergency' = FALSE \/ (state \in Safety!FlashStates /\ UNCHANGED safetyVars)
      BY <1>2, <2>2, CallSetsMode, Zenon DEF ExitFallback, ExitFallbackIfSafe
    <3> QED
      BY <2>1, <2>2, <3>1, Zenon DEF FlagsOK, ModeAgreement, safetyVars, Safety!FlashStates
  <2>3. CASE ~(is_camera_online /\ inference_online)
    <3>1. UNCHANGED safetyVars
      BY <1>2, <2>3, Zenon DEF ExitFallback, ExitFallbackIfSafe
    <3> QED
      BY <2>1, <2>3, <3>1, Zenon DEF FlagsOK, ModeAgreement, safetyVars, Safety!FlashStates
  <2> QED
    BY <2>2, <2>3
<1>3. CASE Drained \/ SkipDetection \/ Apply
  <2>1. UNCHANGED <<safetyVars, healthVars>>
    BY <1>3, Zenon DEF Drained, SkipDetection, Apply
  <2> QED
    BY <2>1, NothingHappens
<1>4. CASE FrameRead
  <2>1. is_camera_online' = TRUE /\ in_fallback' = in_fallback
        /\ inference_online' = inference_online
    BY <1>4, Zenon DEF FrameRead
  <2>2. CASE ~is_camera_online /\ MayRelease(~in_fallback)
    <3>1. emergency' = FALSE \/ (state \in Safety!FlashStates /\ UNCHANGED safetyVars)
      BY <1>4, <2>2, CallSetsMode, Zenon DEF FrameRead
    <3> QED
      BY <2>1, <2>2, <3>1, Zenon
         DEF MayRelease, FlagsOK, ModeAgreement, safetyVars, Safety!FlashStates
  <2>3. CASE ~(~is_camera_online /\ MayRelease(~in_fallback))
    <3>1. UNCHANGED safetyVars
      BY <1>4, <2>3, Zenon DEF FrameRead
    <3> QED
      BY <2>1, <2>3, <3>1, Zenon
         DEF MayRelease, FlagsOK, ModeAgreement, safetyVars, Safety!FlashStates
  <2> QED
    BY <2>2, <2>3
<1>5. CASE NoFrame
  <2>1. in_fallback' = in_fallback /\ inference_online' = inference_online
        /\ is_camera_online' = (is_camera_online /\ last_frame <= CameraTimeout)
    BY <1>5, Zenon DEF NoFrame
  <2>2. CASE is_camera_online /\ ~is_camera_online'
    <3>1. emergency' = TRUE \/ (state \in Safety!FlashStates /\ UNCHANGED safetyVars)
      BY <1>5, <2>2, CallSetsMode, Zenon DEF NoFrame
    <3> QED
      BY <2>1, <2>2, <3>1, Zenon DEF FlagsOK, ModeAgreement, safetyVars, Safety!FlashStates
  <2>3. CASE ~(is_camera_online /\ ~is_camera_online')
    <3>1. UNCHANGED safetyVars
      BY <1>5, <2>3, Zenon DEF NoFrame
    <3>2. is_camera_online' = is_camera_online
      BY <2>1, <2>3, Zenon DEF FlagsOK
    <3>3. UNCHANGED healthVars
      BY <1>5, <3>2, Zenon DEF NoFrame, healthVars
    <3> QED
      BY <3>1, <3>3, NothingHappens
  <2> QED
    BY <2>2, <2>3, Zenon
<1>6. CASE InferenceFault
  <2>1. inference_online' = FALSE /\ in_fallback' = in_fallback
        /\ is_camera_online' = is_camera_online
    BY <1>6, Zenon DEF InferenceFault
  <2>2. CASE inference_online
    <3>1. emergency' = TRUE \/ (state \in Safety!FlashStates /\ UNCHANGED safetyVars)
      BY <1>6, <2>2, CallSetsMode, Zenon DEF InferenceFault
    <3> QED
      BY <2>1, <2>2, <3>1, Zenon DEF FlagsOK, ModeAgreement, safetyVars, Safety!FlashStates
  <2>3. CASE ~inference_online
    <3>1. UNCHANGED safetyVars
      BY <1>6, <2>3, Zenon DEF InferenceFault
    <3> QED
      BY <2>1, <2>3, <3>1, Zenon DEF FlagsOK, ModeAgreement, safetyVars, Safety!FlashStates
  <2> QED
    BY <2>2, <2>3
<1>7. CASE Inferred
  <2>1. inference_online' = TRUE /\ in_fallback' = in_fallback
        /\ is_camera_online' = is_camera_online /\ is_camera_online
    BY <1>7, Zenon DEF Inferred
  <2>2. CASE ~inference_online /\ ~in_fallback
    <3>1. emergency' = FALSE \/ (state \in Safety!FlashStates /\ UNCHANGED safetyVars)
      BY <1>7, <2>2, CallSetsMode, Zenon DEF Inferred
    <3> QED
      BY <2>1, <2>2, <3>1, Zenon DEF FlagsOK, ModeAgreement, safetyVars, Safety!FlashStates
  <2>3. CASE ~(~inference_online /\ ~in_fallback)
    <3>1. UNCHANGED safetyVars
      BY <1>7, <2>3, Zenon DEF Inferred
    <3> QED
      BY <2>1, <2>3, <3>1, Zenon DEF FlagsOK, ModeAgreement, safetyVars, Safety!FlashStates
  <2> QED
    BY <2>2, <2>3
<1>8. ASSUME NEW desired \in OperationalPhases, Decide(desired)
      PROVE  FlagsOK' /\ ModeAgreement'
  <2>1. UNCHANGED healthVars /\ Safety!Validate(desired)
    BY <1>8, Zenon DEF Decide
  <2>2. /\ emergency' = emergency
        /\ state \in Safety!FlashStates => state' \in Safety!FlashStates
    BY <2>1, PollKeepsMode
  <2> QED
    BY <2>1, <2>2, Zenon DEF healthVars, FlagsOK, ModeAgreement, Safety!FlashStates
<1>9. CASE Tick
  BY <1>9, Zenon DEF Tick, Safety!Tick, FlagsOK, ModeAgreement, Safety!FlashStates
<1> QED
  BY <1>1, <1>2, <1>3, <1>4, <1>5, <1>6, <1>7, <1>8, <1>9, Zenon DEF Next, Loop

\* No order of failures and recoveries of the Brain, the camera and the inference
\* makes the fixed cycle disagree with the three sources that ask for it.
THEOREM ModeAgrees == Spec => []ModeAgreement
<1>1. Init => ModeInv
  BY Zenon DEF Init, Safety!Init, ModeInv, FlagsOK, ModeAgreement
<1>2. ModeInv /\ UNCHANGED vars => ModeInv'
  BY NothingHappens, Zenon DEF ModeInv, vars
<1>3. ModeInv /\ [Next]_vars => ModeInv'
  BY <1>2, StepMode, Zenon DEF ModeInv
<1>4. ModeInv => ModeAgreement
  BY DEF ModeInv
<1> QED
  BY <1>1, <1>3, <1>4, PTL DEF Spec

----------------------------------------------------------------------------
(* What the node tells of itself is what its sources say. *)

Healthy == ~in_fallback /\ is_camera_online /\ inference_online

\* The status follows the sources, not the interlock.
StatusInv == ModeInv /\ (current => (status = "online" <=> Healthy))

\* A step with its announcement is a step of the loop.
LEMMA StatusStepIsLoopStep ==
  ASSUME [StatusNext]_nodeVars
  PROVE  [Next]_vars
BY Zenon DEF StatusNext, nodeVars, BrainDistrusted, BrainTrusted, QueueEmptied, CameraReads,
   CameraFails, DetectorIdle, DetectorFails, DetectorWorks, PhaseDecided, PhaseApplied,
   Wait, Next, Loop

\* A step that changes neither a source nor the topic.
LEMMA SilentStep ==
  ASSUME current => (status = "online" <=> Healthy),
         UNCHANGED statusVars, Healthy' <=> Healthy
  PROVE  current' => (status' = "online" <=> Healthy')
BY Zenon DEF statusVars

\* An alert that agrees with the sources after the step, whether it arrives or not.
LEMMA AlertStep ==
  ASSUME NEW s, Alert(s), s = "online" <=> Healthy'
  PROVE  current' => (status' = "online" <=> Healthy')
BY Zenon DEF Alert

\* The status stays true: every failure that is not known yet and every recovery that
\* gives the fixed cycle back is announced, and nothing else changes whether all
\* sources are healthy.
LEMMA StatusStep ==
  ASSUME FlagsOK, current => (status = "online" <=> Healthy), StatusNext
  PROVE  current' => (status' = "online" <=> Healthy')
<1>1. CASE BrainDistrusted
  <2>1. Alert("degraded") /\ ~Healthy'
    BY <1>1, Zenon DEF BrainDistrusted, EnterFallback, Healthy
  <2>2. "degraded" # "online"
    OBVIOUS
  <2> QED
    BY <2>1, <2>2, AlertStep, Zenon
<1>2. CASE BrainTrusted
  <2>1. /\ in_fallback /\ ~in_fallback'
        /\ is_camera_online' = is_camera_online /\ inference_online' = inference_online
        /\ AnnounceRecovery(TRUE, is_camera_online /\ inference_online)
    BY <1>2, Zenon DEF BrainTrusted, ExitFallback
  <2>2. CASE is_camera_online /\ inference_online
    <3>1. Alert("online") /\ Healthy'
      BY <2>1, <2>2, Zenon DEF AnnounceRecovery, Healthy
    <3> QED
      BY <3>1, AlertStep, Zenon
  <2>3. CASE ~(is_camera_online /\ inference_online)
    <3>1. Silent /\ ~Healthy /\ ~Healthy'
      BY <2>1, <2>3, Zenon DEF AnnounceRecovery, Healthy
    <3> QED
      BY <3>1, SilentStep, Zenon DEF Silent
  <2> QED
    BY <2>2, <2>3, Zenon
<1>3. CASE QueueEmptied \/ DetectorIdle \/ PhaseApplied \/ Wait \/ PhaseDecided
  <2>1. /\ in_fallback' = in_fallback /\ is_camera_online' = is_camera_online
        /\ inference_online' = inference_online
    BY <1>3, Zenon
       DEF QueueEmptied, DetectorIdle, PhaseApplied, Wait, PhaseDecided,
           Drained, SkipDetection, Apply, Tick, Decide, healthVars
  <2>2. Silent
    BY <1>3, Zenon DEF QueueEmptied, DetectorIdle, PhaseApplied, Wait, PhaseDecided
  <2>3. Healthy' <=> Healthy
    BY <2>1, Zenon DEF Healthy
  <2> QED
    BY <2>2, <2>3, SilentStep, Zenon DEF Silent
<1>4. CASE CameraReads
  <2>1. /\ is_camera_online' = TRUE /\ in_fallback' = in_fallback
        /\ inference_online' = inference_online
        /\ AnnounceRecovery(~is_camera_online, ~in_fallback /\ inference_online)
    BY <1>4, Zenon DEF CameraReads, FrameRead
  <2>2. CASE ~is_camera_online /\ ~in_fallback /\ inference_online
    <3>1. Alert("online") /\ Healthy'
      BY <2>1, <2>2, Zenon DEF AnnounceRecovery, Healthy
    <3> QED
      BY <3>1, AlertStep, Zenon
  <2>3. CASE ~(~is_camera_online /\ ~in_fallback /\ inference_online)
    <3>1. Silent
      BY <2>1, <2>3, Zenon DEF AnnounceRecovery
    <3>2. Healthy' <=> Healthy
      BY <2>1, <2>3, Zenon DEF Healthy
    <3> QED
      BY <3>1, <3>2, SilentStep, Zenon DEF Silent
  <2> QED
    BY <2>2, <2>3, Zenon
<1>5. CASE CameraFails
  <2>1. /\ in_fallback' = in_fallback /\ inference_online' = inference_online
        /\ is_camera_online' = (is_camera_online /\ last_frame <= CameraTimeout)
        /\ AnnounceFailure(is_camera_online /\ ~is_camera_online', "offline")
    BY <1>5, Zenon DEF CameraFails, NoFrame
  <2>2. CASE is_camera_online /\ ~is_camera_online'
    <3>1. Alert("offline") /\ ~Healthy'
      BY <2>1, <2>2, Zenon DEF AnnounceFailure, Healthy
    <3>2. "offline" # "online"
      OBVIOUS
    <3> QED
      BY <3>1, <3>2, AlertStep, Zenon
  <2>3. CASE ~(is_camera_online /\ ~is_camera_online')
    <3>1. Silent
      BY <2>1, <2>3, Zenon DEF AnnounceFailure
    <3>2. Healthy' <=> Healthy
      BY <2>1, <2>3, Zenon DEF Healthy
    <3> QED
      BY <3>1, <3>2, SilentStep, Zenon DEF Silent
  <2> QED
    BY <2>2, <2>3, Zenon
<1>6. CASE DetectorFails
  <2>1. /\ inference_online' = FALSE
        /\ AnnounceFailure(inference_online, "degraded")
    BY <1>6, Zenon DEF DetectorFails, InferenceFault
  <2>2. CASE inference_online
    <3>1. Alert("degraded") /\ ~Healthy'
      BY <2>1, <2>2, Zenon DEF AnnounceFailure, Healthy
    <3>2. "degraded" # "online"
      OBVIOUS
    <3> QED
      BY <3>1, <3>2, AlertStep, Zenon
  <2>3. CASE ~inference_online
    <3>1. Silent /\ ~Healthy /\ ~Healthy'
      BY <2>1, <2>3, Zenon DEF AnnounceFailure, Healthy
    <3> QED
      BY <3>1, SilentStep, Zenon DEF Silent
  <2> QED
    BY <2>2, <2>3, Zenon
<1>7. CASE DetectorWorks
  <2>1. /\ inference_online' = TRUE /\ in_fallback' = in_fallback
        /\ is_camera_online' = is_camera_online /\ is_camera_online
        /\ AnnounceRecovery(~inference_online, ~in_fallback)
    BY <1>7, Zenon DEF DetectorWorks, Inferred
  <2>2. CASE ~inference_online /\ ~in_fallback
    <3>1. Alert("online") /\ Healthy'
      BY <2>1, <2>2, Zenon DEF AnnounceRecovery, Healthy
    <3> QED
      BY <3>1, AlertStep, Zenon
  <2>3. CASE ~(~inference_online /\ ~in_fallback)
    <3>1. Silent
      BY <2>1, <2>3, Zenon DEF AnnounceRecovery
    <3>2. Healthy' <=> Healthy
      BY <2>1, <2>3, Zenon DEF Healthy
    <3> QED
      BY <3>1, <3>2, SilentStep, Zenon DEF Silent
  <2> QED
    BY <2>2, <2>3, Zenon
<1> QED
  BY <1>1, <1>2, <1>3, <1>4, <1>5, <1>6, <1>7, Zenon DEF StatusNext

\* As long as no alert was lost since the last that arrived, the retained status is
\* "online" exactly while the Brain has the heads.
THEOREM StatusIsTrue == StatusSpec => []StatusTellsMode
<1>1. StatusInit => StatusInv
  BY Zenon DEF StatusInit, StatusInv, Init, Safety!Init, ModeInv, FlagsOK, ModeAgreement
<1>2. StatusInv /\ [StatusNext]_nodeVars => StatusInv'
  <2> SUFFICES ASSUME StatusInv, [StatusNext]_nodeVars PROVE StatusInv'
    OBVIOUS
  <2>1. ModeInv'
    BY StatusStepIsLoopStep, NothingHappens, StepMode, Zenon DEF StatusInv, ModeInv, vars
  <2>2. CASE StatusNext
    BY <2>1, <2>2, StatusStep, Zenon DEF StatusInv, ModeInv
  <2>3. CASE UNCHANGED nodeVars
    BY <2>1, <2>3, SilentStep, Zenon DEF StatusInv, nodeVars, vars, healthVars, Healthy
  <2> QED
    BY <2>2, <2>3
<1>3. StatusInv => StatusTellsMode
  BY Zenon DEF StatusInv, ModeInv, ModeAgreement, Healthy, StatusTellsMode
<1> QED
  BY <1>1, <1>2, <1>3, PTL DEF StatusSpec

----------------------------------------------------------------------------
(* What the drivers see. *)

\* What is proved of the interlock, of the loop's interlock.
Layer == INSTANCE SafetyLayerProofs WITH PollGap <- MaxBlock

\* The loop builds its interlock within the assumptions of the interlock's proofs.
LEMMA LayerAssumption == Layer!SafetyLayerAssumption
<1> USE EdgeNodeAssumption
    DEF EdgeNodeAssumption, Layer!SafetyLayerAssumption, Layer!Timings, Layer!Duration,
        Safety!Timings, Safety!Duration, MajorApproach, Layer!MajorApproach
<1>1. MaxAge > MAX_GREEN_S + MaxBlock
  OBVIOUS
<1>2. TimingChoices \subseteq Layer!Timings
  OBVIOUS
<1> QED
  BY <1>1, <1>2

\* Both are the same interlock: its states, its steps, its polls.
LEMMA SameValidate == \A desired : Layer!Validate(desired) <=> Safety!Validate(desired)
BY DEF
  Layer!Validate, Safety!Validate, Layer!StepFlash, Safety!StepFlash,
  Layer!StepEmergency, Safety!StepEmergency, Layer!StepNormal, Safety!StepNormal,
  Layer!NormalGreen, Safety!NormalGreen, Layer!NormalYellow, Safety!NormalYellow,
  Layer!NormalAllRed, Safety!NormalAllRed, Layer!config, Safety!config,
  Layer!KeepTarget, Safety!KeepTarget, Layer!KeepMode, Safety!KeepMode,
  Layer!Show, Safety!Show, Layer!HoldPhase, Safety!HoldPhase,
  Layer!EnterFlashClearance, Safety!EnterFlashClearance,
  Layer!BeginYellow, Safety!BeginYellow, Layer!AdvanceRing, Safety!AdvanceRing,
  Layer!FlashStates, Safety!FlashStates, Layer!FlashClearance, Safety!FlashClearance,
  Layer!Trusted, Safety!Trusted, Layer!Elapsed, Safety!Elapsed,
  Layer!RingDuration, Safety!RingDuration, Layer!RingStuck, Safety!RingStuck,
  Layer!SanityTimeout, Safety!SanityTimeout,
  Layer!kEmergencyRing, Safety!kEmergencyRing, Layer!Want, Safety!Want,
  Layer!WatchdogTarget, Safety!WatchdogTarget, Layer!AcceptsTarget, Safety!AcceptsTarget,
  Layer!FlashPhaseFor, Safety!FlashPhaseFor, Layer!IsGreen, Safety!IsGreen,
  Layer!IsYellow, Safety!IsYellow, Layer!IsNS, Safety!IsNS,
  Layer!YellowFor, Safety!YellowFor, Layer!OppositeGreen, Safety!OppositeGreen,
  Layer!Greens, Safety!Greens, Layer!Yellows, Safety!Yellows

LEMMA SameSpec ==
  /\ Safety!Init => Layer!Init
  /\ [Safety!Next]_(Safety!vars) => [Layer!Next]_(Layer!vars)
  /\ Safety!TypeOK <=> Layer!TypeOK
<1>1. Safety!Init => Layer!Init
  BY Zenon DEF Safety!Init, Layer!Init
<1>2. UNCHANGED Safety!vars <=> UNCHANGED Layer!vars
  BY Zenon DEF Safety!vars, Layer!vars
<1>3. Safety!OperationalPhases = Layer!OperationalPhases
  BY Zenon DEF Safety!OperationalPhases, Layer!OperationalPhases, Safety!Greens,
     Layer!Greens, Safety!Yellows, Layer!Yellows
<1>4. \A on : Safety!SetEmergencyMode(on) <=> Layer!SetEmergencyMode(on)
  BY DEF Safety!SetEmergencyMode, Layer!SetEmergencyMode, Safety!FlashStates,
     Layer!FlashStates, Safety!EnterRing, Layer!EnterRing, Safety!LeaveRing,
     Layer!LeaveRing, Safety!Show, Layer!Show, Safety!KeepTarget, Layer!KeepTarget,
     Safety!config, Layer!config, Safety!kEmergencyRing, Layer!kEmergencyRing
<1>5. (Safety!Reset <=> Layer!Reset) /\ (Safety!Tick <=> Layer!Tick)
  BY DEF Safety!Reset, Layer!Reset, Safety!Tick, Layer!Tick, Safety!Show, Layer!Show,
     Safety!config, Layer!config
<1>6. Safety!Next <=> Layer!Next
  BY <1>3, <1>4, <1>5, SameValidate, Zenon DEF Safety!Next, Layer!Next
<1>7. Safety!TypeOK <=> Layer!TypeOK
  BY DEF Safety!TypeOK, Layer!TypeOK, Safety!States, Layer!States, Safety!FlashStates,
     Layer!FlashStates, Safety!Phase, Layer!Phase, Safety!OperationalPhases,
     Layer!OperationalPhases, Safety!Greens, Layer!Greens, Safety!Yellows, Layer!Yellows,
     Safety!Flashes, Layer!Flashes, Safety!kEmergencyRing, Layer!kEmergencyRing
<1>8. [Safety!Next]_(Safety!vars) => [Layer!Next]_(Layer!vars)
  BY <1>2, <1>6, Zenon
<1> QED
  BY <1>1, <1>7, <1>8

\* The interlock inside the loop satisfies its own invariant.
LEMMA LayerInvariance == Spec => []Layer!IInv
<1>1. Layer!Spec => []Layer!IInv
  BY LayerAssumption, Layer!Invariance
<1>2. Safety!Spec => Layer!Spec
  BY SameSpec, PTL DEF Safety!Spec, Layer!Spec
<1> QED
  BY <1>1, <1>2, NodeUsesInterlock, PTL


\* The heads show what the interlock wants.  Since when they do so may differ for red
\* only: a toggle of the mode starts it anew while the heads show red already.
InStep ==
  /\ applied = current_phase
  /\ applied # "ALL_RED" => shown_for = age
  /\ applied = "ALL_RED" => age <= shown_for + MaxBlock
  /\ state = "FLASH_CLEARANCE" => age <= shown_for

\* A toggle, or the boot, cleared the junction and the heads do not show it yet.
Behind ==
  /\ applied = "ALL_RED" /\ current_phase # "ALL_RED"
  /\ current_phase \notin {"FLASH_YELLOW_NS", "FLASH_YELLOW_EW"}

\* A poll has decided on another phase, which is about to be applied.
Decided ==
  /\ age = 0
  /\ \/ /\ applied \in Greens /\ current_phase = "ALL_RED"
        /\ t.all_red \in Int /\ t.all_red <= shown_for + MaxBlock
     \/ current_phase \in Greens /\ applied = YellowFor(current_phase)
     \/ applied \in Flashes /\ current_phase = "ALL_RED" /\ shown_for > 0

Moving == current_phase \in Greens \cup Yellows

HeadsInv ==
  /\ pc # "apply" =>
       /\ \/ InStep
          \/ Behind /\ age <= idle /\ state # "FLASH_CLEARANCE"
       /\ Moving => shown_for < MAX_GREEN_S + idle
  /\ pc = "apply" =>
       /\ \/ InStep
          \/ Behind /\ age <= MaxBlock /\ (state = "FLASH_CLEARANCE" => age = 0)
          \/ Decided
       /\ Moving => shown_for < MAX_GREEN_S + MaxBlock


\* The bounds of the loop, as integers.
LEMMA NodeConstants ==
  /\ MAX_GREEN_S \in Nat /\ MaxBlock \in Nat /\ MaxAge \in Nat /\ CameraTimeout \in Nat
  /\ MaxAge > MAX_GREEN_S + MaxBlock
  /\ Never \notin Int
BY EdgeNodeAssumption DEF EdgeNodeAssumption

\* What the interlock's invariant says of the phase on its output.
LEMMA LayerFacts ==
  ASSUME Layer!IInv
  PROVE  /\ age \in Nat /\ age <= MaxAge /\ idle \in Nat /\ idle <= MaxBlock
         /\ applied \in Phase /\ t \in TimingChoices
         /\ state = "FLASH_CLEARANCE" => applied = "ALL_RED"
         /\ applied \in Flashes => state = "FLASH"
         /\ applied \in Greens \cup Yellows => age < MAX_GREEN_S + idle
<1>1. Layer!TypeOK /\ Layer!Shape /\ Layer!FreshAtLastPoll
  BY DEF Layer!IInv
<1>2. /\ age \in Nat /\ age <= MaxAge /\ idle \in Nat /\ idle <= MaxBlock
      /\ t \in TimingChoices
  BY <1>1, NodeConstants DEF Layer!TypeOK
<1>3. applied \in Phase
  BY <1>1 DEF Layer!TypeOK, Layer!Phase, Layer!OperationalPhases, Layer!Greens,
     Layer!Yellows, Layer!Flashes, Phase, OperationalPhases, Greens, Yellows, Flashes
<1>4. state = "FLASH_CLEARANCE" => applied = "ALL_RED"
  BY <1>1 DEF Layer!Shape
<1>5. applied \in Flashes => state = "FLASH"
  BY <1>1, LayerAssumption, Layer!RingPhases
     DEF Layer!Shape, Layer!TypeOK, Layer!States, Layer!FlashStates, Layer!IsGreen,
         Layer!Greens, Layer!IsYellow, Layer!Yellows, Flashes
<1>6. state = "FLASH" => applied \in Flashes
  BY <1>1 DEF Layer!Shape, Layer!Flashes, Flashes
<1>7. state = "ALL_RED" => applied = "ALL_RED"
  BY <1>1 DEF Layer!Shape
<1>8. applied \in Greens \cup Yellows => age < MAX_GREEN_S + idle
  BY <1>1, <1>6, <1>7 DEF Layer!FreshAtLastPoll, Layer!Resting, Greens, Yellows, Flashes
<1> QED
  BY <1>2, <1>3, <1>4, <1>5, <1>8

\* The effect of a poll on the interlock's output.
LEMMA PollEffect ==
  ASSUME Layer!IInv, NEW desired \in OperationalPhases, Safety!Validate(desired)
  PROVE  /\ t' = t /\ idle' = 0
         /\ \/ state' = state /\ applied' = applied /\ age' = age
            \/ /\ age' = 0
               /\ \/ applied \in Phase \ Flashes /\ applied' = "ALL_RED"
                  \/ applied \in Greens /\ applied' = YellowFor(applied)
                  \/ /\ applied = "ALL_RED" /\ applied' \in Greens
                     /\ t.all_red # Never /\ age >= t.all_red
                  \/ /\ applied = "ALL_RED" /\ applied' \in Flashes
                     /\ state = "FLASH_CLEARANCE" /\ age > 0
<1>1. Layer!TypeOK /\ Layer!Shape
  BY DEF Layer!IInv
<1>2. Layer!Validate(desired) /\ desired \in Layer!OperationalPhases
  BY SameValidate, Zenon DEF OperationalPhases, Greens, Yellows, Layer!OperationalPhases,
     Layer!Greens, Layer!Yellows
<1>3. \/ Layer!HoldPhase
      \/ /\ age' = 0
         /\ \/ Layer!PollClears \/ Layer!PollWarns
            \/ Layer!PollServes \/ Layer!PollFlashes
  BY <1>1, <1>2, LayerAssumption, Layer!PollMoves
<1>4. t' = t /\ idle' = 0
  BY Zenon DEF Safety!Validate, Safety!config
<1>5. Layer!HoldPhase => state' = state /\ applied' = applied /\ age' = age
  BY DEF Layer!HoldPhase
<1>6. Layer!PollClears => applied \in Phase \ Flashes /\ applied' = "ALL_RED"
  BY DEF Layer!PollClears, Layer!Phase, Layer!OperationalPhases, Layer!Greens,
     Layer!Yellows, Layer!Flashes, Phase, OperationalPhases, Greens, Yellows, Flashes
<1>7. Layer!PollWarns => applied \in Greens /\ applied' = YellowFor(applied)
  BY DEF Layer!PollWarns, Layer!Greens, Greens, Layer!YellowFor, YellowFor, Layer!IsNS, IsNS
<1>8. Layer!PollServes => /\ applied = "ALL_RED" /\ applied' \in Greens
                          /\ t.all_red # Never /\ age >= t.all_red
  BY DEF Layer!PollServes, Layer!Greens, Greens, Layer!Elapsed
<1>9. Layer!PollFlashes => /\ applied = "ALL_RED" /\ applied' \in Flashes
                           /\ state = "FLASH_CLEARANCE" /\ age > 0
  BY DEF Layer!PollFlashes, Layer!Flashes, Flashes
<1> QED
  BY <1>3, <1>4, <1>5, <1>6, <1>7, <1>8, <1>9, Zenon

\* The clearance of the budget is an integer longer than an iteration, or never ends.
LEMMA LongClearance ==
  ASSUME IterationsAreShort, t \in TimingChoices, t.all_red # Never
  PROVE  t.all_red \in Int /\ t.all_red > MaxBlock
BY EdgeNodeAssumption
   DEF EdgeNodeAssumption, IterationsAreShort, Safety!Timings, Safety!Duration

\* A call of set_emergency_mode() clears the junction, or has no effect.
LEMMA CallClears ==
  ASSUME Layer!IInv, NEW on \in BOOLEAN, Safety!CallSetEmergencyMode(on)
  PROVE  \/ UNCHANGED safetyVars
         \/ /\ applied \notin Flashes /\ applied' = "ALL_RED" /\ age' = 0
            /\ state' # "FLASH_CLEARANCE" /\ t' = t /\ idle' = idle
<1>1. CASE Safety!SetEmergencyModeIgnored(on)
  BY <1>1, Zenon DEF Safety!SetEmergencyModeIgnored, Safety!vars, safetyVars
<1>2. CASE Safety!SetEmergencyMode(on)
  <2>1. applied \notin Flashes
    BY <1>2, LayerFacts DEF Safety!SetEmergencyMode, Safety!FlashStates
  <2>2. /\ applied' = "ALL_RED" /\ age' = 0 /\ state' # "FLASH_CLEARANCE"
        /\ t' = t /\ idle' = idle
    BY <1>2 DEF Safety!SetEmergencyMode, Safety!EnterRing, Safety!LeaveRing, Safety!Show,
       Safety!kEmergencyRing, Safety!config
  <2> QED
    BY <2>1, <2>2
<1> QED
  BY <1>1, <1>2, Zenon DEF Safety!CallSetEmergencyMode


\* The state of the loop and of the actuator is well typed.
LoopTypeOK ==
  /\ current_phase \in Phase
  /\ north_south \in Controller!Head
  /\ east_west \in Controller!Head
  /\ pc \in {"drain", "read", "detect", "validate", "apply"}
  /\ in_fallback \in BOOLEAN
  /\ is_camera_online \in BOOLEAN
  /\ inference_online \in BOOLEAN
  /\ last_frame \in 0..(CameraTimeout + 1)
  /\ shown_for \in 0..MaxAge

\* Lamps are lit and put out, never added or removed.
LEMMA LitTyped ==
  ASSUME NEW lamps, NEW head \in Controller!Head
  PROVE  Controller!Lit(lamps, head) \in Controller!Head
BY DEF Controller!Lit, Controller!Head

\* The actuator at boot and after each of its calls.
LEMMA ControllerTyped ==
  /\ Controller!Init => /\ current_phase = "FLASH_ALL_RED"
                        /\ north_south \in Controller!Head /\ east_west \in Controller!Head
  /\ \A p : Controller!SetPhase(p) =>
       /\ current_phase' = p
       /\ north_south \in Controller!Head => north_south' \in Controller!Head
       /\ east_west \in Controller!Head => east_west' \in Controller!Head
<1>1. Controller!Init => /\ current_phase = "FLASH_ALL_RED"
                         /\ north_south \in Controller!Head /\ east_west \in Controller!Head
  BY DEF Controller!Init, Controller!Head
<1>2. ASSUME NEW p, Controller!SetPhase(p)
      PROVE  /\ current_phase' = p
             /\ north_south \in Controller!Head => north_south' \in Controller!Head
             /\ east_west \in Controller!Head => east_west' \in Controller!Head
  <2>1. CASE p = current_phase
    BY <1>2, <2>1, Zenon DEF Controller!SetPhase, Controller!vars
  <2>2. CASE p # current_phase
    BY <1>2, <2>2, LitTyped, Zenon DEF Controller!SetPhase
  <2> QED
    BY <2>1, <2>2
<1> QED
  BY <1>1, <1>2

\* Every step keeps the types.
LEMMA StepLoopTypes ==
  ASSUME LoopTypeOK, applied \in Phase, [Next]_vars
  PROVE  LoopTypeOK'
<1> USE NodeConstants DEF LoopTypeOK, HeadsStay, headVars, healthVars, Goto
<1>1. CASE EnterFallback
  BY <1>1 DEF EnterFallback
<1>2. CASE ExitFallback
  BY <1>2 DEF ExitFallback
<1>3. CASE Drained
  BY <1>3 DEF Drained
<1>4. CASE FrameRead
  BY <1>4 DEF FrameRead
<1>5. CASE NoFrame
  BY <1>5 DEF NoFrame
<1>6. CASE SkipDetection
  BY <1>6 DEF SkipDetection
<1>7. CASE InferenceFault
  BY <1>7 DEF InferenceFault
<1>8. CASE Inferred
  BY <1>8 DEF Inferred
<1>9. ASSUME NEW desired \in OperationalPhases, Decide(desired) PROVE LoopTypeOK'
  BY <1>9 DEF Decide
<1>10. CASE Apply
  <2>1. current_phase' = applied /\ north_south' \in Controller!Head
        /\ east_west' \in Controller!Head
    BY <1>10, ControllerTyped, Zenon DEF Apply
  <2> QED
    BY <1>10, <2>1 DEF Apply
<1>11. CASE Tick
  BY <1>11 DEF Tick
<1>12. CASE UNCHANGED vars
  BY <1>12 DEF vars
<1> QED
  BY <1>1, <1>2, <1>3, <1>4, <1>5, <1>6, <1>7, <1>8, <1>9, <1>10, <1>11, <1>12, Zenon
     DEF Next, Loop

\* A call of set_emergency_mode(), or none, outside of the poll: the heads stay in step
\* or fall behind.
LEMMA ToggleKeepsHeads ==
  ASSUME Layer!IInv, LoopTypeOK, HeadsInv, pc # "apply", pc' # "apply", HeadsStay,
         NEW on \in BOOLEAN, Safety!CallSetEmergencyMode(on) \/ UNCHANGED safetyVars
  PROVE  HeadsInv'
<1>1. current_phase' = current_phase /\ shown_for' = shown_for
  BY DEF HeadsStay, headVars
<1>2. CASE UNCHANGED safetyVars
  <2>1. applied' = applied /\ age' = age /\ idle' = idle /\ state' = state
    BY <1>2 DEF safetyVars
  <2> QED
    BY <1>1, <2>1, Zenon DEF HeadsInv, InStep, Behind, Moving
<1>3. CASE /\ applied \notin Flashes /\ applied' = "ALL_RED" /\ age' = 0
           /\ state' # "FLASH_CLEARANCE" /\ idle' = idle
  <2>1. idle \in Nat /\ MaxBlock \in Nat /\ shown_for \in Nat
    BY LayerFacts, NodeConstants DEF LoopTypeOK
  <2>2. current_phase \notin {"FLASH_YELLOW_NS", "FLASH_YELLOW_EW"}
    BY <1>3 DEF HeadsInv, InStep, Behind, Flashes
  <2>3. InStep' \/ (Behind' /\ age' <= idle' /\ state' # "FLASH_CLEARANCE")
    BY <1>1, <1>3, <2>1, <2>2 DEF InStep, Behind
  <2>4. (Moving => shown_for < MAX_GREEN_S + idle)'
    BY <1>1, <1>3 DEF HeadsInv, Moving
  <2> QED
    BY <2>3, <2>4, Zenon DEF HeadsInv
<1> QED
  BY <1>2, <1>3, CallClears

\* Time passes.
LEMMA TickKeepsHeads ==
  ASSUME Layer!IInv, LoopTypeOK, HeadsInv, Tick
  PROVE  HeadsInv'
<1> USE NodeConstants, LayerFacts
<1>1. /\ applied' = applied /\ state' = state /\ current_phase' = current_phase
      /\ pc' = pc /\ pc # "apply"
  BY DEF Tick, Safety!Tick, headVars
<1>2. /\ idle' = idle + 1 /\ age' = IF age < MaxAge THEN age + 1 ELSE age
      /\ shown_for' = IF shown_for < MaxAge THEN shown_for + 1 ELSE shown_for
  BY DEF Tick, Safety!Tick
<1>3. shown_for \in Nat /\ shown_for <= MaxAge
  BY DEF LoopTypeOK
<1>4. InStep => InStep'
  BY <1>1, <1>2, <1>3 DEF InStep
<1>5. Behind /\ age <= idle => Behind' /\ age' <= idle'
  BY <1>1, <1>2 DEF Behind
<1>6. Moving' => Moving
  BY <1>1 DEF Moving
<1>7. Moving' => shown_for' < MAX_GREEN_S + idle'
  BY <1>1, <1>2, <1>3, <1>6 DEF HeadsInv
<1> QED
  BY <1>1, <1>4, <1>5, <1>7, Zenon DEF HeadsInv

\* A poll: from behind it only waits or clears, since the clearance outlasts the
\* iteration; in step it decides as the promise has it.
LEMMA DecideKeepsHeads ==
  ASSUME IterationsAreShort, Layer!IInv, LoopTypeOK, HeadsInv,
         NEW desired \in OperationalPhases, Decide(desired)
  PROVE  HeadsInv'
<1> USE NodeConstants, LayerFacts
<1>1. /\ current_phase' = current_phase /\ shown_for' = shown_for
      /\ pc = "validate" /\ pc' = "apply" /\ Safety!Validate(desired)
  BY DEF Decide, HeadsStay, headVars, Goto
<1>2. shown_for \in Nat /\ shown_for <= MaxAge
  BY DEF LoopTypeOK
<1>3. Moving' => shown_for' < MAX_GREEN_S + MaxBlock
  <2>1. Moving' => Moving
    BY <1>1 DEF Moving
  <2> QED
    BY <1>1, <1>2, <2>1 DEF HeadsInv
<1>4. t' = t
  BY <1>1, PollEffect
<1>5. CASE InStep
  <2>1. ASSUME state' = state, applied' = applied, age' = age
        PROVE  InStep'
    BY <1>1, <1>5, <2>1, Zenon DEF InStep
  <2>2. ASSUME age' = 0, applied \in Phase \ Flashes, applied' = "ALL_RED"
        PROVE  InStep' \/ Behind'
    BY <1>1, <1>2, <1>5, <2>2 DEF InStep, Behind, Flashes
  <2>3. ASSUME age' = 0, applied \in Greens, applied' = YellowFor(applied)
        PROVE  Decided'
    BY <1>1, <1>5, <2>3, Zenon DEF InStep, Decided
  <2>4. ASSUME age' = 0, applied = "ALL_RED", applied' \in Greens,
               t.all_red # Never, age >= t.all_red
        PROVE  Decided'
    <3>1. t.all_red \in Int /\ t.all_red <= shown_for + MaxBlock
      BY <1>2, <1>5, <2>4, LongClearance DEF InStep
    <3> QED
      BY <1>1, <1>4, <1>5, <2>4, <3>1, Zenon DEF InStep, Decided
  <2>5. ASSUME age' = 0, applied = "ALL_RED", applied' \in Flashes,
               state = "FLASH_CLEARANCE", age > 0
        PROVE  Decided'
    <3>1. shown_for > 0
      BY <1>2, <1>5, <2>5 DEF InStep
    <3> QED
      BY <1>1, <1>5, <2>5, <3>1, Zenon DEF InStep, Decided
  <2>6. InStep' \/ (Behind' /\ age' = 0) \/ Decided'
    BY <1>1, <2>1, <2>2, <2>3, <2>4, <2>5, PollEffect, Zenon
  <2>7. age' = 0 => age' <= MaxBlock
    OBVIOUS
  <2> QED
    BY <1>1, <1>3, <2>6, <2>7, Zenon DEF HeadsInv
<1>6. CASE Behind /\ age <= idle /\ state # "FLASH_CLEARANCE"
  <2>1. applied' = "ALL_RED" /\ ((age' = age /\ state' = state) \/ age' = 0)
    BY <1>1, <1>6, PollEffect, LongClearance DEF Behind, Flashes, Greens
  <2>2. Behind' /\ age' <= MaxBlock /\ (state' = "FLASH_CLEARANCE" => age' = 0)
    BY <1>1, <1>6, <2>1 DEF Behind
  <2> QED
    BY <1>1, <1>3, <2>2 DEF HeadsInv
<1> QED
  BY <1>1, <1>5, <1>6 DEF HeadsInv

\* The heads follow.
LEMMA ApplyKeepsHeads ==
  ASSUME Layer!IInv, LoopTypeOK, HeadsInv, Apply
  PROVE  HeadsInv'
<1> USE NodeConstants, LayerFacts
<1>1. /\ current_phase' = applied /\ pc = "apply" /\ pc' = "drain"
      /\ shown_for' = IF applied = current_phase THEN shown_for ELSE 0
      /\ applied' = applied /\ age' = age /\ state' = state /\ idle' = idle
  BY ControllerTyped DEF Apply, safetyVars, Goto
<1>2. shown_for \in Nat /\ shown_for <= MaxAge
  BY DEF LoopTypeOK
<1>3. InStep'
  <2>1. CASE InStep
    BY <1>1, <2>1, Zenon DEF InStep
  <2>2. CASE Behind /\ age <= MaxBlock /\ (state = "FLASH_CLEARANCE" => age = 0)
    BY <1>1, <2>2 DEF InStep, Behind
  <2>3. CASE Decided
    <3>1. applied # current_phase /\ age = 0
      BY <2>3 DEF Decided, Greens, Flashes, YellowFor
    <3> QED
      BY <1>1, <3>1 DEF InStep
  <2> QED
    BY <1>1, <2>1, <2>2, <2>3, Zenon DEF HeadsInv
<1>4. Moving' => shown_for' < MAX_GREEN_S + idle'
  <2>1. CASE applied # current_phase
    BY <1>1, <2>1, EdgeNodeAssumption DEF EdgeNodeAssumption
  <2>2. CASE applied = current_phase
    BY <1>1, <1>3, <2>2 DEF InStep, Moving, Greens, Yellows
  <2> QED
    BY <2>1, <2>2
<1> QED
  BY <1>1, <1>3, <1>4 DEF HeadsInv

\* Every step of the loop keeps the heads in step, or behind a clearance.
LEMMA StepKeepsHeads ==
  ASSUME IterationsAreShort, Layer!IInv, LoopTypeOK, HeadsInv, [Next]_vars
  PROVE  HeadsInv'
<1>1. CASE \/ EnterFallback \/ ExitFallback \/ Drained
           \/ FrameRead \/ NoFrame
           \/ SkipDetection \/ InferenceFault \/ Inferred
  <2>1. pc # "apply" /\ pc' # "apply"
    BY <1>1 DEF EnterFallback, ExitFallback, Drained, FrameRead, NoFrame, SkipDetection,
                InferenceFault, Inferred, Goto
  <2>2. HeadsStay
    BY <1>1, Zenon DEF EnterFallback, ExitFallback, Drained, FrameRead, NoFrame,
                       SkipDetection, InferenceFault, Inferred
  <2>3. PICK on \in BOOLEAN : Safety!CallSetEmergencyMode(on) \/ UNCHANGED safetyVars
    BY <1>1, Zenon DEF EnterFallback, ExitFallback, ExitFallbackIfSafe, Drained, FrameRead,
                       NoFrame, SkipDetection, InferenceFault, Inferred
  <2> QED
    BY <2>1, <2>2, <2>3, ToggleKeepsHeads
<1>2. ASSUME NEW desired \in OperationalPhases, Decide(desired) PROVE HeadsInv'
  BY <1>2, DecideKeepsHeads
<1>3. CASE Apply
  BY <1>3, ApplyKeepsHeads
<1>4. CASE Tick
  BY <1>4, TickKeepsHeads
<1>5. CASE UNCHANGED vars
  BY <1>5, Zenon DEF vars, safetyVars, headVars, HeadsInv, InStep, Behind, Decided, Moving
<1> QED
  BY <1>1, <1>2, <1>3, <1>4, <1>5, Zenon DEF Next, Loop

\* At boot the interlock holds red and the heads still flash.
LEMMA BootHeads == ASSUME Init PROVE LoopTypeOK /\ HeadsInv
<1>1. /\ current_phase = "FLASH_ALL_RED"
      /\ north_south \in Controller!Head /\ east_west \in Controller!Head
  BY ControllerTyped DEF Init
<1>2. /\ pc = "drain" /\ in_fallback = FALSE /\ is_camera_online = TRUE
      /\ inference_online = TRUE /\ last_frame = 0 /\ shown_for = 0
  BY DEF Init
<1>3. LoopTypeOK
  <2>1. current_phase \in Phase
    BY <1>1 DEF Phase, Flashes
  <2>2. last_frame \in 0..(CameraTimeout + 1) /\ shown_for \in 0..MaxAge
    BY <1>2, NodeConstants
  <2> QED
    BY <1>1, <1>2, <2>1, <2>2 DEF LoopTypeOK
<1>4. applied = "ALL_RED" /\ age = 0 /\ idle = 0 /\ state = "ALL_RED"
  BY DEF Init, Safety!Init
<1>5. HeadsInv
  BY <1>1, <1>2, <1>4 DEF HeadsInv, Behind, Moving, Greens, Yellows
<1> QED
  BY <1>3, <1>5

\* The budget is chosen when the node is built.
LEMMA BudgetStays ==
  ASSUME Layer!IInv, [Next]_vars
  PROVE  t' = t
<1>1. CASE \/ EnterFallback \/ ExitFallback \/ Drained
           \/ FrameRead \/ NoFrame
           \/ SkipDetection \/ InferenceFault \/ Inferred
  <2>1. PICK on \in BOOLEAN : Safety!CallSetEmergencyMode(on) \/ UNCHANGED safetyVars
    BY <1>1, Zenon DEF EnterFallback, ExitFallback, ExitFallbackIfSafe, Drained, FrameRead,
                       NoFrame, SkipDetection, InferenceFault, Inferred
  <2> QED
    BY <2>1, CallClears, Zenon DEF safetyVars
<1>2. ASSUME NEW desired \in OperationalPhases, Decide(desired) PROVE t' = t
  BY <1>2, PollEffect, Zenon DEF Decide
<1>3. CASE Apply \/ UNCHANGED vars
  BY <1>3, Zenon DEF Apply, vars, safetyVars
<1>4. CASE Tick
  BY <1>4, Zenon DEF Tick, Safety!Tick, Safety!config
<1> QED
  BY <1>1, <1>2, <1>3, <1>4, Zenon DEF Next, Loop

\* All three together are inductive, the last one while iterations are short: whether
\* they are is settled with the budget.
THEOREM HeadsInvariance ==
  Spec => [](Layer!IInv /\ LoopTypeOK /\ (IterationsAreShort => HeadsInv))
<1>1. Init => LoopTypeOK /\ HeadsInv
  BY BootHeads
<1>2. Layer!IInv /\ [Next]_vars => (IterationsAreShort' => IterationsAreShort)
  BY BudgetStays, Zenon DEF IterationsAreShort
<1>3. Layer!IInv /\ LoopTypeOK /\ [Next]_vars => LoopTypeOK'
  BY LayerFacts, StepLoopTypes, Zenon
<1>4. IterationsAreShort /\ Layer!IInv /\ LoopTypeOK /\ HeadsInv /\ [Next]_vars => HeadsInv'
  BY StepKeepsHeads, Zenon
<1> QED
  BY <1>1, <1>2, <1>3, <1>4, LayerInvariance, PTL DEF Spec

----------------------------------------------------------------------------
(* An amber ends, however long the iterations. *)

\* Except while a decision waits for its application, the heads show the green or the
\* amber of the interlock; and an amber since when the interlock began it, until a
\* toggle ends it there.
AmberInv ==
  /\ pc # "apply" /\ applied \in Greens \cup Yellows => applied = current_phase
  /\ applied \in Yellows => \/ applied = current_phase /\ shown_for = age
                            \/ applied # current_phase /\ pc = "apply" /\ age = 0
  /\ current_phase \in Yellows =>
       shown_for < MAX_GREEN_S + IF pc = "apply" THEN MaxBlock ELSE idle

\* A call of set_emergency_mode(), or none, outside of the poll.
LEMMA ToggleKeepsAmber ==
  ASSUME Layer!IInv, LoopTypeOK, AmberInv, pc # "apply", pc' # "apply", HeadsStay,
         NEW on \in BOOLEAN, Safety!CallSetEmergencyMode(on) \/ UNCHANGED safetyVars
  PROVE  AmberInv'
<1>1. current_phase' = current_phase /\ shown_for' = shown_for
  BY DEF HeadsStay, headVars
<1>2. CASE UNCHANGED safetyVars
  <2>1. applied' = applied /\ age' = age /\ idle' = idle
    BY <1>2 DEF safetyVars
  <2> QED
    BY <1>1, <2>1, Zenon DEF AmberInv
<1>3. CASE applied' = "ALL_RED" /\ idle' = idle
  BY <1>1, <1>3 DEF AmberInv, Greens, Yellows
<1> QED
  BY <1>2, <1>3, CallClears

\* Time passes for the heads as for the interlock.
LEMMA TickKeepsAmber ==
  ASSUME Layer!IInv, LoopTypeOK, AmberInv, Tick
  PROVE  AmberInv'
<1> USE NodeConstants, LayerFacts
<1>1. /\ applied' = applied /\ current_phase' = current_phase /\ pc' = pc /\ pc # "apply"
  BY DEF Tick, Safety!Tick, headVars
<1>2. /\ idle' = idle + 1 /\ age' = IF age < MaxAge THEN age + 1 ELSE age
      /\ shown_for' = IF shown_for < MaxAge THEN shown_for + 1 ELSE shown_for
  BY DEF Tick, Safety!Tick
<1>3. shown_for \in Nat /\ shown_for <= MaxAge
  BY DEF LoopTypeOK
<1>4. current_phase' \in Yellows => shown_for' < MAX_GREEN_S + idle'
  BY <1>1, <1>2, <1>3 DEF AmberInv
<1>5. applied \in Yellows => applied = current_phase /\ shown_for' = age'
  BY <1>1, <1>2 DEF AmberInv
<1> QED
  BY <1>1, <1>4, <1>5, Zenon DEF AmberInv

\* A poll keeps an amber or begins another one, and resets the idle time just when the
\* heads have all of an iteration left to follow.
LEMMA DecideKeepsAmber ==
  ASSUME Layer!IInv, LoopTypeOK, AmberInv,
         NEW desired \in OperationalPhases, Decide(desired)
  PROVE  AmberInv'
<1> USE NodeConstants, LayerFacts
<1>1. /\ current_phase' = current_phase /\ shown_for' = shown_for
      /\ pc = "validate" /\ pc' = "apply" /\ Safety!Validate(desired)
  BY DEF Decide, HeadsStay, headVars, Goto
<1>2. shown_for \in Nat
  BY DEF LoopTypeOK
<1>3. current_phase' \in Yellows => shown_for' < MAX_GREEN_S + MaxBlock
  BY <1>1, <1>2 DEF AmberInv
<1>4. ASSUME applied' \in Yellows
      PROVE  \/ applied' = current_phase' /\ shown_for' = age'
             \/ applied' # current_phase' /\ age' = 0
  <2>1. \/ applied' = applied /\ age' = age
        \/ applied \in Greens /\ applied' = YellowFor(applied) /\ age' = 0
    BY <1>1, <1>4, PollEffect DEF Yellows, Greens, Flashes
  <2>2. CASE applied' = applied /\ age' = age
    BY <1>1, <1>4, <2>2, Zenon DEF AmberInv
  <2>3. CASE applied \in Greens /\ applied' = YellowFor(applied) /\ age' = 0
    <3>1. applied = current_phase
      BY <1>1, <2>3 DEF AmberInv
    <3> QED
      BY <1>1, <2>3, <3>1 DEF YellowFor, Greens
  <2> QED
    BY <2>1, <2>2, <2>3
<1> QED
  BY <1>1, <1>3, <1>4, Zenon DEF AmberInv

\* The heads follow.
LEMMA ApplyKeepsAmber ==
  ASSUME Layer!IInv, LoopTypeOK, AmberInv, Apply
  PROVE  AmberInv'
<1> USE NodeConstants, LayerFacts
<1>1. /\ current_phase' = applied /\ pc = "apply" /\ pc' = "drain"
      /\ shown_for' = IF applied = current_phase THEN shown_for ELSE 0
      /\ applied' = applied /\ age' = age /\ idle' = idle
  BY ControllerTyped DEF Apply, safetyVars, Goto
<1>2. ASSUME applied \in Yellows PROVE shown_for' = age' /\ shown_for' < MAX_GREEN_S + idle
  <2>1. shown_for' = age
    BY <1>1, <1>2 DEF AmberInv
  <2>2. age < MAX_GREEN_S + idle
    BY <1>2, Zenon DEF Yellows
  <2> QED
    BY <1>1, <2>1, <2>2
<1> QED
  BY <1>1, <1>2, Zenon DEF AmberInv

\* Every step of the loop.
LEMMA StepKeepsAmber ==
  ASSUME Layer!IInv, LoopTypeOK, AmberInv, [Next]_vars
  PROVE  AmberInv'
<1>1. CASE \/ EnterFallback \/ ExitFallback \/ Drained
           \/ FrameRead \/ NoFrame
           \/ SkipDetection \/ InferenceFault \/ Inferred
  <2>1. pc # "apply" /\ pc' # "apply"
    BY <1>1 DEF EnterFallback, ExitFallback, Drained, FrameRead, NoFrame, SkipDetection,
                InferenceFault, Inferred, Goto
  <2>2. HeadsStay
    BY <1>1, Zenon DEF EnterFallback, ExitFallback, Drained, FrameRead, NoFrame,
                       SkipDetection, InferenceFault, Inferred
  <2>3. PICK on \in BOOLEAN : Safety!CallSetEmergencyMode(on) \/ UNCHANGED safetyVars
    BY <1>1, Zenon DEF EnterFallback, ExitFallback, ExitFallbackIfSafe, Drained, FrameRead,
                       NoFrame, SkipDetection, InferenceFault, Inferred
  <2> QED
    BY <2>1, <2>2, <2>3, ToggleKeepsAmber
<1>2. ASSUME NEW desired \in OperationalPhases, Decide(desired) PROVE AmberInv'
  BY <1>2, DecideKeepsAmber
<1>3. CASE Apply
  BY <1>3, ApplyKeepsAmber
<1>4. CASE Tick
  BY <1>4, TickKeepsAmber
<1>5. CASE UNCHANGED vars
  BY <1>5, Zenon DEF vars, safetyVars, headVars, AmberInv
<1> QED
  BY <1>1, <1>2, <1>3, <1>4, <1>5, Zenon DEF Next, Loop

\* For every budget and for iterations of every length.
LEMMA AmberInvariance == Spec => [](Layer!IInv /\ LoopTypeOK /\ AmberInv)
<1>1. Init => LoopTypeOK /\ AmberInv
  <2> SUFFICES ASSUME Init PROVE LoopTypeOK /\ AmberInv
    OBVIOUS
  <2>1. applied = "ALL_RED" /\ current_phase = "FLASH_ALL_RED"
    BY ControllerTyped DEF Init, Safety!Init
  <2> QED
    BY <2>1, BootHeads DEF AmberInv, Greens, Yellows
<1>2. Layer!IInv /\ LoopTypeOK /\ AmberInv /\ [Next]_vars => LoopTypeOK' /\ AmberInv'
  BY LayerFacts, StepLoopTypes, StepKeepsAmber, Zenon
<1> QED
  BY <1>1, <1>2, LayerInvariance, PTL DEF Spec

----------------------------------------------------------------------------
(* No phase freezes. *)

\* An amber is gone from the street within the ceiling and one iteration, for every
\* budget and iterations of every length, and so is a green under every budget whose
\* clearance outlasts an iteration, whatever the three sources of the fixed cycle do in
\* between; and interlock, actuator and loop stay well typed.
THEOREM HeadsDoNotFreeze == Spec => []HeadsNotFrozen
<1>1. Layer!IInv /\ LoopTypeOK => TypeOK
  <2> SUFFICES ASSUME Layer!IInv, LoopTypeOK PROVE TypeOK
    OBVIOUS
  <2>1. Safety!TypeOK
    BY SameSpec DEF Layer!IInv
  <2>2. Controller!TypeOK
    BY DEF Controller!TypeOK, LoopTypeOK, Controller!Phase, Controller!OperationalPhases,
           Controller!Greens, Controller!Yellows, Controller!Flashes, Phase,
           OperationalPhases, Greens, Yellows, Flashes
  <2> QED
    BY <2>1, <2>2, Zenon DEF TypeOK, LoopTypeOK
<1>2. Layer!IInv /\ LoopTypeOK /\ AmberInv =>
        (current_phase \in Yellows => shown_for < MAX_GREEN_S + MaxBlock)
  BY LayerFacts, NodeConstants DEF AmberInv, LoopTypeOK
<1>3. Layer!IInv /\ LoopTypeOK /\ HeadsInv =>
        (current_phase \in Greens => shown_for < MAX_GREEN_S + MaxBlock)
  BY LayerFacts, NodeConstants DEF HeadsInv, Moving, LoopTypeOK
<1>4. /\ Layer!IInv /\ LoopTypeOK /\ AmberInv /\ (IterationsAreShort => HeadsInv)
      => HeadsNotFrozen
  BY <1>1, <1>2, <1>3, Zenon DEF HeadsNotFrozen, IsGreen, IsYellow
<1> QED
  BY <1>4, HeadsInvariance, AmberInvariance, PTL

----------------------------------------------------------------------------
(* The heads keep the promise of the interlock. *)

NSShown == Aspect("GREEN_NS", "GREEN_NS_LEFT", "YELLOW_NS", "FLASH_YELLOW_NS")
EWShown == Aspect("GREEN_EW", "GREEN_EW_LEFT", "YELLOW_EW", "FLASH_YELLOW_EW")
RedShown == IF current_phase = "ALL_RED" THEN shown_for ELSE 0
Clearing == t.all_red - MaxBlock

\* What the two axes show under each phase.
LEMMA Shown ==
  /\ current_phase = "ALL_RED" => NSShown = "red" /\ EWShown = "red"
  /\ current_phase \in Greens =>
       \/ IsNS(current_phase) /\ NSShown \in Heads!Movements /\ EWShown = "red"
       \/ ~IsNS(current_phase) /\ NSShown = "red" /\ EWShown \in Heads!Movements
  /\ current_phase \in Phase \ Flashes =>
       NSShown \in {"red", "amber", "through", "left"}
       /\ EWShown \in {"red", "amber", "through", "left"}
BY DEF NSShown, EWShown, Aspect, IsFlash, IsNS, Flashes, Greens, Yellows, Phase,
       OperationalPhases, Heads!Movements

\* And under the phase applied next.
LEMMA ShownAfter ==
  /\ current_phase' = "ALL_RED" => NSShown' = "red" /\ EWShown' = "red"
  /\ current_phase' = "YELLOW_NS" => NSShown' = "amber" /\ EWShown' = "red"
  /\ current_phase' = "YELLOW_EW" => NSShown' = "red" /\ EWShown' = "amber"
  /\ current_phase' \in Greens =>
       \/ NSShown' \in Heads!Movements /\ EWShown' = "red"
       \/ NSShown' = "red" /\ EWShown' \in Heads!Movements
  /\ current_phase' \in Flashes =>
       \/ NSShown' = "flash_yellow" /\ EWShown' = "flash_red"
       \/ NSShown' = "flash_red" /\ EWShown' = "flash_yellow"
       \/ NSShown' = "flash_red" /\ EWShown' = "flash_red"
BY DEF NSShown, EWShown, Aspect, IsFlash, Flashes, Greens, Heads!Movements

\* The heads stay as they are.
LEMMA HeadsWait ==
  ASSUME LoopTypeOK, current_phase' = current_phase, t' = t,
         shown_for' \in {shown_for, shown_for + 1}, shown_for' <= MaxAge
  PROVE  Heads!Wait
<1>1. NSShown' = NSShown /\ EWShown' = EWShown /\ Clearing' = Clearing
  BY Zenon DEF NSShown, EWShown, Aspect, IsFlash, Clearing
<1>2. RedShown' \in {RedShown, RedShown + 1} /\ RedShown' <= MaxAge
  BY NodeConstants DEF RedShown, LoopTypeOK
<1> QED
  BY <1>1, <1>2, Zenon DEF Heads!Wait, NSShown, EWShown, RedShown, Clearing

\* A phase the heads do not show yet is applied: a promised change of the heads.
LEMMA ApplyKeepsPromise ==
  ASSUME IterationsAreShort, Layer!IInv, LoopTypeOK, HeadsInv, Apply,
         applied # current_phase, current_phase # "FLASH_ALL_RED"
  PROVE  Heads!Next
<1>1. /\ current_phase' = applied /\ pc = "apply" /\ shown_for' = 0 /\ t' = t
  BY ControllerTyped DEF Apply, safetyVars
<1>2. RedShown' = 0 /\ Clearing' = Clearing /\ shown_for \in Nat /\ current_phase \in Phase
  BY <1>1 DEF RedShown, Clearing, LoopTypeOK
<1>3. Behind \/ Decided
  BY <1>1, Zenon DEF HeadsInv, InStep
<1>4. CASE Behind
  <2>1. NSShown \in {"red", "amber", "through", "left"}
        /\ EWShown \in {"red", "amber", "through", "left"}
    BY <1>2, <1>4, Shown DEF Behind, Flashes
  <2>2. ~Heads!Flashing
    BY <2>1 DEF Heads!Flashing, NSShown, EWShown
  <2>3. NSShown' = "red" /\ EWShown' = "red"
    BY <1>1, <1>4, ShownAfter DEF Behind
  <2>4. Heads!Clear
    BY <1>2, <2>2, <2>3, Zenon
       DEF Heads!Clear, Heads!Heads, NSShown, EWShown, RedShown, Clearing
  <2> QED
    BY <2>4, Zenon DEF Heads!Next
<1>5. CASE applied \in Greens /\ current_phase = "ALL_RED"
           /\ t.all_red \in Int /\ t.all_red <= shown_for + MaxBlock
  <2>1. NSShown = "red" /\ EWShown = "red"
    BY <1>5, Shown
  <2>2. Clearing # Never /\ RedShown >= Clearing
    BY <1>2, <1>5, NodeConstants DEF Clearing, RedShown
  <2>3. Heads!Cleared
    BY <2>1, <2>2, Zenon
       DEF Heads!Cleared, Heads!AllRed, NSShown, EWShown, RedShown, Clearing
  <2>4. \/ NSShown' \in Heads!Movements /\ EWShown' = "red"
        \/ NSShown' = "red" /\ EWShown' \in Heads!Movements
    BY <1>1, <1>5, ShownAfter
  <2>5. Heads!Serve
    BY <1>2, <2>3, <2>4, Zenon
       DEF Heads!Serve, Heads!Heads, NSShown, EWShown, RedShown, Clearing
  <2> QED
    BY <2>5, Zenon DEF Heads!Next
<1>6. CASE current_phase \in Greens /\ applied = YellowFor(current_phase)
  <2>1. \/ NSShown \in Heads!Movements /\ NSShown' = "amber" /\ EWShown' = "red"
        \/ EWShown \in Heads!Movements /\ NSShown' = "red" /\ EWShown' = "amber"
    BY <1>1, <1>6, Shown, ShownAfter DEF YellowFor
  <2>2. Heads!Amber
    BY <1>2, <2>1, Zenon DEF Heads!Amber, Heads!Heads, NSShown, EWShown, RedShown, Clearing
  <2> QED
    BY <2>2, Zenon DEF Heads!Next
<1>7. CASE applied \in Flashes /\ current_phase = "ALL_RED" /\ shown_for > 0
  <2>1. NSShown = "red" /\ EWShown = "red" /\ RedShown > 0
    BY <1>7, Shown DEF RedShown
  <2>2. \/ NSShown' = "flash_yellow" /\ EWShown' = "flash_red"
        \/ NSShown' = "flash_red" /\ EWShown' = "flash_yellow"
        \/ NSShown' = "flash_red" /\ EWShown' = "flash_red"
    BY <1>1, <1>7, ShownAfter
  <2>3. Heads!Flash
    BY <1>2, <2>1, <2>2, Zenon
       DEF Heads!Flash, Heads!AllRed, Heads!Heads, NSShown, EWShown, RedShown, Clearing
  <2> QED
    BY <2>3, Zenon DEF Heads!Next
<1> QED
  BY <1>3, <1>4, <1>5, <1>6, <1>7, Zenon DEF Decided

\* No step of the loop but the application of another phase changes the heads.
LEMMA OnlyApplyMovesHeads ==
  ASSUME Layer!IInv, LoopTypeOK, [Next]_vars, ~(Apply /\ applied # current_phase)
  PROVE  /\ current_phase' = current_phase /\ t' = t
         /\ shown_for' \in {shown_for, shown_for + 1} /\ shown_for' <= MaxAge
<1>1. shown_for \in Nat /\ shown_for <= MaxAge
  BY NodeConstants DEF LoopTypeOK
<1>2. CASE \/ EnterFallback \/ ExitFallback \/ Drained
           \/ FrameRead \/ NoFrame
           \/ SkipDetection \/ InferenceFault \/ Inferred
  <2>1. current_phase' = current_phase /\ shown_for' = shown_for
    BY <1>2, Zenon DEF EnterFallback, ExitFallback, Drained, FrameRead, NoFrame,
                       SkipDetection, InferenceFault, Inferred, HeadsStay, headVars
  <2>2. PICK on \in BOOLEAN : Safety!CallSetEmergencyMode(on) \/ UNCHANGED safetyVars
    BY <1>2, Zenon DEF EnterFallback, ExitFallback, ExitFallbackIfSafe, Drained, FrameRead,
                       NoFrame, SkipDetection, InferenceFault, Inferred
  <2>3. t' = t
    BY <2>2, CallClears, Zenon DEF safetyVars
  <2> QED
    BY <1>1, <2>1, <2>3
<1>3. ASSUME NEW desired \in OperationalPhases, Decide(desired)
      PROVE  current_phase' = current_phase /\ t' = t /\ shown_for' = shown_for
  BY <1>3, PollEffect, Zenon DEF Decide, HeadsStay, headVars
<1>4. CASE Apply /\ applied = current_phase
  BY <1>1, <1>4, ControllerTyped DEF Apply, safetyVars
<1>5. CASE Tick
  <2>1. current_phase' = current_phase /\ t' = t
    BY <1>5, Zenon DEF Tick, Safety!Tick, Safety!config, headVars
  <2>2. shown_for' = IF shown_for < MaxAge THEN shown_for + 1 ELSE shown_for
    BY <1>5 DEF Tick
  <2> QED
    BY <1>1, <2>1, <2>2, NodeConstants
<1>6. CASE UNCHANGED vars
  BY <1>1, <1>6 DEF vars, safetyVars, headVars
<1> QED
  BY <1>1, <1>2, <1>3, <1>4, <1>5, <1>6 DEF Next, Loop

\* Under every budget whose clearance outlasts an iteration: after the boot flash the
\* lamps change only as Intersection has it, so that C-3 and F-1 hold on the street, of
\* the all-red at least the clearance less one iteration.
THEOREM HeadsPromised == Spec => HeadsKeepPromise
<1>1. /\ Layer!IInv /\ LoopTypeOK /\ (IterationsAreShort => HeadsInv) /\ [Next]_vars
      => (IterationsAreShort /\ current_phase # "FLASH_ALL_RED"
            => [Heads!Next]_(Heads!promise))
  <2> SUFFICES ASSUME IterationsAreShort, Layer!IInv, LoopTypeOK, HeadsInv, [Next]_vars,
                      current_phase # "FLASH_ALL_RED"
               PROVE  Heads!Next
    OBVIOUS
  <2>1. CASE Apply /\ applied # current_phase
    BY <2>1, ApplyKeepsPromise
  <2>2. CASE ~(Apply /\ applied # current_phase)
    BY <2>2, OnlyApplyMovesHeads, HeadsWait, Zenon DEF Heads!Next
  <2> QED
    BY <2>1, <2>2
<1> QED
  BY <1>1, HeadsInvariance, PTL DEF Spec, HeadsKeepPromise

\* A node built with a clearance that outlasts its iterations never takes a green on the
\* street directly to another green.
THEOREM NoJumpWithoutStall == Spec /\ IterationsAreShort => HeadsNeverJump
<1>1. IterationsAreShort /\ Layer!IInv /\ [Next]_vars => IterationsAreShort'
  BY BudgetStays, Zenon DEF IterationsAreShort
<1>2. /\ Layer!IInv /\ LoopTypeOK /\ HeadsInv /\ [Next]_vars
      => (IsGreen(current_phase) /\ current_phase' # current_phase
           => ~IsGreen(current_phase'))
  <2> SUFFICES ASSUME Layer!IInv, LoopTypeOK, HeadsInv, [Next]_vars,
                      current_phase \in Greens, current_phase' # current_phase
               PROVE  current_phase' \notin Greens
    BY Zenon DEF IsGreen
  <2>1. Apply /\ applied # current_phase
    BY OnlyApplyMovesHeads
  <2>2. current_phase' = applied /\ pc = "apply"
    BY <2>1, ControllerTyped DEF Apply
  <2>3. Behind \/ Decided
    BY <2>1, <2>2, Zenon DEF HeadsInv, InStep
  <2> QED
    BY <2>2, <2>3 DEF Behind, Decided, Greens, YellowFor
<1> QED
  BY <1>1, <1>2, HeadsInvariance, PTL DEF Spec, HeadsNeverJump

\* The loop with its status topic is the loop: all of the above holds of it.
THEOREM StatusLoopIsLoop == StatusSpec => Spec
<1>1. StatusInit => Init
  BY Zenon DEF StatusInit
<1> QED
  BY <1>1, StatusStepIsLoopStep, PTL DEF StatusSpec, Spec

=============================================================================
