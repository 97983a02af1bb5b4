----------------------------- MODULE BrainProofs -----------------------------
(***************************************************************************)
(* Proofs about the offline programs of the brain, for every value of      *)
(* their constants: first what a behaviour of BrainSpec is for each of     *)
(* them, then the training, the shadow pilot, the evaluation of plans, the *)
(* worlds that are simulated, the search of a route, the rewards, the      *)
(* formulas of the queue theory and what switching costs, and last the     *)
(* ranges of all their variables.                                          *)
(***************************************************************************)
EXTENDS BrainJobs, NaturalFacts, SequenceTheorems

-----------------------------------------------------------------------------
(* The programs apart.                                                     *)

WorldSpec  == WorldInit /\ [][WorldNext]_worldVars
EvalSpec   == EvalInit /\ [][EvalNext]_evalVars
SearchSpec == SearchInit /\ [][SearchNext]_searchVars

(* A behaviour of the offline programs is one of each of them, run alone.  *)
LEMMA JobsApart ==
  BrainSpec => WorldSpec /\ TrainSpec /\ EvalSpec /\ SearchSpec /\ PilotSpec
  <1>1. BrainInit => WorldInit /\ TrainInit /\ EvalInit /\ SearchInit /\ PilotInit
    BY DEF BrainInit
  <1>2. [BrainNext]_brainVars => [WorldNext]_worldVars
    BY DEF BrainNext, brainVars
  <1>3. [BrainNext]_brainVars => [TrainNext]_trainVars
    BY DEF BrainNext, brainVars
  <1>4. [BrainNext]_brainVars => [EvalNext]_evalVars
    BY DEF BrainNext, brainVars
  <1>5. [BrainNext]_brainVars => [SearchNext]_searchVars
    BY DEF BrainNext, brainVars
  <1>6. [BrainNext]_brainVars => [PilotNext]_pilotVars
    BY DEF BrainNext, brainVars
  <1>. QED
    BY <1>1, <1>2, <1>3, <1>4, <1>5, <1>6, PTL
    DEF BrainSpec, WorldSpec, TrainSpec, EvalSpec, SearchSpec, PilotSpec

-----------------------------------------------------------------------------
(* Arithmetic.                                                             *)

(* One more stage takes Patience more iterations. *)
LEMMA NextProduct ==
  ASSUME NEW s \in Nat, NEW p \in Nat
  PROVE  s * p \in Nat /\ (s + 1) * p = s * p + p
  OBVIOUS

(* One more good iteration is one more iteration. *)
LEMMA OneMore ==
  ASSUME NEW done \in Int, NEW g \in Int, NEW h \in Int, NEW i \in Int,
         done + g <= i, h <= g + 1
  PROVE  done + h <= i + 1
  OBVIOUS

-----------------------------------------------------------------------------
(* The inductive invariant.                                                *)

(* No environment is ahead of the callback.  The episodes alone would not   *)
(* be inductive: the next one is drawn from the environment's stage.        *)
Behind ==
  \A r \in Runners : envStage[r] <= stage /\ drawn[r] <= stage

Earned == stage * Patience + goodIters <= iteration

(* How far the checkpoint may be behind at each place of the driver: in the *)
(* loop by the iterations since the last multiple of CheckpointEvery.       *)
Saved ==
  /\ checkpoint <= iteration
  /\ iteration - checkpoint <= CheckpointEvery
  /\ trainPc \in {"train", "callback"} => iteration - checkpoint <= iteration % CheckpointEvery
  /\ trainPc = "callback" => iteration < Iterations
  /\ trainPc \in {"export", "done"} => checkpoint = iteration

Exported ==
  /\ trainPc \in {"train", "callback", "save", "finally", "export"} => policyFile = -1
  /\ trainPc = "done" => policyFile \in {-1, checkpoint}

TrainInv == TrainTypeOK /\ Behind /\ Earned /\ Saved /\ Exported

-----------------------------------------------------------------------------
(* Types.                                                                  *)

LEMMA InCurriculumType ==
  ASSUME TrainingAssumption, NEW s \in 0 .. NumStages - 1
  PROVE  StagesOf(s) \subseteq 0 .. s
  BY DEF TrainingAssumption, StagesOf, InCurriculum

LEMMA AbsorbType ==
  ASSUME NEW reported \in SUBSET Signals, NEW seen \in [Signals -> Seen]
  PROVE  Absorb(reported, seen) \in [Signals -> Seen]
  BY DEF Absorb, Seen

LEMMA ForgetType == ASSUME NEW seen  PROVE Forget(seen) \in [Signals -> Seen]
  BY DEF Forget, Seen

(* The driver's own variables stay in their ranges. *)
DriverTypeOK ==
  /\ trainPc \in TrainPcs
  /\ iteration \in 0 .. Iterations
  /\ checkpoint \in 0 .. Iterations
  /\ policyFile \in -1 .. Iterations
  /\ stage \in 0 .. NumStages - 1
  /\ goodIters \in 0 .. Patience - 1

EnvsTypeOK ==
  /\ envStage \in [Runners -> 0 .. NumStages - 1]
  /\ drawn \in [Runners -> -1 .. NumStages - 1]
  /\ live \in [Runners -> BOOLEAN]
  /\ cache \in [Runners -> [Signals -> Seen]]

LEMMA TypeSplits == TrainTypeOK <=> DriverTypeOK /\ EnvsTypeOK
  BY DEF TrainTypeOK, DriverTypeOK, EnvsTypeOK

LEMMA InitInv == ASSUME TrainingAssumption, TrainInit PROVE TrainInv
  <1>1. TrainTypeOK
    BY DEF TrainInit, TrainTypeOK, TrainPcs, TrainingAssumption, Seen
  <1>2. 0 * Patience = 0
    BY DEF TrainingAssumption
  <1>3. 0 % CheckpointEvery >= 0
    BY NextRemainder DEF TrainingAssumption
  <1>4. Behind /\ Earned
    BY <1>2 DEF TrainInit, Behind, Earned
  <1>5. Saved /\ Exported
    BY <1>3 DEF TrainInit, Saved, Exported, TrainingAssumption
  <1>. QED  BY <1>1, <1>4, <1>5 DEF TrainInv

LEMMA EnvResetInv ==
  ASSUME TrainingAssumption, TrainInv, NEW r \in Runners, EnvReset(r)
  PROVE  TrainInv'
  <1>. USE DEF TrainInv
  <1>1. PICK s \in StagesOf(envStage[r]) : drawn' = [drawn EXCEPT ![r] = s]
    BY DEF EnvReset
  <1>2. PICK reported \in SUBSET Signals :
          cache' = [cache EXCEPT ![r] = Absorb(reported, Forget(cache[r]))]
    BY DEF EnvReset
  <1>3. /\ trainPc' = trainPc /\ iteration' = iteration /\ checkpoint' = checkpoint
        /\ policyFile' = policyFile /\ stage' = stage /\ goodIters' = goodIters
        /\ envStage' = envStage /\ live' = [live EXCEPT ![r] = TRUE]
    BY DEF EnvReset, driverVars
  <1>4. s \in 0 .. NumStages - 1 /\ s <= envStage[r]
    BY InCurriculumType DEF TrainTypeOK
  <1>5. DriverTypeOK'
    BY <1>3 DEF TrainTypeOK, DriverTypeOK
  <1>6. Absorb(reported, Forget(cache[r])) \in [Signals -> Seen]
    BY AbsorbType, ForgetType
  <1>7. EnvsTypeOK'
    <2>1. (envStage \in [Runners -> 0 .. NumStages - 1])'
      BY <1>3 DEF TrainTypeOK
    <2>2. (drawn \in [Runners -> -1 .. NumStages - 1])'
      BY <1>1, <1>4 DEF TrainTypeOK, TrainingAssumption
    <2>3. (live \in [Runners -> BOOLEAN])'
      BY <1>3 DEF TrainTypeOK
    <2>4. (cache \in [Runners -> [Signals -> Seen]])'
      BY <1>2, <1>6 DEF TrainTypeOK
    <2>. QED  BY <2>1, <2>2, <2>3, <2>4 DEF EnvsTypeOK
  <1>8. Behind'
    BY <1>1, <1>3, <1>4 DEF Behind, TrainTypeOK
  <1>9. Earned' /\ Saved' /\ Exported'
    BY <1>3 DEF Earned, Saved, Exported
  <1>. QED  BY <1>5, <1>7, <1>8, <1>9 DEF TrainTypeOK, DriverTypeOK, EnvsTypeOK

LEMMA EnvStepInv ==
  ASSUME TrainingAssumption, TrainInv, NEW r \in Runners, EnvStep(r)
  PROVE  TrainInv'
  <1>. USE DEF TrainInv
  <1>1. PICK reported \in SUBSET Signals :
          cache' = [cache EXCEPT ![r] = Absorb(reported, cache[r])]
    BY DEF EnvStep
  <1>2. PICK over \in BOOLEAN : live' = [live EXCEPT ![r] = ~over]
    BY DEF EnvStep
  <1>3. /\ trainPc' = trainPc /\ iteration' = iteration /\ checkpoint' = checkpoint
        /\ policyFile' = policyFile /\ stage' = stage /\ goodIters' = goodIters
        /\ envStage' = envStage /\ drawn' = drawn
    BY DEF EnvStep, driverVars
  <1>4. cache[r] \in [Signals -> Seen]
    BY DEF TrainTypeOK
  <1>5. Absorb(reported, cache[r]) \in [Signals -> Seen]
    BY <1>4, AbsorbType
  <1>6. (live \in [Runners -> BOOLEAN])'
    BY <1>2 DEF TrainTypeOK
  <1>7. (cache \in [Runners -> [Signals -> Seen]])'
    BY <1>1, <1>5 DEF TrainTypeOK
  <1>8. TrainTypeOK'
    BY <1>3, <1>6, <1>7 DEF TrainTypeOK
  <1>9. Behind' /\ Earned' /\ Saved' /\ Exported'
    BY <1>3 DEF Behind, Earned, Saved, Exported
  <1>. QED  BY <1>8, <1>9

(* A worker that starts over is behind, never ahead. *)
LEMMA RunnerRestartsInv ==
  ASSUME TrainingAssumption, TrainInv, NEW r \in Runners, RunnerRestarts(r)
  PROVE  TrainInv'
  <1>. USE DEF TrainInv
  <1>1. /\ envStage' = [envStage EXCEPT ![r] = 0]
        /\ drawn' = [drawn EXCEPT ![r] = -1]
        /\ live' = [live EXCEPT ![r] = FALSE]
        /\ cache' = [cache EXCEPT ![r] = [a \in Signals |-> "zeros"]]
    BY DEF RunnerRestarts
  <1>2. /\ trainPc' = trainPc /\ iteration' = iteration /\ checkpoint' = checkpoint
        /\ policyFile' = policyFile /\ stage' = stage /\ goodIters' = goodIters
    BY DEF RunnerRestarts, driverVars
  <1>3. DriverTypeOK'
    BY <1>2 DEF TrainTypeOK, DriverTypeOK
  <1>4. EnvsTypeOK'
    <2>1. (envStage \in [Runners -> 0 .. NumStages - 1])'
      BY <1>1 DEF TrainTypeOK, TrainingAssumption
    <2>2. (drawn \in [Runners -> -1 .. NumStages - 1])'
      BY <1>1 DEF TrainTypeOK, TrainingAssumption
    <2>3. (live \in [Runners -> BOOLEAN])'
      BY <1>1 DEF TrainTypeOK
    <2>4. (cache \in [Runners -> [Signals -> Seen]])'
      BY <1>1 DEF TrainTypeOK, Seen
    <2>. QED  BY <2>1, <2>2, <2>3, <2>4 DEF EnvsTypeOK
  <1>5. Behind'
    BY <1>1, <1>2 DEF Behind, TrainTypeOK
  <1>6. Earned' /\ Saved' /\ Exported'
    BY <1>2 DEF Earned, Saved, Exported
  <1>. QED  BY <1>3, <1>4, <1>5, <1>6 DEF TrainTypeOK, DriverTypeOK, EnvsTypeOK

(* The callback ends an iteration: the checkpoint falls one more behind,   *)
(* and a promotion takes Patience good iterations.                         *)
LEMMA OnTrainResultInv ==
  ASSUME TrainingAssumption, TrainInv, on_train_result
  PROVE  TrainInv'
  <1>. USE DEF TrainInv
  <1>1. /\ trainPc = "callback" /\ iteration' = iteration + 1
        /\ trainPc' = AfterIteration(iteration + 1)
        /\ checkpoint' = checkpoint /\ policyFile' = policyFile
        /\ drawn' = drawn /\ live' = live /\ cache' = cache
    BY DEF on_train_result
  <1>2. iteration \in Nat /\ iteration < Iterations /\ CheckpointEvery \in Nat \ {0}
        /\ checkpoint \in Nat
    BY <1>1 DEF TrainTypeOK, Saved, TrainingAssumption
  <1>3. trainPc' \in {"save", "train"}
    BY <1>1 DEF AfterIteration
  <1>4. Saved'
    <2>1. /\ iteration % CheckpointEvery \in 0 .. CheckpointEvery - 1
          /\ \/ (iteration + 1) % CheckpointEvery = 0
             \/ (iteration + 1) % CheckpointEvery = (iteration % CheckpointEvery) + 1
      BY <1>2, NextRemainder
    <2>2. iteration - checkpoint <= iteration % CheckpointEvery /\ checkpoint <= iteration
      BY <1>1 DEF Saved
    <2>3. (iteration + 1) - checkpoint <= CheckpointEvery /\ checkpoint <= iteration + 1
      BY <1>2, <2>1, <2>2
    <2>4. trainPc' = "train" => (iteration + 1) % CheckpointEvery # 0
      BY <1>1 DEF AfterIteration
    <2>5. trainPc' = "train" =>
            (iteration + 1) - checkpoint <= (iteration + 1) % CheckpointEvery
      BY <1>2, <2>1, <2>2, <2>4
    <2>. QED  BY <1>1, <1>3, <2>3, <2>5 DEF Saved
  <1>5. Exported'
    BY <1>1, <1>3 DEF Exported
  <1>6. CASE UNCHANGED <<stage, goodIters, envStage>>
    <2>1. TrainTypeOK'
      BY <1>1, <1>2, <1>3, <1>6 DEF TrainTypeOK, TrainPcs
    <2>2. stage * Patience \in Nat
      BY NextProduct DEF TrainTypeOK, TrainingAssumption
    <2>3. Behind' /\ Earned'
      BY <1>1, <1>2, <1>6, <2>2 DEF Behind, Earned, TrainTypeOK
    <2>. QED  BY <1>4, <1>5, <2>1, <2>3
  <1>7. CASE goodIters' \in 0 .. Patience - 1 /\ goodIters' <= goodIters + 1
             /\ UNCHANGED <<stage, envStage>>
    <2>1. TrainTypeOK'
      BY <1>1, <1>2, <1>3, <1>7 DEF TrainTypeOK, TrainPcs
    <2>2. stage * Patience \in Nat
      BY NextProduct DEF TrainTypeOK, TrainingAssumption
    <2>3. Behind'
      BY <1>1, <1>7 DEF Behind
    <2>4. /\ goodIters \in Int /\ goodIters' \in Int /\ goodIters' <= goodIters + 1
          /\ stage * Patience + goodIters <= iteration
      BY <1>7 DEF Earned, TrainTypeOK, TrainingAssumption
    <2>5. stage * Patience + goodIters' <= iteration + 1
      BY <1>2, <2>2, <2>4, OneMore
    <2>6. Earned'
      BY <1>1, <1>7, <2>5 DEF Earned
    <2>. QED  BY <1>4, <1>5, <2>1, <2>3, <2>6
  <1>8. CASE /\ stage < NumStages - 1 /\ goodIters + 1 >= Patience
             /\ stage' = stage + 1 /\ goodIters' = 0
             /\ \E heard \in SUBSET Runners : envStage' = Broadcast(stage + 1, heard)
    <2>1. PICK heard \in SUBSET Runners : envStage' = Broadcast(stage + 1, heard)
      BY <1>8
    <2>2. stage + 1 \in 0 .. NumStages - 1
      BY <1>8 DEF TrainTypeOK, TrainingAssumption
    <2>3. (envStage \in [Runners -> 0 .. NumStages - 1])'
      BY <2>1, <2>2 DEF Broadcast, TrainTypeOK
    <2>4. (goodIters \in 0 .. Patience - 1)'
      BY <1>8 DEF TrainingAssumption
    <2>5. TrainTypeOK'
      BY <1>1, <1>2, <1>3, <1>8, <2>2, <2>3, <2>4 DEF TrainTypeOK, TrainPcs
    <2>6. Behind'
      BY <1>1, <1>8, <2>1, <2>2 DEF Behind, Broadcast, TrainTypeOK
    <2>7. /\ stage * Patience \in Nat
          /\ (stage + 1) * Patience = stage * Patience + Patience
      BY NextProduct DEF TrainTypeOK, TrainingAssumption
    <2>8. goodIters + 1 = Patience
      BY <1>8 DEF TrainTypeOK, TrainingAssumption
    <2>9. Earned'
      BY <1>1, <1>2, <1>8, <2>7, <2>8 DEF Earned, TrainTypeOK
    <2>. QED  BY <1>4, <1>5, <2>5, <2>6, <2>9
  <1>9. \/ UNCHANGED <<stage, goodIters, envStage>>
        \/ goodIters' \in 0 .. Patience - 1 /\ goodIters' <= goodIters + 1
           /\ UNCHANGED <<stage, envStage>>
        \/ /\ stage < NumStages - 1 /\ goodIters + 1 >= Patience
           /\ stage' = stage + 1 /\ goodIters' = 0
           /\ \E heard \in SUBSET Runners : envStage' = Broadcast(stage + 1, heard)
    BY DEF on_train_result, TrainTypeOK, TrainingAssumption
  <1>. QED  BY <1>6, <1>7, <1>8, <1>9

(* Every other step of the driver moves trainPc, the checkpoint or the     *)
(* exported policy, and leaves the curriculum and the environments alone.  *)
CurriculumIdle ==
  /\ iteration' = iteration /\ stage' = stage /\ goodIters' = goodIters
  /\ envStage' = envStage /\ drawn' = drawn /\ live' = live /\ cache' = cache

LEMMA IdleKeeps ==
  ASSUME TrainInv, CurriculumIdle
  PROVE  EnvsTypeOK' /\ Behind' /\ Earned' /\
         (iteration \in 0 .. Iterations /\ stage \in 0 .. NumStages - 1
          /\ goodIters \in 0 .. Patience - 1)'
  BY DEF TrainInv, CurriculumIdle, EnvsTypeOK, TrainTypeOK, Behind, Earned

LEMMA DriverInv ==
  ASSUME TrainingAssumption, TrainInv,
         \/ TrainReturns \/ TrainRaises \/ Save \/ LoopEnds
         \/ SaveFinally \/ export_to_onnx \/ Killed
  PROVE  TrainInv'
  <1>. USE DEF TrainInv
  <1>1. CurriculumIdle
    BY DEF TrainReturns, TrainRaises, Save, LoopEnds, SaveFinally, export_to_onnx,
           Killed, CurriculumIdle
  <1>2. /\ iteration \in 0 .. Iterations /\ checkpoint \in 0 .. Iterations
        /\ policyFile \in -1 .. Iterations
        /\ Iterations \in Nat /\ CheckpointEvery \in Nat \ {0}
    BY DEF TrainTypeOK, TrainingAssumption
  <1>3. iteration % CheckpointEvery \in 0 .. CheckpointEvery - 1
    BY <1>2, NextRemainder
  <1>4. /\ trainPc' \in TrainPcs
        /\ checkpoint' \in 0 .. Iterations
        /\ policyFile' \in -1 .. Iterations
    BY <1>2 DEF TrainReturns, TrainRaises, Save, LoopEnds, SaveFinally, export_to_onnx,
                Killed, TrainPcs
  <1>5. TrainTypeOK'
    BY <1>1, <1>4, IdleKeeps DEF TrainTypeOK, EnvsTypeOK
  <1>6. Saved' /\ Exported'
    <2>1. CASE TrainReturns
      BY <1>2, <1>3, <2>1 DEF TrainReturns, Saved, Exported
    <2>2. CASE TrainRaises
      BY <1>2, <1>3, <2>2 DEF TrainRaises, Saved, Exported
    <2>3. CASE Save
      BY <1>2, <1>3, <2>3 DEF Save, Saved, Exported
    <2>4. CASE LoopEnds
      BY <1>2, <1>3, <2>4 DEF LoopEnds, Saved, Exported
    <2>5. CASE SaveFinally
      BY <1>2, <1>3, <2>5 DEF SaveFinally, Saved, Exported
    <2>6. CASE export_to_onnx
      BY <1>2, <1>3, <2>6 DEF export_to_onnx, Saved, Exported
    <2>7. CASE Killed
      BY <1>2, <1>3, <2>7 DEF Killed, Saved, Exported
    <2>. QED  BY <2>1, <2>2, <2>3, <2>4, <2>5, <2>6, <2>7
  <1>. QED  BY <1>1, <1>5, <1>6, IdleKeeps

LEMMA NothingHappens == ASSUME TrainInv, UNCHANGED trainVars PROVE TrainInv'
  BY DEF TrainInv, TrainTypeOK, Behind, Earned, Saved, Exported, trainVars

-----------------------------------------------------------------------------
LEMMA StepInv == ASSUME TrainingAssumption, TrainInv, TrainNext PROVE TrainInv'
  <1>1. CASE on_train_result
    BY <1>1, OnTrainResultInv
  <1>2. CASE \/ TrainReturns \/ TrainRaises \/ Save \/ LoopEnds
             \/ SaveFinally \/ export_to_onnx \/ Killed
    BY <1>2, DriverInv
  <1>3. CASE \E r \in Runners : EnvReset(r) \/ EnvStep(r) \/ RunnerRestarts(r)
    BY <1>3, EnvResetInv, EnvStepInv, RunnerRestartsInv
  <1>. QED  BY <1>1, <1>2, <1>3 DEF TrainNext, DriverNext

(* The invariant holds of every training. *)
THEOREM TrainInvariance == TrainSpec => []TrainInv
  <1>1. TrainInit => TrainInv
    BY InitInv, TrainingAssumption
  <1>2. TrainInv /\ [TrainNext]_trainVars => TrainInv'
    BY StepInv, NothingHappens, TrainingAssumption
  <1>. QED  BY <1>1, <1>2, PTL DEF TrainSpec

(* The state of a training is well typed, whatever fails and restarts.     *)
THEOREM TrainingTyped == TrainSpec => []TrainTypeOK
  <1>1. TrainInv => TrainTypeOK
    BY DEF TrainInv
  <1>. QED  BY <1>1, TrainInvariance, PTL

(* No worker rehearses a stage that has not been unlocked, and stages are   *)
(* earned, for every curriculum, patience and number of workers.            *)
THEOREM StagesAreEarned == TrainSpec => []UnlockedEpisodes
  <1>1. TrainInv => UnlockedEpisodes
    BY DEF TrainInv, Behind, Earned, UnlockedEpisodes
  <1>. QED  BY <1>1, TrainInvariance, PTL

(* A training that stops anywhere has a checkpoint at most CheckpointEvery *)
(* iterations old, and one that ends has them all in it.                   *)
THEOREM CheckpointsAreRecent == TrainSpec => []CheckpointsKeepUp
  <1>1. TrainInv => CheckpointsKeepUp
    BY DEF TrainInv, Saved, Exported, CheckpointsKeepUp
  <1>. QED  BY <1>1, TrainInvariance, PTL


-----------------------------------------------------------------------------
(* The inductive invariant.                                                *)

Latest == log[Len(log)]

(* Since the start nothing has been decided.                               *)
Starting == frame_idx = 0 /\ builder.phase = 0

(* The pilot has followed the latest record, and the next decision is due   *)
(* one interval after it.                                                  *)
Going ==
  /\ Len(log) # 0
  /\ frame_idx - Latest.frame \in 1 .. DecisionInterval
  /\ frame_idx % DecisionInterval =
       IF frame_idx - Latest.frame = DecisionInterval THEN 0 ELSE frame_idx - Latest.frame
  /\ builder.phase = Latest.action
  /\ builder.since =
       IF Latest.action = Latest.obs.phase THEN Latest.ts - Latest.phase_elapsed ELSE Latest.ts

(* The latest record says what the pilot sees.                             *)
Recorded ==
  /\ Len(log) # 0
  /\ Latest.frame = frame_idx
  /\ Latest.ts = wall
  /\ Latest.obs.phase = builder.phase
  /\ Latest.phase_elapsed = wall - builder.since

Numbers ==
  /\ frame_idx \in Nat /\ wall \in Int /\ builder.since \in Int
  /\ \A k \in 1 .. Len(log) :
       log[k].frame \in Int /\ log[k].ts \in Int /\ log[k].phase_elapsed \in Int

PilotInv ==
  /\ \E S : log \in Seq(S)
  /\ Numbers
  /\ current_phase = builder.phase
  /\ pilotPc \in {"decide", "follow"} => frame_idx % DecisionInterval = 0
  /\ pilotPc \in {"read", "decide"} => Starting \/ Going
  /\ pilotPc = "follow" => Recorded
  /\ LogCoherent

-----------------------------------------------------------------------------
(* A record follows the one before it, or begins a start.                  *)
Follows(now, old) ==
  /\ now.frame = old.frame + DecisionInterval
  /\ now.obs.phase = old.action
  /\ now.phase_elapsed =
       now.ts - old.ts + IF old.action = old.obs.phase THEN old.phase_elapsed ELSE 0

Begins(now) == now.frame = 0 /\ now.obs.phase = 0

LEMMA LogCoherentIs ==
  ASSUME NEW S, log \in Seq(S)
  PROVE  LogCoherent <=> \A k \in 1 .. Len(log) :
                           Begins(log[k]) \/ (k > 1 /\ Follows(log[k], log[k - 1]))
  <1>1. DOMAIN log = 1 .. Len(log)
    OBVIOUS
  <1>. QED  BY <1>1 DEF LogCoherent, Begins, Follows

LEMMA AppendToLog ==
  ASSUME NEW S, NEW s \in Seq(S), NEW e
  PROVE  /\ Append(s, e) \in Seq(S \cup {e})
         /\ Len(s) \in Nat
         /\ Len(Append(s, e)) = Len(s) + 1
         /\ Append(s, e)[Len(s) + 1] = e
         /\ \A k \in 1 .. Len(s) : Append(s, e)[k] = s[k]
  <1>1. s \in Seq(S \cup {e})
    <2>1. /\ Len(s) \in Nat /\ s = [k \in 1 .. Len(s) |-> s[k]]
          /\ \A k \in 1 .. Len(s) : s[k] \in S \cup {e}
      OBVIOUS
    <2>. QED  BY <2>1
  <1>. QED  BY <1>1

LEMMA PilotInitInv == ASSUME PilotInit PROVE PilotInv
  <1>1. log = <<>> /\ log \in Seq({}) /\ Len(log) = 0
    BY DEF PilotInit
  <1>2. LogCoherent
    BY <1>1, LogCoherentIs
  <1>3. Numbers /\ Starting /\ current_phase = builder.phase /\ pilotPc = "read"
    BY <1>1 DEF PilotInit, Numbers, Starting
  <1>. QED  BY <1>1, <1>2, <1>3 DEF PilotInv

(* A step that leaves log, phase and builder alone leaves these alone.      *)
LEMMA LogUntouched ==
  ASSUME PilotInv, UNCHANGED <<log, current_phase, builder>>, frame_idx' \in Nat, wall' \in Int
  PROVE  /\ \E S : log' \in Seq(S)
         /\ Numbers' /\ (current_phase = builder.phase)' /\ LogCoherent'
         /\ Latest' = Latest
  BY DEF PilotInv, Numbers, LogCoherent, Latest

LEMMA ReadInv == ASSUME PilotInv, ReadFrames PROVE PilotInv'
  <1>1. /\ pilotPc = "read" /\ UNCHANGED <<log, current_phase, builder>>
        /\ \/ frame_idx % DecisionInterval = 0 /\ pilotPc' = "decide" /\ frame_idx' = frame_idx
           \/ /\ frame_idx % DecisionInterval # 0
              /\ frame_idx' = frame_idx + 1 /\ pilotPc' = "read"
    BY DEF ReadFrames
  <1>2. frame_idx \in Nat /\ frame_idx' \in Nat /\ wall' \in Int /\ DecisionInterval \in Nat \ {0}
    BY <1>1, PilotAssumption DEF PilotInv, Numbers, PilotAssumption, ReadFrames
  <1>3. /\ \E S : log' \in Seq(S)
        /\ Numbers' /\ (current_phase = builder.phase)' /\ LogCoherent'
        /\ Latest' = Latest
    BY <1>1, <1>2, LogUntouched
  <1>4. Starting \/ Going
    BY <1>1 DEF PilotInv
  <1>5. CASE frame_idx % DecisionInterval = 0
    <2>1. (Starting \/ Going)'
      BY <1>1, <1>3, <1>4, <1>5 DEF Starting, Going
    <2>. QED  BY <1>1, <1>3, <1>5, <2>1 DEF PilotInv
  <1>6. CASE frame_idx % DecisionInterval # 0
    <2>1. Going
      <3>1. 0 % DecisionInterval = 0
        BY <1>2
      <3>. QED  BY <1>4, <1>6, <3>1 DEF Starting
    <2>2. Going'
      <3> DEFINE gap == frame_idx - Latest.frame
                 r == frame_idx % DecisionInterval
                 s == (frame_idx + 1) % DecisionInterval
      <3>1. gap \in 1 .. DecisionInterval /\ r = gap /\ gap # DecisionInterval
        BY <1>6, <2>1 DEF Going
      <3>2. s = IF r = DecisionInterval - 1 THEN 0 ELSE r + 1
        BY <1>2, NextRemainder
      <3>3. Latest.frame \in Int
        <4>1. PICK S : log \in Seq(S)
          BY DEF PilotInv
        <4>2. Len(log) \in 1 .. Len(log)
          BY <2>1, <4>1 DEF Going
        <4>. QED  BY <4>2 DEF PilotInv, Numbers, Latest
      <3>4. frame_idx' - Latest'.frame = gap + 1 /\ frame_idx' % DecisionInterval = s
        <4>1. frame_idx' = frame_idx + 1 /\ Latest' = Latest
          BY <1>1, <1>3, <1>6
        <4>2. (frame_idx + 1) - Latest.frame = (frame_idx - Latest.frame) + 1
          BY <1>2, <3>3
        <4>. QED  BY <4>1, <4>2
      <3> HIDE DEF gap, r, s
      <3>5. gap + 1 \in 1 .. DecisionInterval
            /\ s = IF gap + 1 = DecisionInterval THEN 0 ELSE gap + 1
        BY <1>2, <3>1, <3>2
      <3>. QED  BY <1>1, <1>3, <2>1, <3>4, <3>5 DEF Going
    <2>. QED  BY <1>1, <1>3, <1>6, <2>2 DEF PilotInv
  <1>. QED  BY <1>5, <1>6

LEMMA EndInv == ASSUME PilotInv, VideosEnd PROVE PilotInv'
  <1>1. pilotPc' = "closed" /\ UNCHANGED <<log, current_phase, builder, frame_idx, wall>>
    BY DEF VideosEnd
  <1>2. /\ \E S : log' \in Seq(S)
        /\ Numbers' /\ (current_phase = builder.phase)' /\ LogCoherent'
    BY <1>1, LogUntouched DEF PilotInv, Numbers
  <1>. QED  BY <1>1, <1>2 DEF PilotInv

(* The new record begins the start, or follows the latest: the interval is  *)
(* the only distance at which a decision is due.                           *)
LEMMA RecommendInv == ASSUME PilotInv, Recommend PROVE PilotInv'
  <1>1. /\ pilotPc = "decide" /\ pilotPc' = "follow"
        /\ UNCHANGED <<frame_idx, wall, current_phase, builder>>
        /\ \E argmax \in 0 .. 2 : log' = Append(log, Record(Action(argmax)))
    BY DEF Recommend
  <1>2. PICK a : log' = Append(log, Record(a))
    BY <1>1
  <1>3. PICK S : log \in Seq(S)
    BY DEF PilotInv
  <1> DEFINE e == Record(a)
             n == Len(log)
  <1>4. /\ e.frame = frame_idx /\ e.ts = wall /\ e.obs.phase = builder.phase
        /\ e.phase_elapsed = wall - builder.since
    BY DEF Record, build
  <1>5. /\ log' \in Seq(S \cup {e}) /\ n \in Nat /\ Len(log') = n + 1 /\ log'[n + 1] = e
        /\ \A k \in 1 .. n : log'[k] = log[k]
    BY <1>2, <1>3, AppendToLog
  <1>6. /\ frame_idx \in Nat /\ wall \in Int /\ builder.since \in Int /\ DecisionInterval \in Nat \ {0}
        /\ \A k \in 1 .. n :
             log[k].frame \in Int /\ log[k].ts \in Int /\ log[k].phase_elapsed \in Int
    BY PilotAssumption DEF PilotInv, Numbers, PilotAssumption
  <1>7. Begins(e) \/ (n # 0 /\ Follows(e, log[n]))
    <2>1. frame_idx % DecisionInterval = 0 /\ (Starting \/ Going)
      BY <1>1 DEF PilotInv
    <2>2. CASE Starting
      BY <1>4, <2>2 DEF Starting, Begins
    <2>3. CASE Going
      <3>1. n # 0 /\ n \in 1 .. n
        BY <1>5, <2>3 DEF Going
      <3>2. frame_idx - log[n].frame = DecisionInterval
        BY <2>1, <2>3, <1>6 DEF Going, Latest
      <3>3. builder.phase = log[n].action
            /\ builder.since = IF log[n].action = log[n].obs.phase
                               THEN log[n].ts - log[n].phase_elapsed ELSE log[n].ts
        BY <2>3 DEF Going, Latest
      <3>4. log[n].frame \in Int /\ log[n].ts \in Int /\ log[n].phase_elapsed \in Int
        BY <1>6, <3>1
      <3> HIDE DEF e
      <3>. QED  BY <1>4, <1>6, <3>1, <3>2, <3>3, <3>4 DEF Follows
    <2>. QED  BY <2>1, <2>2, <2>3
  <1>8. \A k \in 1 .. n : Begins(log[k]) \/ (k > 1 /\ Follows(log[k], log[k - 1]))
    BY <1>3, LogCoherentIs DEF PilotInv
  <1> HIDE DEF e, n
  <1>9. LogCoherent'
    <2>1. ASSUME NEW k \in 1 .. Len(log')
          PROVE  Begins(log'[k]) \/ (k > 1 /\ Follows(log'[k], log'[k - 1]))
      <3>1. CASE k = n + 1
        <4>1. CASE Begins(e)
          BY <1>5, <3>1, <4>1
        <4>2. CASE n # 0 /\ Follows(e, log[n])
          <5>1. k > 1 /\ k - 1 = n /\ n \in 1 .. n
            BY <1>5, <3>1, <4>2
          <5>. QED  BY <1>5, <3>1, <4>2, <5>1
        <4>. QED  BY <1>7, <4>1, <4>2
      <3>2. CASE k # n + 1
        <4>1. k \in 1 .. n /\ (k > 1 => k - 1 \in 1 .. n)
          BY <1>5, <3>2
        <4>. QED  BY <1>5, <1>8, <4>1
      <3>. QED  BY <3>1, <3>2
    <2>2. DOMAIN log' = 1 .. Len(log')
      BY <1>5
    <2>. QED  BY <2>1, <2>2 DEF LogCoherent, Begins, Follows
  <1>10. Numbers'
    <2>1. ASSUME NEW k \in 1 .. Len(log')
          PROVE  log'[k].frame \in Int /\ log'[k].ts \in Int /\ log'[k].phase_elapsed \in Int
      <3>1. k = n + 1 \/ k \in 1 .. n
        BY <1>5
      <3>. QED  BY <1>4, <1>5, <1>6, <3>1
    <2>. QED  BY <1>1, <1>6, <2>1 DEF Numbers
  <1>11. Recorded'
    BY <1>1, <1>4, <1>5 DEF Recorded, Latest
  <1>. QED  BY <1>1, <1>5, <1>9, <1>10, <1>11 DEF PilotInv

LEMMA FollowInv == ASSUME PilotInv, Follow PROVE PilotInv'
  <1>1. /\ pilotPc = "follow" /\ pilotPc' = "read" /\ frame_idx' = frame_idx + 1
        /\ log' = log /\ wall' = wall
    BY DEF Follow
  <1>2. Recorded /\ frame_idx % DecisionInterval = 0
    BY <1>1 DEF PilotInv
  <1>3. /\ frame_idx \in Nat /\ wall \in Int /\ builder.since \in Int /\ DecisionInterval \in Nat \ {0}
        /\ Latest.frame \in Int /\ Latest.ts \in Int /\ Latest.phase_elapsed \in Int
    BY <1>2, PilotAssumption DEF PilotInv, Numbers, PilotAssumption, Recorded, Latest
  <1>4. /\ current_phase' = Latest.action /\ builder'.phase = Latest.action
        /\ builder'.since = IF Latest.action = builder.phase THEN builder.since ELSE wall
    <2>1. current_phase = builder.phase
      BY DEF PilotInv
    <2>2. CASE Latest.action = current_phase
      BY <2>1, <2>2 DEF Follow, Latest
    <2>3. CASE Latest.action # current_phase
      <3>1. current_phase' = Latest.action /\ builder' = [phase |-> Latest.action, since |-> wall]
        BY <2>1, <2>3 DEF Follow, Latest, set_phase
      <3>. QED  BY <2>1, <2>3, <3>1
    <2>. QED  BY <2>2, <2>3
  <1>5. Latest' = Latest /\ Len(log') = Len(log)
    BY <1>1 DEF Latest
  <1>6. Going'
    <2>1. (frame_idx + 1) % DecisionInterval = IF DecisionInterval = 1 THEN 0 ELSE 1
      <3>1. (frame_idx + 1) % DecisionInterval =
              IF 0 = DecisionInterval - 1 THEN 0 ELSE 0 + 1
        BY <1>2, <1>3, NextRemainder
      <3>. QED  BY <1>3, <3>1
    <2>2. frame_idx' - Latest'.frame = 1
      BY <1>1, <1>2, <1>3, <1>5 DEF Recorded
    <2>3. builder'.since = IF Latest.action = Latest.obs.phase
                           THEN Latest.ts - Latest.phase_elapsed ELSE Latest.ts
      BY <1>2, <1>3, <1>4 DEF Recorded
    <2>. QED  BY <1>1, <1>2, <1>3, <1>4, <1>5, <2>1, <2>2, <2>3 DEF Going, Recorded
  <1>7. Numbers'
    BY <1>1, <1>3, <1>4 DEF PilotInv, Numbers
  <1>8. LogCoherent'
    BY <1>1 DEF PilotInv, LogCoherent
  <1>. QED  BY <1>1, <1>4, <1>6, <1>7, <1>8 DEF PilotInv

LEMMA RestartInv == ASSUME PilotInv, PilotRestarts PROVE PilotInv'
  <1>1. /\ pilotPc' = "read" /\ frame_idx' = 0 /\ current_phase' = 0
        /\ builder' = [phase |-> 0, since |-> wall] /\ wall' = wall /\ log' = log
    BY DEF PilotRestarts
  <1>2. Numbers' /\ Starting' /\ LogCoherent'
    BY <1>1 DEF PilotInv, Numbers, Starting, LogCoherent
  <1>. QED  BY <1>1, <1>2 DEF PilotInv

LEMMA PilotStutter == ASSUME PilotInv, UNCHANGED pilotVars PROVE PilotInv'
  BY DEF PilotInv, Numbers, Starting, Going, Recorded, Latest, LogCoherent, pilotVars

LEMMA PilotInvariance == PilotSpec => []PilotInv
  <1>1. PilotInv /\ [PilotNext]_pilotVars => PilotInv'
    BY ReadInv, EndInv, RecommendInv, FollowInv, RestartInv, PilotStutter, Zenon DEF PilotNext
  <1>. QED  BY PilotInitInv, <1>1, PTL DEF PilotSpec

(* The log alone replays the pilot, over any number of stops and restarts:  *)
(* each record begins a start or continues the one before it.              *)
THEOREM LogReplaysPilot == PilotSpec => []LogCoherent
  <1>1. PilotInv => LogCoherent
    BY DEF PilotInv
  <1>. QED  BY <1>1, PilotInvariance, PTL

-----------------------------------------------------------------------------
(* The signals and the plans.                                              *)

LightType == [phase : {0, 1}, held : 0 .. HeldBound]

(* The baseline and its junction.  The junction shows the phase the         *)
(* controller is in, for as long as the controller knows, or is about to be *)
(* asked for a new one after its minimum green.                            *)
BaselineInStep(b, l) ==
  /\ b \in [phase : {0, 1}, elapsed : {0, 5, 10, 15, 20, 25}]
  /\ l \in LightType
  /\ \/ l.phase = b.phase /\ l.held = Within(b.elapsed, 0, HeldBound)
     \/ l.phase # b.phase /\ b.elapsed = 0 /\ l.held = HeldBound

(* A signal after c decisions of a plan with this offset: it starts in     *)
(* phase 0, is in step with the plan from the third decision on, and has   *)
(* shown its phase for ten seconds except right after a change.            *)
InStep(l, c, offset) ==
  LET x == (500 * (c - 1) - offset) % (2 * PlanGreen)
  IN  /\ l \in LightType
      /\ c < 3 => l.phase = 0 /\ l.held = 5 * c
      /\ c >= 3 => /\ l.phase = PlanPhase(500 * (c - 1), offset)
                   /\ l.held >= 5
                   /\ l.held < 10 => c = 3 \/ x % PlanGreen < 500

Offsets3 == {0, 2520, 5040}

LEMMA OffsetValues ==
  /\ DOMAIN WaveOffsets = 1 .. 3
  /\ WaveOffsets[1] = 0 /\ WaveOffsets[2] = 2520 /\ WaveOffsets[3] = 5040
  BY DEF WaveOffsets, compute_offsets, Rounded, Positions, TargetSpeed

LEMMA BaselineStep ==
  ASSUME NEW b, NEW l, BaselineInStep(b, l)
  PROVE  /\ BaselineInStep(Advance(b), Obey(l, Corrected(b.phase, l.phase)))
         /\ Obey(l, Corrected(b.phase, l.phase)).phase = b.phase
         /\ Corrected(b.phase, l.phase) = b.phase
  BY DEF BaselineInStep, Advance, Obey, Corrected, LightType, Within, HeldBound, Settled,
         YellowTime, DeltaTime, PhaseGreen

(* A cycle of 12000 and its halves, in steps of 500. *)
LEMMA CyclePoint ==
  ASSUME NEW x \in Int, NEW last, last = x % 12000, NEW now, now = (x + 500) % 12000
  PROVE  /\ InRange(last, 0, 11999) /\ InRange(now, 0, 11999)
         /\ now = IF last < 11500 THEN last + 500 ELSE last - 11500
  BY DEF InRange

LEMMA FirstHalf == ASSUME NEW x, InRange(x, 0, 5999)  PROVE x % 6000 = x
  BY DEF InRange

LEMMA SecondHalf == ASSUME NEW x, InRange(x, 6000, 11999)  PROVE x % 6000 = x - 6000
  BY DEF InRange

LEMMA PlanStep ==
  ASSUME NEW c \in Nat, NEW offset \in Offsets3, NEW l, InStep(l, c, offset)
  PROVE  LET asks  == PlanPhase(500 * c, offset)
             shows == Obey(l, Corrected(asks, l.phase))
         IN  /\ InStep(shows, c + 1, offset)
             /\ Corrected(asks, l.phase) = asks
             /\ offset = 0 => shows.phase = asks
  <1> DEFINE asks  == PlanPhase(500 * c, offset)
             shows == Obey(l, Corrected(asks, l.phase))
             x     == 500 * (c - 1) - offset
             now   == (x + 500) % 12000
             last  == x % 12000
  <1> SUFFICES /\ InStep(shows, c + 1, offset)
               /\ Corrected(asks, l.phase) = asks
               /\ offset = 0 => shows.phase = asks
    OBVIOUS
  <1>0. x \in Int /\ 500 * c - offset = x + 500
    BY DEF Offsets3
  <1>1. l.phase \in {0, 1} /\ l.held \in 0 .. 15 /\ l = [phase |-> l.phase, held |-> l.held]
    BY DEF InStep, LightType, HeldBound
  <1>2. asks = IF now < 6000 THEN 0 ELSE 1
    <2> HIDE DEF x
    <2>. QED  BY <1>0 DEF PlanPhase, PlanGreen
  <1>3. Corrected(asks, l.phase) = asks
    BY <1>1, <1>2 DEF Corrected
  <1>4. InRange(last, 0, 11999) /\ InRange(now, 0, 11999)
    <2> HIDE DEF x
    <2>. QED  BY <1>0, CyclePoint
  <1>5. now = IF last < 11500 THEN last + 500 ELSE last - 11500
    <2> HIDE DEF x
    <2>. QED  BY <1>0, CyclePoint
  <1>6. shows = IF asks = l.phase \/ l.held < 8
                THEN [phase |-> l.phase, held |-> IF l.held + 5 > 15 THEN 15 ELSE l.held + 5]
                ELSE [phase |-> asks, held |-> 5]
    BY <1>1, <1>2, <1>3 DEF Obey, Within, HeldBound, Settled, YellowTime, DeltaTime
  <1>7. c >= 3 => /\ l.phase = IF last < 6000 THEN 0 ELSE 1
                  /\ l.held >= 5
                  /\ l.held < 10 => c = 3 \/ last % 6000 < 500
    BY DEF InStep, PlanPhase, PlanGreen
  <1>8. c < 3 => l.phase = 0 /\ l.held = 5 * c
    BY DEF InStep
  <1>9. InStep(shows, c + 1, offset) <=>
          /\ shows.phase \in {0, 1} /\ shows.held \in 0 .. 15
          /\ shows = [phase |-> shows.phase, held |-> shows.held]
          /\ c < 2 => shows.phase = 0 /\ shows.held = 5 * (c + 1)
          /\ c >= 2 => /\ shows.phase = asks
                       /\ shows.held >= 5
                       /\ shows.held < 10 => c = 2 \/ now % 6000 < 500
    <2>1. c + 1 - 1 = c /\ 500 * c - offset = x + 500
      BY <1>0
    <2>2. (c + 1 < 3 <=> c < 2) /\ (c + 1 >= 3 <=> c >= 2) /\ (c + 1 = 3 <=> c = 2)
      OBVIOUS
    <2>3. 2 * PlanGreen = 12000 /\ PlanGreen = 6000 /\ HeldBound = 15
      BY DEF PlanGreen, HeldBound
    <2>4. shows \in LightType <=> /\ shows.phase \in {0, 1} /\ shows.held \in 0 .. 15
                                 /\ shows = [phase |-> shows.phase, held |-> shows.held]
      BY <2>3 DEF LightType
    <2> HIDE DEF shows
    <2>. QED  BY <2>1, <2>2, <2>3, <2>4 DEF InStep
  <1> HIDE DEF asks, shows, now, last, x
  <1>10. CASE c < 3
    <2>1. \/ c = 0 /\ now = IF offset = 0 THEN 0 ELSE 12000 - offset
          \/ c = 1 /\ now = IF offset = 0 THEN 500 ELSE 12500 - offset
          \/ c = 2 /\ now = IF offset = 0 THEN 1000 ELSE 13000 - offset
      BY <1>10 DEF Offsets3, now, x
    <2>. QED  BY <1>1, <1>2, <1>3, <1>6, <1>8, <1>9, <1>10, <2>1 DEF Offsets3
  <1>11. CASE c >= 3
    <2>1. c = 3 => last = IF offset = 0 THEN 1000 ELSE 13000 - offset
      BY DEF Offsets3, last, x
    <2>2. (asks = l.phase) <=> (last < 6000 <=> now < 6000)
      BY <1>1, <1>2, <1>7, <1>11
    <2>3. asks # l.phase => now % 6000 < 500 /\ last % 6000 >= 500
      <3>1. CASE last < 6000 /\ asks # l.phase
        <4>1. InRange(now, 6000, 6499) /\ InRange(last, 5500, 5999)
          BY <1>4, <1>5, <2>2, <3>1 DEF InRange
        <4>2. now % 6000 = now - 6000 /\ last % 6000 = last
          BY <4>1, FirstHalf, SecondHalf DEF InRange
        <4>. QED  BY <4>1, <4>2 DEF InRange
      <3>2. CASE last >= 6000 /\ asks # l.phase
        <4>1. now \in 0 .. 499 /\ InRange(last, 11500, 11999)
          BY <1>4, <1>5, <2>2, <3>2 DEF InRange
        <4>2. now % 6000 = now /\ last % 6000 = last - 6000
          BY <4>1, FirstHalf, SecondHalf DEF InRange
        <4>. QED  BY <4>1, <4>2 DEF InRange
      <3>. QED  BY <1>4, <3>1, <3>2 DEF InRange
    <2>4. c = 3 => asks = l.phase
      BY <1>5, <2>1, <2>2 DEF Offsets3
    <2>5. asks # l.phase => l.held >= 10
      <3>1. last % 6000 \in Int
        BY <1>4 DEF InRange
      <3>. QED  BY <1>1, <1>7, <1>11, <2>3, <2>4, <3>1
    <2>. QED  BY <1>1, <1>2, <1>3, <1>6, <1>7, <1>9, <1>11, <2>3, <2>5
  <1>. QED  BY <1>10, <1>11 DEF asks, shows

-----------------------------------------------------------------------------
(* The inductive invariant of the evaluation.                              *)

(* What a plan shifts signal i by. *)
Shift(i) == IF evalPlan = "wave" THEN WaveOffsets[i] ELSE 0

PlansInv ==
  /\ clock \in Nat
  /\ DOMAIN lights = Lights
  /\ evalPlan = "baseline" =>
       BaselineInStep(baseline, lights[1]) /\ (asked[1] # -1 => lights[1].phase = asked[1])
  /\ evalPlan \in {"fixed", "wave"} => \A i \in Lights : InStep(lights[i], clock, Shift(i))
  /\ evalPlan = "fixed" => \A i \in Lights : asked[i] # -1 => lights[i].phase = asked[i]
  /\ evalPlan = "wave" =>
       /\ trail \in Seq({0, 1})
       /\ Len(trail) = clock
       /\ \A k \in 1 .. clock : trail[k] = PlanPhase(500 * (k - 1), 0)

LEMMA ShiftValues ==
  ASSUME evalPlan \in {"fixed", "wave"}
  PROVE  /\ Lights = 1 .. 3
         /\ \A i \in Lights : Shift(i) \in Offsets3
         /\ Shift(1) = 0
  BY OffsetValues DEF Lights, Shift, Offsets3

LEMMA FreshInStep ==
  /\ BaselineInStep(FreshBaseline, [phase |-> 0, held |-> 0])
  /\ \A offset \in Offsets3 : InStep([phase |-> 0, held |-> 0], 0, offset)
  BY DEF BaselineInStep, FreshBaseline, InStep, LightType, Within, HeldBound

(* At the beginning of an episode. *)
Beginning ==
  /\ clock = 0 /\ lights = FreshLights /\ asked = [i \in Lights |-> -1] /\ trail = <<>>
  /\ baseline = FreshBaseline

LEMMA BeginInv == Beginning => PlansInv
  <1>. SUFFICES ASSUME Beginning  PROVE PlansInv
    OBVIOUS
  <1>. USE DEF Beginning
  <1>1. DOMAIN lights = Lights /\ \A i \in Lights : lights[i] = [phase |-> 0, held |-> 0]
    BY DEF FreshLights
  <1>2. \A i \in Lights : asked[i] = -1
    OBVIOUS
  <1>3. evalPlan = "baseline" => 1 \in Lights
    BY DEF Lights
  <1>4. evalPlan \in {"fixed", "wave"} => \A i \in Lights : InStep(lights[i], clock, Shift(i))
    BY <1>1, ShiftValues, FreshInStep
  <1>5. trail \in Seq({0, 1}) /\ Len(trail) = 0
    OBVIOUS
  <1>. QED  BY <1>1, <1>2, <1>3, <1>4, <1>5, FreshInStep DEF PlansInv

(* A decision within the episode. *)
LEMMA DecideInv ==
  ASSUME PlansInv, Decide, ~StartAgain
  PROVE  PlansInv'
  <1> DEFINE corrected == [i \in Lights |-> Corrected(Decision(i), lights[i].phase)]
             shown     == [i \in Lights |-> Obey(lights[i], corrected[i])]
  <1>1. /\ clock' = clock + 1
        /\ lights' = shown
        /\ asked' = corrected
        /\ trail' = IF evalPlan = "wave" THEN Append(trail, shown[1].phase) ELSE trail
        /\ baseline' = IF evalPlan = "baseline" THEN Advance(baseline) ELSE baseline
    BY Zenon DEF Decide
  <1>2. evalPlan' = evalPlan /\ Lights' = Lights
    BY DEF Decide, Lights
  <1>3. clock \in Nat
    BY DEF PlansInv
  <1>4. \A i \in Lights : /\ asked'[i] = Corrected(Decision(i), lights[i].phase)
                          /\ lights'[i] = Obey(lights[i], asked'[i])
    BY <1>1
  <1>5. ASSUME evalPlan = "baseline"
        PROVE  BaselineInStep(baseline', lights'[1]) /\ lights'[1].phase = asked'[1]
    <2>1. 1 \in Lights /\ Decision(1) = baseline.phase
      BY <1>5 DEF Decision, Lights
    <2>2. BaselineInStep(baseline, lights[1])
      BY <1>5 DEF PlansInv
    <2>. QED  BY <1>1, <1>4, <1>5, <2>1, <2>2, BaselineStep
  <1>6. ASSUME evalPlan \in {"fixed", "wave"}, NEW i \in Lights
        PROVE  /\ InStep(lights'[i], clock + 1, Shift(i))
               /\ asked'[i] = PlanPhase(500 * clock, Shift(i))
               /\ Shift(i) = 0 => lights'[i].phase = asked'[i]
    <2>1. Decision(i) = PlanPhase(500 * clock, Shift(i))
      <3>1. Decision(i) = Planned(i)
        BY <1>6 DEF Decision
      <3>2. 100 * DeltaTime * clock = 500 * clock
        BY <1>3 DEF DeltaTime
      <3>. QED  BY <3>1, <3>2 DEF Planned, Shift
    <2>2. InStep(lights[i], clock, Shift(i)) /\ Shift(i) \in Offsets3
      BY <1>6, ShiftValues DEF PlansInv
    <2>3. PlanPhase(500 * clock, Shift(i)) = Corrected(PlanPhase(500 * clock, Shift(i)), lights[i].phase)
      BY <1>3, <2>2, PlanStep
    <2>. QED  BY <1>3, <1>4, <2>1, <2>2, <2>3, PlanStep
  <1>7. (evalPlan \in {"fixed", "wave"})' => \A i \in Lights' : InStep(lights'[i], clock', Shift(i)')
    BY <1>1, <1>2, <1>6 DEF Shift
  <1>8. (evalPlan = "fixed")' => \A i \in Lights' : asked'[i] # -1 => lights'[i].phase = asked'[i]
    BY <1>2, <1>6 DEF Shift
  <1>9. (evalPlan = "wave")' =>
          /\ trail' \in Seq({0, 1})
          /\ Len(trail') = clock'
          /\ \A k \in 1 .. clock' : trail'[k] = PlanPhase(500 * (k - 1), 0)
    <2> SUFFICES ASSUME evalPlan = "wave"
                 PROVE  /\ trail' \in Seq({0, 1})
                        /\ Len(trail') = clock + 1
                        /\ \A k \in 1 .. clock + 1 : trail'[k] = PlanPhase(500 * (k - 1), 0)
      BY <1>1, <1>2
    <2>1. 1 \in Lights /\ Shift(1) = 0
      BY ShiftValues
    <2>2. lights'[1].phase = PlanPhase(500 * clock, 0)
      BY <1>6, <2>1
    <2>3. trail' = Append(trail, PlanPhase(500 * clock, 0))
      BY <1>1, <2>2
    <2>4. PlanPhase(500 * clock, 0) \in {0, 1}
      BY DEF PlanPhase
    <2>5. /\ trail \in Seq({0, 1}) /\ Len(trail) = clock
          /\ \A k \in 1 .. clock : trail[k] = PlanPhase(500 * (k - 1), 0)
      BY DEF PlansInv
    <2> DEFINE p == PlanPhase(500 * clock, 0)
    <2>6. /\ Append(trail, p) \in Seq({0, 1}) /\ Len(Append(trail, p)) = clock + 1
          /\ Append(trail, p)[clock + 1] = p
          /\ \A k \in 1 .. clock : Append(trail, p)[k] = trail[k]
      <3> HIDE DEF p
      <3>. QED  BY <2>4, <2>5 DEF p
    <2>7. clock + 1 - 1 = clock
      BY <1>3
    <2>8. \A k \in 1 .. clock + 1 : k = clock + 1 \/ k \in 1 .. clock
      BY <1>3
    <2>. QED  BY <2>3, <2>5, <2>6, <2>7, <2>8
  <1>10. (clock \in Nat)' /\ DOMAIN lights' = Lights'
    BY <1>1, <1>2, <1>3
  <1>. QED  BY <1>2, <1>5, <1>7, <1>8, <1>9, <1>10 DEF PlansInv

(* A policy has no plan to keep in step with. *)
LEMMA PolicyInv ==
  ASSUME PlansInv, PolicyStep, ~StartAgain
  PROVE  PlansInv'
  <1>1. evalPlan' = "policy" /\ Lights' = Lights
    BY DEF PolicyStep, Lights
  <1>2. clock' = clock + 1 /\ DOMAIN lights' = Lights
    BY DEF PolicyStep
  <1>. QED  BY <1>1, <1>2 DEF PlansInv

LEMMA PlansStep == ASSUME PlansInv, [EvalNext]_evalVars PROVE PlansInv'
  <1>1. CASE (Decide \/ PolicyStep) /\ StartAgain
    <2>1. evalPlan' = evalPlan /\ Lights' = Lights
      BY <1>1 DEF Decide, PolicyStep, Lights
    <2>2. Beginning'
      BY <1>1, <2>1 DEF StartAgain, FreshLights, FreshBaseline, Beginning
    <2>. QED  BY <2>2, BeginInv, PTL
  <1>2. CASE Decide /\ ~StartAgain
    BY <1>2, DecideInv
  <1>3. CASE PolicyStep /\ ~StartAgain
    BY <1>3, PolicyInv
  <1>4. CASE Reward \/ UNCHANGED evalVars
    BY <1>4 DEF Reward, evalVars, PlansInv, Lights, Shift
  <1>. QED  BY <1>1, <1>2, <1>3, <1>4 DEF EvalNext

LEMMA PlansInvariance == EvalSpec => []PlansInv
  <1>1. EvalInit => PlansInv
    BY BeginInv DEF EvalInit, Beginning
  <1>2. PlansInv /\ [EvalNext]_evalVars => PlansInv'
    BY PlansStep
  <1>. QED  BY <1>1, <1>2, PTL DEF EvalSpec

(* The fixed-time controllers and their signals do not drift apart in any   *)
(* number of decisions and episodes of any length.                         *)
THEOREM BaselineKeepsControl == BrainSpec => []BaselineInControl
  <1>1. PlansInv => BaselineInControl
    <2>1. evalPlan = "baseline" => Lights = {1}
      BY DEF Lights
    <2>. QED  BY <2>1 DEF PlansInv, BaselineInControl
  <1>. QED  BY <1>1, PlansInvariance, JobsApart, PTL

LEMMA PlanShown ==
  ASSUME NEW l, NEW c, NEW offset, c >= 3, InStep(l, c, offset)
  PROVE  l.phase = PlanPhase(500 * (c - 1), offset)
  BY Zenon DEF InStep

(* A decision in the green half of a cycle is one of its first twelve. *)
LEMMA GreenHalf ==
  ASSUME NEW m \in Int, PlanPhase(500 * m, 0) = 0
  PROVE  \E q \in Int : 24 * q <= m /\ m <= 24 * q + 11
  <1>1. (500 * m) % 12000 < 6000
    BY DEF PlanPhase, PlanGreen
  <1>2. (500 * m) \div 12000 \in Int
    OBVIOUS
  <1>3. 24 * ((500 * m) \div 12000) <= m /\ m <= 24 * ((500 * m) \div 12000) + 11
    BY <1>1, SMTT(30)
  <1>. QED  BY <1>2, <1>3

LEMMA InGreenHalf ==
  ASSUME NEW q \in Int, NEW x \in Int, 12000 * q <= x, x < 12000 * q + 6000
  PROVE  x % 12000 < 6000 /\ x % 6000 = x - 12000 * q
  OBVIOUS

LEMMA Decisions500 ==
  ASSUME NEW t \in Int, t >= 0
  PROVE  t \div 500 \in Nat /\ 500 * (t \div 500) <= t /\ t < 500 * (t \div 500) + 500
  OBVIOUS

(* The plan of signal 1 is green from eight seconds before left on. *)
GreenUntil(left) ==
  \A k \in (left - 800) \div 500 + 1 .. left \div 500 + 1 : PlanPhase(500 * (k - 1), 0) = 0

Instants == 0 .. 499
Delays   == {2520, 5040}

(* Who arrives after c decisions, and into hundredths, left drive earlier.  *)
Leaves(c, into, drive) == (500 * (c - 1) + into) - drive

(* The plan shows green to him, and has for a decision or three seconds.    *)
PassesOnGreen(c, into, drive) ==
  /\ c > 3
  /\ PlanPhase(500 * (c - 1), drive) = 0
  /\ into < 300 => ~(((500 * (c - 1) - drive) % (2 * PlanGreen)) % PlanGreen < 500)

(* Between the decision in force eight seconds before somebody left signal  *)
(* 1 and the one at which he left, signal 1 is green under the plan; then   *)
(* so is, when he arrives, a signal whose plan is shifted by the way, and   *)
(* not only just.                                                          *)
LEMMA GreenAtArrival ==
  ASSUME NEW c \in Nat, NEW drive \in Delays, NEW into \in Instants,
         NEW left, left = Leaves(c, into, drive), left >= 800, GreenUntil(left)
  PROVE  PassesOnGreen(c, into, drive)
  <1> DEFINE x == 500 * (c - 1) - drive
             s == (left - 800) \div 500
             e == left \div 500
  <1>1. x \in Int /\ left = x + into /\ left \in Int /\ c > 3 /\ into \in 0 .. 499
    BY DEF Delays, Instants, Leaves
  <1>2. /\ s \in Nat /\ 500 * s <= left - 800 /\ left - 800 < 500 * s + 500
        /\ e \in Nat /\ 500 * e <= left /\ left < 500 * e + 500
    <2> HIDE DEF x
    <2>1. left - 800 \in Int /\ left - 800 >= 0 /\ left >= 0
      BY <1>1
    <2>. QED  BY <1>1, <2>1, Decisions500
  <1>3. PlanPhase(500 * s, 0) = 0 /\ PlanPhase(500 * e, 0) = 0
    <2>0. \A k \in s + 1 .. e + 1 : PlanPhase(500 * (k - 1), 0) = 0
      BY DEF GreenUntil
    <2> HIDE DEF s, e, x
    <2>1. s + 1 \in s + 1 .. e + 1 /\ e + 1 \in s + 1 .. e + 1
      BY <1>1, <1>2
    <2>2. (s + 1) - 1 = s /\ (e + 1) - 1 = e
      BY <1>2
    <2>3. PlanPhase(500 * ((s + 1) - 1), 0) = 0 /\ PlanPhase(500 * ((e + 1) - 1), 0) = 0
      BY ONLY <2>0, <2>1, Zenon
    <2>. QED  BY ONLY <2>2, <2>3
  <1> HIDE DEF x, s, e
  <1>4. PICK q \in Int : 24 * q <= s /\ s <= 24 * q + 11
    BY <1>2, <1>3, GreenHalf
  <1>5. PICK r \in Int : 24 * r <= e /\ e <= 24 * r + 11
    BY <1>2, <1>3, GreenHalf
  <1>6. r = q
    BY <1>1, <1>2, <1>4, <1>5
  <1>7. 12000 * q <= x /\ x < 12000 * q + 6000
    BY <1>1, <1>2, <1>4, <1>5, <1>6
  <1>8. x % 12000 < 6000 /\ x % 6000 = x - 12000 * q
    BY ONLY <1>1, <1>7, InGreenHalf
  <1>9. into < 300 => x % 6000 >= 500
    BY <1>1, <1>2, <1>4, <1>8
  <1>10. (x % 12000) % 6000 = x % 6000
    BY ONLY <1>1, <1>7, <1>8, InGreenHalf
  <1>. QED  BY <1>1, <1>8, <1>9, <1>10 DEF PassesOnGreen, PlanPhase, PlanGreen, x

(* Whoever leaves signal 1 in its green, later than its first five seconds, *)
(* passes every signal on green, at every moment of every episode, however  *)
(* long.                                                                   *)
THEOREM PlatoonsRideTheWave == BrainSpec => []PlatoonMeetsGreen
  <1>1. PlansInv => PlatoonMeetsGreen
    <2> SUFFICES ASSUME PlansInv, evalPlan = "wave", NEW i \in Lights \ {1},
                        NEW into \in 0 .. 100 * DeltaTime - 1,
                        GreenIsLit((100 * DeltaTime * (clock - 1) + into)
                                     - (360 * (Positions[i] - Positions[1])) \div TargetSpeed)
                 PROVE  /\ lights[i].phase = 0
                        /\ lights[i].held > DeltaTime \/ into >= 100 * YellowTime
      BY Zenon DEF PlatoonMeetsGreen
    <2> DEFINE drive == (360 * (Positions[i] - Positions[1])) \div TargetSpeed
               left  == (100 * DeltaTime * (clock - 1) + into) - drive
    <2>0. GreenIsLit(left)
      OBVIOUS
    <2>1. i \in {2, 3} /\ clock \in Nat /\ drive \in {2520, 5040} /\ drive = Shift(i)
      BY ShiftValues, OffsetValues DEF PlansInv, Positions, TargetSpeed, Shift
    <2> HIDE DEF drive
    <2>2. into \in 0 .. 499 /\ left = (500 * (clock - 1) + into) - drive /\ left \in Int
      BY <2>1 DEF DeltaTime
    <2> HIDE DEF left
    <2>3. left >= 800 /\ \A k \in (left - 800) \div 500 + 1 .. left \div 500 + 1 : trail[k] = 0
      BY <2>0, <2>2 DEF GreenIsLit, DecisionAt, DeltaTime, YellowTime
    <2>4. GreenUntil(left)
      <3>1. \A k \in 1 .. clock : trail[k] = PlanPhase(500 * (k - 1), 0)
        BY DEF PlansInv
      <3>2. left - 800 \in Int /\ left - 800 >= 0 /\ left >= 0 /\ left < 500 * clock
        BY ONLY <2>1, <2>2, <2>3
      <3>3. /\ (left - 800) \div 500 \in Nat /\ left \div 500 \in Nat
            /\ 500 * (left \div 500) <= left
        BY ONLY <2>2, <3>2, Decisions500
      <3>4. left \div 500 + 1 <= clock
        BY ONLY <2>1, <2>2, <3>2, <3>3
      <3>5. \A k \in (left - 800) \div 500 + 1 .. left \div 500 + 1 : k \in 1 .. clock
        BY ONLY <2>1, <3>3, <3>4
      <3> SUFFICES ASSUME NEW k \in (left - 800) \div 500 + 1 .. left \div 500 + 1
                   PROVE  PlanPhase(500 * (k - 1), 0) = 0
        BY DEF GreenUntil
      <3>6. k \in 1 .. clock
        BY ONLY <3>5
      <3>7. trail[k] = 0
        BY <2>3
      <3>. QED  BY <3>1, <3>6, <3>7
    <2>5. /\ clock > 3
          /\ PlanPhase(500 * (clock - 1), Shift(i)) = 0
          /\ into < 300 => ~(((500 * (clock - 1) - Shift(i)) % (2 * PlanGreen)) % PlanGreen < 500)
      <3>0. clock \in Nat /\ drive \in Delays /\ into \in Instants /\ left >= 800
            /\ left = Leaves(clock, into, drive)
        BY <2>1, <2>2, <2>3 DEF Delays, Instants, Leaves
      <3>1. PassesOnGreen(clock, into, drive)
        BY ONLY <2>4, <3>0, GreenAtArrival, Zenon
      <3>. QED  BY <2>1, <3>1 DEF PassesOnGreen
    <2>6. InStep(lights[i], clock, Shift(i))
      BY DEF PlansInv
    <2>7. lights[i].phase = PlanPhase(500 * (clock - 1), Shift(i))
      <3>1. clock >= 3
        BY ONLY <2>1, <2>5
      <3>. QED  BY ONLY <2>6, <3>1, PlanShown
    <2>8. into < 300 => lights[i].held \in Int /\ lights[i].held >= 10
      <3>1. clock >= 3 /\ clock # 3
        BY ONLY <2>1, <2>5
      <3>2. lights[i].held \in Int
        BY <2>6 DEF InStep, LightType, HeldBound
      <3>. QED  BY <2>5, <2>6, <3>1, <3>2 DEF InStep
    <2>. QED  BY <2>2, <2>5, <2>7, <2>8 DEF DeltaTime, YellowTime
  <1>. QED  BY <1>1, PlansInvariance, JobsApart, PTL

-----------------------------------------------------------------------------
(* Routes.                                                                 *)

LEMMA AlongIs ==
  ASSUME NEW nodes, NEW n \in Nat, Len(nodes) = n + 1, NEW streets,
         \A k \in 1 .. n : <<nodes[k], nodes[k + 1]>> \in streets
  PROVE  IsDrivable(Along(nodes), streets)
  <1> DEFINE route == [k \in 1 .. n |-> <<nodes[k], nodes[k + 1]>>]
  <1>1. Along(nodes) = route
    BY DEF Along
  <1>2. Len(route) = n /\ DOMAIN route = 1 .. n
    OBVIOUS
  <1>3. Range(route) \subseteq streets
    BY <1>2 DEF Range
  <1>4. \A k \in 1 .. n - 1 : route[k][2] = route[k + 1][1]
    OBVIOUS
  <1> HIDE DEF route
  <1>. QED  BY <1>1, <1>2, <1>3, <1>4 DEF IsDrivable

(* A line of streets is drivable. *)
LEMMA ThreeNodes ==
  ASSUME NEW a, NEW b, NEW c, NEW streets, <<a, b>> \in streets, <<b, c>> \in streets
  PROVE  IsDrivable(Along(<<a, b, c>>), streets)
  <1>1. \A k \in 1 .. 2 : <<(<<a, b, c>>)[k], (<<a, b, c>>)[k + 1]>> \in streets
    OBVIOUS
  <1>2. Len(<<a, b, c>>) = 2 + 1
    OBVIOUS
  <1>. QED  BY <1>1, <1>2, AlongIs

LEMMA FourNodes ==
  ASSUME NEW a, NEW b, NEW c, NEW d, NEW streets,
         <<a, b>> \in streets, <<b, c>> \in streets, <<c, d>> \in streets
  PROVE  IsDrivable(Along(<<a, b, c, d>>), streets)
  <1>1. \A k \in 1 .. 3 : <<(<<a, b, c, d>>)[k], (<<a, b, c, d>>)[k + 1]>> \in streets
    OBVIOUS
  <1>2. Len(<<a, b, c, d>>) = 3 + 1
    OBVIOUS
  <1>. QED  BY <1>1, <1>2, AlongIs

LEMMA FiveNodes ==
  ASSUME NEW a, NEW b, NEW c, NEW d, NEW e, NEW streets,
         <<a, b>> \in streets, <<b, c>> \in streets, <<c, d>> \in streets, <<d, e>> \in streets
  PROVE  IsDrivable(Along(<<a, b, c, d, e>>), streets)
  <1>1. \A k \in 1 .. 4 : <<(<<a, b, c, d, e>>)[k], (<<a, b, c, d, e>>)[k + 1]>> \in streets
    OBVIOUS
  <1>2. Len(<<a, b, c, d, e>>) = 4 + 1
    OBVIOUS
  <1>. QED  BY <1>1, <1>2, AlongIs

LEMMA BothWays ==
  ASSUME NEW S, NEW a, NEW b, <<a, b>> \in S
  PROVE  <<a, b>> \in Both(S) /\ <<b, a>> \in Both(S)
  <1>1. <<(<<a, b>>)[2], (<<a, b>>)[1]>> = <<b, a>>
    OBVIOUS
  <1>. QED  BY <1>1 DEF Both

(* The streets of the corridor, in both directions. *)
LEMMA CorridorStreets ==
  LET streets == generate_corridor(3)
  IN  /\ <<West, C(0)>> \in streets /\ <<C(0), West>> \in streets
      /\ <<C(2), East>> \in streets /\ <<East, C(2)>> \in streets
      /\ <<C(0), C(1)>> \in streets /\ <<C(1), C(0)>> \in streets
      /\ <<C(1), C(2)>> \in streets /\ <<C(2), C(1)>> \in streets
      /\ \A i \in 0 .. 2 : /\ <<C(i), North(i)>> \in streets /\ <<North(i), C(i)>> \in streets
                           /\ <<C(i), South(i)>> \in streets /\ <<South(i), C(i)>> \in streets
  <1> DEFINE oneWay == {<<West, C(0)>>, <<C(2), East>>}
                       \cup { <<C(i), C(i + 1)>> : i \in 0 .. 1 }
                       \cup { <<C(i), North(i)>> : i \in 0 .. 2 }
                       \cup { <<C(i), South(i)>> : i \in 0 .. 2 }
  <1>1. generate_corridor(3) = Both(oneWay)
    BY DEF generate_corridor
  <1>3. /\ <<West, C(0)>> \in oneWay /\ <<C(2), East>> \in oneWay
        /\ \A i \in 0 .. 1 : <<C(i), C(i + 1)>> \in oneWay
        /\ \A i \in 0 .. 2 : <<C(i), North(i)>> \in oneWay /\ <<C(i), South(i)>> \in oneWay
    OBVIOUS
  <1>4. <<C(0), C(1)>> \in oneWay /\ <<C(1), C(2)>> \in oneWay
    BY <1>3
  <1> HIDE DEF oneWay
  <1>2. \A a, b : <<a, b>> \in oneWay => <<a, b>> \in Both(oneWay) /\ <<b, a>> \in Both(oneWay)
    BY BothWays
  <1>. QED  BY <1>1, <1>2, <1>3, <1>4

LEMMA Extended ==
  ASSUME NEW S, NEW s \in Seq(S), NEW e \in S
  PROVE  /\ s \o <<e>> \in Seq(S) /\ Len(s \o <<e>>) = Len(s) + 1
         /\ \A k \in 1 .. Len(s) : (s \o <<e>>)[k] = s[k]
         /\ (s \o <<e>>)[Len(s) + 1] = e
  <1> DEFINE u == <<e>>
  <1>1. u \in Seq(S) /\ Len(u) = 1 /\ u[1] = e
    OBVIOUS
  <1> HIDE DEF u
  <1>2. /\ s \o u \in Seq(S)
         /\ Len(s \o u) = Len(s) + Len(u)
         /\ \A i \in 1 .. Len(s) + Len(u) : (s \o u)[i] =
                     IF i <= Len(s) THEN s[i] ELSE u[i - Len(s)]
    BY <1>1, ConcatProperties
  <1>3. /\ s \o u \in Seq(S) /\ Len(s \o u) = Len(s) + 1
         /\ \A k \in 1 .. Len(s) : (s \o u)[k] = s[k]
         /\ (s \o u)[Len(s) + 1] = e
    <2>1. Len(s) \in Nat
      OBVIOUS
    <2>2. Len(s) + 1 - Len(s) = 1 /\ Len(s) + 1 \in 1 .. Len(s) + 1 /\ ~(Len(s) + 1 <= Len(s))
      BY <2>1
    <2>. QED BY <1>1, <1>2, <2>1, <2>2
  <1>. QED BY <1>3 DEF u
LEMMA Joined ==
  ASSUME NEW a, NEW b, NEW c, NEW d, NEW e
  PROVE  <<a>> \o <<b, c, d>> \o <<e>> = <<a, b, c, d, e>>
  <1> DEFINE S == {a, b, c, d, e}
             s == <<a>> \o <<b, c, d>>
             t == s \o <<e>>
  <1>0. <<a>> \in Seq(S) /\ <<b, c, d>> \in Seq(S) /\ <<e>> \in Seq(S) /\ <<a, b, c, d, e>> \in Seq(S)
    OBVIOUS
  <1>1. s \in Seq(S) /\ Len(s) = 4 /\ s[1] = a /\ s[2] = b /\ s[3] = c /\ s[4] = d /\ e \in S
    OBVIOUS
  <1> HIDE DEF s, S
  <1>2. t \in Seq(S) /\ Len(t) = 5 /\ t[1] = a /\ t[2] = b /\ t[3] = c /\ t[4] = d /\ t[5] = e
    <2>0. s \in Seq(S) /\ e \in S
      BY <1>1
    <2>1. /\ t \in Seq(S) /\ Len(t) = Len(s) + 1
          /\ \A k \in 1 .. Len(s) : t[k] = s[k]
          /\ t[Len(s) + 1] = e
      BY <2>0, Extended
    <2> HIDE DEF t
    <2>. QED  BY <1>1, <2>1
  <1> HIDE DEF t
  <1>3. \A k \in 1 .. 5 : t[k] = <<a, b, c, d, e>>[k]
    BY <1>2
  <1>4. Len(<<a, b, c, d, e>>) = 5
   OBVIOUS
  <1>5. t = <<a, b, c, d, e>>
    BY <1>0, <1>2, <1>3, <1>4
  <1>. QED BY <1>5 DEF t, s
LEMMA Reversed ==
  ASSUME NEW a, NEW b, NEW c, NEW d, NEW e
  PROVE  Reverse(<<a, b, c, d, e>>) = <<e, d, c, b, a>>
  <1> DEFINE s == <<a, b, c, d, e>>
  <1>1. Len(s) = 5
    OBVIOUS
  <1>2. \A k \in 1 .. 5 : s[(5 - k) + 1] = <<e, d, c, b, a>>[k]
    OBVIOUS
  <1>3. Reverse(s) = [k \in 1 .. 5 |-> s[(5 - k) + 1]]
    BY <1>1 DEF Reverse
  <1>4. [k \in 1 .. 5 |-> <<e, d, c, b, a>>[k]] = <<e, d, c, b, a>>
    OBVIOUS
  <1> HIDE DEF s
  <1>. QED  BY <1>2, <1>3, <1>4 DEF s

LEMMA AvenueIs ==
  /\ Avenue(3) = <<West, C(0), C(1), C(2), East>>
  /\ Reverse(Avenue(3)) = <<East, C(2), C(1), C(0), West>>
  <1>1. [k \in 1 .. 3 |-> C(k - 1)] = <<C(0), C(1), C(2)>>
    OBVIOUS
  <1>2. Avenue(3) = <<West, C(0), C(1), C(2), East>>
    BY <1>1, Joined DEF Avenue
  <1>. QED  BY <1>2, Reversed

LEMMA CorridorDrivable ==
  LET streets == generate_corridor(3)
  IN  /\ IsDrivable(Along(Avenue(3)), streets) /\ IsDrivable(Along(Reverse(Avenue(3))), streets)
      /\ \A i \in 0 .. 2 : /\ IsDrivable(Along(<<North(i), C(i), South(i)>>), streets)
                           /\ IsDrivable(Along(<<South(i), C(i), North(i)>>), streets)
      /\ IsDrivable(Along(<<West, C(0), C(1), North(1)>>), streets)
      /\ IsDrivable(Along(<<South(0), C(0), C(1), C(2), East>>), streets)
      /\ IsDrivable(Along(<<South(0), C(0), C(1), C(2)>>) \o <<<<C(2), East>>>>, streets)
  <1> DEFINE streets == generate_corridor(3)
  <1>0. /\ <<West, C(0)>> \in streets /\ <<C(0), West>> \in streets
        /\ <<C(2), East>> \in streets /\ <<East, C(2)>> \in streets
        /\ <<C(0), C(1)>> \in streets /\ <<C(1), C(0)>> \in streets
        /\ <<C(1), C(2)>> \in streets /\ <<C(2), C(1)>> \in streets
        /\ \A i \in 0 .. 2 : /\ <<C(i), North(i)>> \in streets /\ <<North(i), C(i)>> \in streets
                             /\ <<C(i), South(i)>> \in streets /\ <<South(i), C(i)>> \in streets
    BY CorridorStreets
  <1> HIDE DEF streets
  <1>1. IsDrivable(Along(Avenue(3)), streets) /\ IsDrivable(Along(Reverse(Avenue(3))), streets)
    BY <1>0, AvenueIs, FiveNodes
  <1>2. ASSUME NEW i \in 0 .. 2
        PROVE  /\ IsDrivable(Along(<<North(i), C(i), South(i)>>), streets)
               /\ IsDrivable(Along(<<South(i), C(i), North(i)>>), streets)
    BY <1>0, ThreeNodes
  <1>3. IsDrivable(Along(<<West, C(0), C(1), North(1)>>), streets)
    BY <1>0, FourNodes
  <1>4. IsDrivable(Along(<<South(0), C(0), C(1), C(2), East>>), streets)
    BY <1>0, FiveNodes
  <1>5. Along(<<South(0), C(0), C(1), C(2)>>) \o <<<<C(2), East>>>> = Along(<<South(0), C(0), C(1), C(2), East>>)
    BY DEF Along
  <1>. QED  BY <1>1, <1>2, <1>3, <1>4, <1>5 DEF streets

-----------------------------------------------------------------------------
(* Demand.                                                                 *)

(* A flow the simulation accepts over these streets. *)
Drives(f, streets) ==
  f.probability > 0 /\ f.probability \in 0 .. Certain /\ IsDrivable(f.route, streets)

LEMMA CertainIs == Certain \in Nat /\ Certain > 50000
  BY DEF Certain

LEMMA FlowDrives ==
  ASSUME NEW route, NEW demand \in Int, NEW streets, IsDrivable(route, streets)
  PROVE  \A f \in Flow(route, demand) : Drives(f, streets)
  BY CertainIs DEF Flow, Printed, Clip, Drives

(* The knobs of a scenario. *)
Knobs == [base_flow : Int, ew_bias : Int, cross_ratio : Int, bus_ratio : Int, turn_ratio : Int,
          jitter : [base_flow : Int, ew_bias : Int, cross_ratio : Int, turn_ratio : Int]]

LEMMA CurriculumKnobs == \A s \in DOMAIN CURRICULUM : CURRICULUM[s] \subseteq Knobs
  <1>1. /\ {WINTER_QUIET, WINTER_NIGHT_EMPTY, SHOULDER_BALANCED} \subseteq Knobs
        /\ {RAIN_MODERATE, SUMMER_RETURN_DOWNTOWN} \subseteq Knobs
        /\ {SUMMER_EXODUS_BEACH, SUDESTADA_STORM, INCIDENT_ASYMMETRIC_SPIKE} \subseteq Knobs
    BY DEF WINTER_QUIET, WINTER_NIGHT_EMPTY, SHOULDER_BALANCED, RAIN_MODERATE,
           SUMMER_RETURN_DOWNTOWN, SUMMER_EXODUS_BEACH, SUDESTADA_STORM,
           INCIDENT_ASYMMETRIC_SPIKE, Scenario, Knobs
  <1>. QED  BY <1>1 DEF CURRICULUM

LEMMA DrawKnobs == ASSUME NEW base \in Knobs  PROVE randomize(base) \subseteq Knobs
  <1>1. \A knob \in {"base_flow", "ew_bias", "cross_ratio", "turn_ratio"} :
          base.jitter[knob] \in Int /\ base[knob] \in Int
    BY DEF Knobs
  <1>2. \A knob \in {"base_flow", "ew_bias", "cross_ratio", "turn_ratio"} :
          \A lo, hi \in Int : Jit(base, knob, lo, hi) \subseteq Int
    BY <1>1 DEF Jit, Clip
  <1>3. /\ Jit(base, "base_flow", 10, 2500) \subseteq Int
        /\ Jit(base, "ew_bias", 2, 98) \subseteq Int
        /\ Jit(base, "cross_ratio", 2, 80) \subseteq Int
        /\ Jit(base, "turn_ratio", 0, 50) \subseteq Int
    BY <1>2
  <1>4. \A b, e, c, t \in Int : Drawn(base, b, e, c, t) \in Knobs
    BY DEF Drawn, Knobs
  <1>. SUFFICES ASSUME NEW spec \in randomize(base)  PROVE spec \in Knobs
    OBVIOUS
  <1>5. PICK b \in Jit(base, "base_flow", 10, 2500), e \in Jit(base, "ew_bias", 2, 98),
             c \in Jit(base, "cross_ratio", 2, 80), t \in Jit(base, "turn_ratio", 0, 50) :
          spec = Drawn(base, b, e, c, t)
    BY SMT DEF randomize
  <1>6. b \in Int /\ e \in Int /\ c \in Int /\ t \in Int
    BY <1>3
  <1>. QED  BY <1>4, <1>5, <1>6

LEMMA EpisodeDrives ==
  ASSUME NEW spec \in Knobs
  PROVE  \A f \in scenario_to_routes_xml(spec) : Drives(f, generate_corridor(3))
  <1> DEFINE streets == generate_corridor(3)
             Fine(S) == \A f \in S : Drives(f, streets)
             eastbound == spec.base_flow * spec.ew_bias
             westbound == spec.base_flow * (100 - spec.ew_bias)
             cross     == (spec.base_flow * spec.cross_ratio * 100) \div 3
             turning   == spec.base_flow * spec.turn_ratio * 50
  <1>1. /\ eastbound * 100 \in Int /\ westbound * 100 \in Int /\ cross \in Int /\ turning \in Int
        /\ eastbound * spec.bus_ratio \in Int /\ westbound * spec.bus_ratio \in Int
    <2>1. spec.base_flow \in Int /\ spec.ew_bias \in Int /\ spec.cross_ratio \in Int
          /\ spec.turn_ratio \in Int /\ spec.bus_ratio \in Int
      BY DEF Knobs
    <2>2. eastbound \in Int /\ westbound \in Int /\ turning \in Int
          /\ spec.base_flow * spec.cross_ratio * 100 \in Int
      BY <2>1
    <2>3. \A n \in Int : n \div 3 \in Int
      OBVIOUS
    <2> HIDE DEF eastbound, westbound, turning
    <2>. QED  BY <2>1, <2>2, <2>3
  <1> HIDE DEF eastbound, westbound, cross, turning, streets
  <1>2. /\ IsDrivable(Along(Avenue(3)), streets) /\ IsDrivable(Along(Reverse(Avenue(3))), streets)
        /\ \A i \in 0 .. 2 : /\ IsDrivable(Along(<<North(i), C(i), South(i)>>), streets)
                             /\ IsDrivable(Along(<<South(i), C(i), North(i)>>), streets)
        /\ IsDrivable(Along(<<West, C(0), C(1), North(1)>>), streets)
        /\ IsDrivable(Along(<<South(0), C(0), C(1), C(2), East>>), streets)
    BY CorridorDrivable DEF streets
  <1> DEFINE cars   == Flow(Along(Avenue(3)), eastbound * 100)
             back   == Flow(Along(Reverse(Avenue(3))), westbound * 100)
             buses  == Flow(Along(Avenue(3)), eastbound * spec.bus_ratio)
             others == Flow(Along(Reverse(Avenue(3))), westbound * spec.bus_ratio)
             across == UNION { Flow(Along(<<North(i), C(i), South(i)>>), cross)
                               \cup Flow(Along(<<South(i), C(i), North(i)>>), cross) : i \in Signals3 }
             left   == Flow(Along(<<West, C(0), C(1), North(1)>>), turning)
             right  == Flow(Along(<<South(0), C(0), C(1), C(2), East>>), turning)
  <1>3. Fine(cars) /\ Fine(back) /\ Fine(buses) /\ Fine(others) /\ Fine(left) /\ Fine(right)
    BY <1>1, <1>2, FlowDrives
  <1>4. \A i \in Signals3 : /\ Fine(Flow(Along(<<North(i), C(i), South(i)>>), cross))
                             /\ Fine(Flow(Along(<<South(i), C(i), North(i)>>), cross))
    BY <1>1, <1>2, FlowDrives DEF Signals3
  <1>5. Fine(across)
    BY Zenon, <1>4
  <1>6. scenario_to_routes_xml(spec)
          = cars \cup back \cup buses \cup others \cup across \cup left \cup right
    BY DEF scenario_to_routes_xml, eastbound, westbound, cross, turning
  <1> HIDE DEF cars, back, buses, others, across, left, right
  <1>. QED  BY <1>3, <1>5, <1>6 DEF streets

LEMMA CorridorDrives ==
  \A f \in generate_corridor_routes(3) : Drives(f, generate_corridor(3))
  <1> DEFINE streets == generate_corridor(3)
  <1>1. \A r \in CorridorRoutes(3) : IsDrivable(r, streets)
    <2>1. \A i \in 0 .. 3 - 1 : i \in 0 .. 2
      OBVIOUS
    <2>2. C(3 - 1) = C(2)
      OBVIOUS
    <2> HIDE DEF streets
    <2>. QED  BY Zenon, <2>1, <2>2, CorridorDrivable DEF CorridorRoutes, streets
  <1>2. {Along(Avenue(3)), Along(Reverse(Avenue(3)))} \subseteq CorridorRoutes(3)
    BY Zenon DEF CorridorRoutes
  <1> HIDE DEF streets
  <1>3. \A f \in generate_corridor_routes(3) :
          f.probability \in {33330, 1670, 8330, 2000} /\ f.route \in CorridorRoutes(3)
    BY <1>2 DEF generate_corridor_routes
  <1>. QED  BY <1>1, <1>3, CertainIs DEF Drives, streets

(* The streets of the single crossing. *)
LEMMA CrossingDrives ==
  ASSUME NEW from \in Arms, NEW to \in Arms
  PROVE  IsDrivable(Crossing(from, to), generate_single_intersection)
  <1> DEFINE oneWay == { <<<<a, 0>>, Centre>> : a \in Arms }
             entry == <<from, 0>>
             exit  == <<to, 0>>
             streets == Both(oneWay)
  <1>1. <<entry, Centre>> \in oneWay /\ <<exit, Centre>> \in oneWay
    OBVIOUS
  <1> HIDE DEF oneWay, entry, exit
  <1>2. <<entry, Centre>> \in streets /\ <<Centre, exit>> \in streets
    BY <1>1, BothWays
  <1> HIDE DEF streets
  <1>3. IsDrivable(Along(<<entry, Centre, exit>>), streets)
    BY <1>2, ThreeNodes
  <1>. QED  BY <1>3 DEF Crossing, generate_single_intersection, streets, oneWay, entry, exit

LEMMA TurnsIntoArms ==
  /\ DOMAIN TurnMap = Arms
  /\ \A a \in Arms : \A m \in 1 .. 3 : TurnMap[a][m] \in Arms
  BY DEF TurnMap, Arms

LEMMA JunctionDrives ==
  \A f \in generate_routes(CliDemand) : Drives(f, generate_single_intersection)
  <1>1. /\ DOMAIN CliDemand = Arms
        /\ \A a \in Arms : CliDemand[a] \in {600, 500, 400, 350}
    BY DEF CliDemand, Arms
  <1>2. ASSUME NEW a \in Arms, NEW m \in 1 .. 3
        PROVE  LET p == (((CliDemand[a] * (<<100, 15, 10>>)[m] * 100) + 1800) \div 3600) * 10
               IN  p > 0 /\ p \in Nat /\ p < 50000
    <2>1. (<<100, 15, 10>>)[m] \in {100, 15, 10}
      OBVIOUS
    <2>2. \A x \in {600, 500, 400, 350}, y \in {100, 15, 10} :
            /\ ((x * y * 100 + 1800) \div 3600) * 10 > 0
            /\ ((x * y * 100 + 1800) \div 3600) * 10 \in Nat
            /\ ((x * y * 100 + 1800) \div 3600) * 10 < 50000
      OBVIOUS
    <2>. QED  BY <1>1, <2>1, <2>2
  <1>3. \A f \in generate_routes(CliDemand) : \E a \in Arms, m \in 1 .. 3 :
          /\ f.route = Crossing(a, TurnMap[a][m])
          /\ f.probability = (((CliDemand[a] * (<<100, 15, 10>>)[m] * 100) + 1800) \div 3600) * 10
    BY <1>1 DEF generate_routes
  <1>. QED  BY <1>2, <1>3, TurnsIntoArms, CrossingDrives, CertainIs DEF Drives

-----------------------------------------------------------------------------
(* The inductive invariant of the world.                                   *)

(* The streets each kind of simulation drives on. *)
StreetsOf(kind) ==
  IF kind \in {"corridor", "episode"} THEN generate_corridor(3) ELSE generate_single_intersection

WorldInv ==
  /\ worldKind \in {"junction", "corridor", "episode", "recorded"}
  /\ worldPc = "film" => worldKind = "recorded"
  /\ worldPc = "compile" => worldKind \in {"junction", "corridor"}
  /\ worldPc \in {"film", "routes", "simulate"} => net = StreetsOf(worldKind)
  /\ worldPc # "simulate" => flows = {} /\ vehicles = <<>>
  /\ SimulationAccepts

LEMMA WorldInitInv == ASSUME WorldInit PROVE WorldInv
  <1>1. worldKind \in {"junction", "corridor", "episode", "recorded"}
    BY WorldAssumption DEF WorldInit, WorldAssumption, FirstWorldStep
  <1>2. /\ worldPc \in {"compile", "routes", "film"}
        /\ worldPc = "routes" <=> worldKind = "episode"
        /\ worldPc = "film" <=> worldKind = "recorded"
    BY <1>1 DEF WorldInit, FirstWorldStep
  <1>. QED  BY <1>1, <1>2 DEF WorldInit, WorldInv, StreetsOf, SimulationAccepts

LEMMA CompileInv == ASSUME WorldInv, Compile PROVE WorldInv'
  BY DEF Compile, WorldInv, StreetsOf, SimulationAccepts

(* Whatever the demand file is made from, its flows fit the network. *)
LEMMA FlowsDrive ==
  ASSUME WorldInv, WriteFlows  PROVE \A f \in flows' : Drives(f, StreetsOf(worldKind))
  <1>1. worldKind \in {"junction", "corridor", "episode"}
    BY DEF WorldInv, WriteFlows
  <1>2. CASE worldKind = "junction"
    <2>1. flows' = generate_routes(CliDemand)
      BY <1>2 DEF WriteFlows
    <2>. QED  BY <1>2, <2>1, JunctionDrives DEF StreetsOf
  <1>3. CASE worldKind = "corridor"
    <2>1. flows' = generate_corridor_routes(3)
      BY <1>3 DEF WriteFlows
    <2>. QED  BY <1>3, <2>1, CorridorDrives DEF StreetsOf
  <1>4. CASE worldKind = "episode"
    <2>1. PICK s \in DOMAIN CURRICULUM : \E base \in CURRICULUM[s] : \E spec \in randomize(base) :
            flows' = scenario_to_routes_xml(spec)
      BY <1>4 DEF WriteFlows
    <2>2. PICK base \in CURRICULUM[s] : \E spec \in randomize(base) :
            flows' = scenario_to_routes_xml(spec)
      BY <2>1
    <2>3. PICK spec \in randomize(base) : flows' = scenario_to_routes_xml(spec)
      BY <2>2
    <2>4. spec \in Knobs
      BY CurriculumKnobs, DrawKnobs
    <2>. QED  BY <1>4, <2>3, <2>4, EpisodeDrives DEF StreetsOf
  <1>. QED  BY <1>1, <1>2, <1>3, <1>4

LEMMA WriteFlowsInv == ASSUME WorldInv, WriteFlows PROVE WorldInv'
  <1>1. /\ worldKind \in {"junction", "corridor", "episode"}
        /\ net = StreetsOf(worldKind) /\ vehicles = <<>>
        /\ worldKind' = worldKind /\ net' = net /\ vehicles' = vehicles /\ worldPc' = "simulate"
    BY DEF WorldInv, WriteFlows
  <1>. QED  BY <1>1, FlowsDrive DEF WorldInv, SimulationAccepts, Drives, StreetsOf

(* What the cameras saw becomes finitely many vehicles, each drivable and   *)
(* with an id of its own.                                                  *)
LEMMA VehiclesAre ==
  LET all == UNION { extract_vehicles(c) : c \in Cameras }
  IN  /\ IsFiniteSet(all) /\ Cardinality(Cameras) * Cardinality(Tracks) \in Nat
      /\ Cardinality(all) <= Cardinality(Cameras) * Cardinality(Tracks)
      /\ \A v \in all : IsDrivable(v.route, generate_single_intersection)
      /\ \A v, w \in all : v.id = w.id => v = w
  <1> DEFINE all == UNION { extract_vehicles(c) : c \in Cameras }
             vehicle(c, v) ==
               [id |-> <<c, v>>, route |-> Crossing(c, TurnMap[c][1]),
                depart |-> FrameTime[c] * (Min({ k \in DOMAIN film[c] : v \in film[c][k] }) - 1)]
             named == { p \in Cameras \X Tracks : \E k \in DOMAIN film[p[1]] : p[2] \in film[p[1]][k] }
             f == [p \in named |-> vehicle(p[1], p[2])]
  <1>1. ASSUME NEW v \in all  PROVE \E p \in named : v = f[p]
    <2>1. PICK c \in Cameras : v \in extract_vehicles(c)
      BY Zenon
    <2>2. PICK t \in Tracks : /\ \E k \in DOMAIN film[c] : t \in film[c][k]
                             /\ v = vehicle(c, t)
      BY Zenon, <2>1 DEF extract_vehicles
    <2>3. <<c, t>> \in named
      BY <2>2
    <2> HIDE DEF vehicle, named
    <2>. QED  BY <2>2, <2>3
  <1>2. ASSUME NEW p \in named  PROVE f[p] \in all
    <2>1. p[1] \in Cameras /\ vehicle(p[1], p[2]) \in extract_vehicles(p[1])
      BY Zenon DEF extract_vehicles
    <2>. QED  BY Zenon, <2>1
  <1>3. \A p \in named : f[p].id = p /\ f[p].route = Crossing(p[1], TurnMap[p[1]][1])
    OBVIOUS
  <1>4. /\ IsFiniteSet(named) /\ Cardinality(named) \in Nat
        /\ Cardinality(named) <= Cardinality(Cameras) * Cardinality(Tracks)
        /\ Cardinality(Cameras) * Cardinality(Tracks) \in Nat
    <2>1. Arms = {"north"} \cup {"south"} \cup {"east"} \cup {"west"}
      BY DEF Arms
    <2>2. IsFiniteSet(Arms)
      BY <2>1, FS_Singleton, FS_Union
    <2>3. IsFiniteSet(Cameras) /\ IsFiniteSet(Tracks)
      BY <2>2, FS_Subset, WorldAssumption DEF WorldAssumption
    <2>4. /\ IsFiniteSet(Cameras \X Tracks)
          /\ Cardinality(Cameras \X Tracks) = Cardinality(Cameras) * Cardinality(Tracks)
      BY <2>3, FS_Product
    <2>5. named \subseteq Cameras \X Tracks
      OBVIOUS
    <2>6. Cardinality(Cameras) \in Nat /\ Cardinality(Tracks) \in Nat
      BY <2>3, FS_CardinalityType
    <2> HIDE DEF named
    <2>7. IsFiniteSet(named) /\ Cardinality(named) <= Cardinality(Cameras \X Tracks)
      BY <2>4, <2>5, FS_Subset
    <2>8. Cardinality(named) \in Nat
      BY <2>7, FS_CardinalityType
    <2>. QED  BY <2>4, <2>6, <2>7, <2>8
  <1>5. \A p \in named : p[1] \in Arms
    BY WorldAssumption DEF WorldAssumption
  <1>6. f \in [named -> all]
    BY <1>2
  <1> HIDE DEF f, named, all
  <1>7. f \in Surjection(named, all)
    BY <1>1, <1>6 DEF Surjection
  <1>8. IsFiniteSet(all) /\ Cardinality(all) <= Cardinality(Cameras) * Cardinality(Tracks)
    <2>1. IsFiniteSet(all) /\ Cardinality(all) <= Cardinality(named)
      BY <1>4, <1>7, FS_Surjection
    <2>2. Cardinality(all) \in Nat
      BY <2>1, FS_CardinalityType
    <2>. QED  BY <1>4, <2>1, <2>2
  <1>9. \A v \in all : IsDrivable(v.route, generate_single_intersection)
    BY <1>1, <1>3, <1>5, CrossingDrives, TurnsIntoArms
  <1>10. \A v, w \in all : v.id = w.id => v = w
    BY <1>1, <1>3
  <1>. QED  BY <1>4, <1>8, <1>9, <1>10 DEF all

LEMMA WriteVehiclesInv == ASSUME WorldInv, WriteVehicles PROVE WorldInv'
  <1> DEFINE all == UNION { extract_vehicles(c) : c \in Cameras }
  <1>1. /\ worldKind = "recorded" /\ net = StreetsOf(worldKind) /\ flows = {} /\ vehicles = <<>>
        /\ worldKind' = worldKind /\ net' = net /\ flows' = flows
    BY DEF WorldInv, WriteVehicles
  <1>2. \/ worldPc' = "failed" /\ vehicles' = vehicles
        \/ worldPc' = "simulate" /\ vehicles' \in InDepartureOrder(all)
    BY DEF WriteVehicles
  <1>3. /\ IsFiniteSet(all)
        /\ \A v \in all : IsDrivable(v.route, generate_single_intersection)
        /\ \A v, w \in all : v.id = w.id => v = w
    BY VehiclesAre
  <1> HIDE DEF all
  <1>4. CASE worldPc' = "failed" /\ vehicles' = vehicles
    BY <1>1, <1>4 DEF WorldInv, SimulationAccepts
  <1>5. CASE worldPc' = "simulate" /\ vehicles' \in InDepartureOrder(all)
    <2>1. Cardinality(all) \in Nat
      BY <1>3, FS_CardinalityType
    <2>2. /\ vehicles' \in [1 .. Cardinality(all) -> all]
          /\ \A k \in DOMAIN vehicles' : \A j \in 1 .. k - 1 :
               vehicles'[j] # vehicles'[k] /\ vehicles'[j].depart <= vehicles'[k].depart
      BY <1>5 DEF InDepartureOrder
    <2>3. ASSUME NEW k \in DOMAIN vehicles'
          PROVE  /\ IsDrivable(vehicles'[k].route, net')
                 /\ \A j \in 1 .. k - 1 : /\ vehicles'[j].depart <= vehicles'[k].depart
                                          /\ vehicles'[j].id # vehicles'[k].id
      <3>1. vehicles'[k] \in all /\ \A j \in 1 .. k - 1 : vehicles'[j] \in all
        BY <2>1, <2>2
      <3>2. net' = generate_single_intersection
        BY <1>1 DEF StreetsOf
      <3>. QED  BY <1>3, <2>2, <3>1, <3>2
    <2>. QED  BY <1>1, <1>5, <2>3 DEF WorldInv, SimulationAccepts
  <1>. QED  BY <1>2, <1>4, <1>5

LEMMA WorldInvariance == WorldSpec => []WorldInv
  <1>1. WorldInit => WorldInv
    BY WorldInitInv
  <1>2. WorldInv /\ [WorldNext]_worldVars => WorldInv'
    <2>. SUFFICES ASSUME WorldInv, [WorldNext]_worldVars  PROVE WorldInv'
      OBVIOUS
    <2>1. ASSUME NEW c \in Cameras, TrackFrame(c)  PROVE WorldInv'
      BY <2>1 DEF TrackFrame, WorldInv, SimulationAccepts
    <2>2. CASE FilmEnds
      BY <2>2 DEF FilmEnds, WorldInv, SimulationAccepts
    <2>3. CASE UNCHANGED worldVars
      BY <2>3 DEF worldVars, WorldInv, SimulationAccepts
    <2>. QED  BY <2>1, <2>2, <2>3, CompileInv, WriteFlowsInv, WriteVehiclesInv DEF WorldNext
  <1>. QED  BY <1>1, <1>2, PTL DEF WorldSpec

(* Every simulation that starts has routes along its own streets, demand    *)
(* for each, and vehicles in order: for every film, of any length.         *)
THEOREM WorldsAreSound == BrainSpec => []SimulationAccepts
  <1>1. WorldInv => SimulationAccepts
    BY DEF WorldInv
  <1>. QED  BY <1>1, WorldInvariance, JobsApart, PTL

-----------------------------------------------------------------------------
(* The inductive invariant of the search.                                  *)

Reached(n) == dist[n] < Infinity

(* An intersection is visited once the heap has given up its best entry.   *)
Visited(n) == Reached(n) /\ <<dist[n], n>> \notin heap

(* No road out of u is a short cut.                                        *)
Relaxed(u) == \A n \in Places : dist[n] <= Arrival(u, n)

SearchNumbers ==
  /\ roads \subseteq { r \in RoadPool : r.from \in Places /\ r.to \in Places }
  /\ dist \in [Places -> 0 .. Infinity]
  /\ prev \in [Places -> Places \cup {0}]
  /\ heap \subseteq (0 .. Infinity - 1) \X Places
  /\ searchPc # "build" => Start \in Places /\ Goal \in Places

(* The predecessors lead back to the start, over visited intersections and *)
(* in the time it takes: only the start has none.                          *)
Tree ==
  \A n \in Places :
    /\ prev[n] = 0 /\ Reached(n) => n = Start /\ dist[n] = 0
    /\ prev[n] # 0 => /\ Reached(n)
                      /\ Visited(prev[n])
                      /\ Arrival(prev[n], n) = dist[n]

(* They do not lead in a circle, not even over roads that take no time.    *)
Ranked == \E rank \in [Places -> Nat] : \A n \in Places : prev[n] # 0 => rank[prev[n]] < rank[n]

(* The heap holds nothing better than what is known of an intersection, and *)
(* what is visited is at least as near.                                    *)
Ordered ==
  \A e \in heap : /\ dist[e[2]] <= e[1]
                  /\ \A u \in Places : Visited(u) => dist[u] <= e[1]

BeforeSearch == searchPc = "build" => heap = {} /\ \A n \in Places : dist[n] = Infinity /\ prev[n] = 0

DuringSearch ==
  /\ searchPc # "build" => dist[Start] = 0
  /\ searchPc = "search" => \A u \in Places : Visited(u) => Relaxed(u)

(* The goal is reached, and whatever could lead there faster was looked at. *)
AfterSearch ==
  /\ searchPc \in {"walk", "found"} =>
       /\ Reached(Goal)
       /\ \A u \in Places : u # Goal => Relaxed(u) \/ dist[Goal] <= dist[u]
  /\ searchPc = "no_path" => ~Reached(Goal) /\ \A u \in Places : Relaxed(u)

(* The path is the end of the route.                                       *)
Walked ==
  /\ searchPc \notin {"walk", "found"} => path = <<>>
  /\ searchPc = "found" => path # <<>> /\ prev[path[1]] = 0
  /\ path \in Seq(Places)
  /\ path # <<>> =>
       /\ path[Len(path)] = Goal
       /\ \A k \in 1 .. Len(path) : Reached(path[k])
       /\ \A k \in 1 .. Len(path) - 1 : prev[path[k + 1]] = path[k]

SearchInv ==
  /\ SearchNumbers /\ Tree /\ Ranked /\ Ordered
  /\ BeforeSearch /\ DuringSearch /\ AfterSearch /\ Walked

-----------------------------------------------------------------------------
(* Minima.                                                                 *)

LEMMA MinIs ==
  ASSUME NEW S, S \subseteq Nat, S # {}
  PROVE  Min(S) \in S /\ \A x \in S : Min(S) <= x
  <1>1. PICK m \in S : \A k \in S : m <= k
    BY LeastNatural
  <1>. QED  BY <1>1 DEF Min

LEMMA TravelTimeIs ==
  ASSUME NEW r \in RoadPool
  PROVE  travel_time(r) \in Nat
  <1>1. r.length \in Nat /\ r.speed \in Int /\ Infinity \in Nat
    BY SearchAssumption DEF SearchAssumption
  <1>2. CASE r.speed <= 0
    BY <1>1, <1>2 DEF travel_time
  <1>3. CASE r.speed > 0
    <2>1. 36 * r.length \in Nat /\ r.speed \in Nat \ {0}
      BY <1>1, <1>3
    <2>2. \A a \in Nat : \A b \in Nat \ {0} : a \div b \in Nat
      OBVIOUS
    <2>. QED  BY <1>1, <1>3, <2>1, <2>2 DEF travel_time
  <1>. QED  BY <1>1, <1>2, <1>3

(* The first entry of the heap. *)
LEMMA PopsNearest ==
  ASSUME NEW h, h \subseteq Nat \X Nat, h # {}
  PROVE  heappop(h) \in h /\ \A f \in h : heappop(h)[1] <= f[1]
  <1> DEFINE Ds == {e[1] : e \in h}
  <1>1. PICK d \in Ds : \A k \in Ds : d <= k
    <2>1. Ds \subseteq Nat /\ Ds # {}
      OBVIOUS
    <2> HIDE DEF Ds
    <2>. QED  BY <2>1, LeastNatural
  <1> DEFINE Ns == {e[2] : e \in {f \in h : f[1] = d}}
  <1>2. PICK n \in Ns : \A k \in Ns : n <= k
    <2>1. Ns \subseteq Nat /\ Ns # {}
      BY <1>1
    <2> HIDE DEF Ns
    <2>. QED  BY <2>1, LeastNatural
  <1>3. PICK e \in h : e[1] = d /\ e[2] = n
    BY <1>2
  <1>4. \A f \in h : e[1] < f[1] \/ (e[1] = f[1] /\ e[2] <= f[2])
    <2> TAKE f \in h
    <2>1. f[1] \in Ds /\ f[1] \in Nat /\ f[2] \in Nat /\ d \in Nat
      BY <1>1
    <2>2. f[1] = d => f[2] \in Ns
      OBVIOUS
    <2>. QED  BY <1>1, <1>2, <1>3, <2>1, <2>2
  <1> DEFINE first(x) == \A f \in h : x[1] < f[1] \/ (x[1] = f[1] /\ x[2] <= f[2])
  <1>5. heappop(h) \in h /\ first(heappop(h))
    BY <1>3, <1>4 DEF heappop
  <1>. QED  BY <1>5

-----------------------------------------------------------------------------
(* Arrivals.                                                               *)

LEMMA ArrivalIs ==
  ASSUME SearchNumbers, NEW u \in Places, NEW n \in Places
  PROVE  /\ Arrival(u, n) \in 0 .. Infinity
         /\ dist[u] <= Arrival(u, n)
         /\ \A r \in RoadsFrom(u) : r.to = n => Arrival(u, n) <= dist[u] + travel_time(r)
         /\ Arrival(u, n) # Infinity =>
              \E r \in RoadsFrom(u) : r.to = n /\ Arrival(u, n) = dist[u] + travel_time(r)
  <1> DEFINE S == {Infinity} \cup { dist[u] + travel_time(r) : r \in { x \in RoadsFrom(u) : x.to = n } }
  <1>1. Infinity \in Nat /\ dist[u] \in 0 .. Infinity
    BY SearchAssumption DEF SearchAssumption, SearchNumbers
  <1>2. \A r \in RoadsFrom(u) : travel_time(r) \in Nat
    BY TravelTimeIs DEF RoadsFrom, SearchNumbers
  <1>3. S \subseteq Nat /\ S # {}
    BY <1>1, <1>2
  <1>4. Arrival(u, n) \in S /\ \A x \in S : Arrival(u, n) <= x
    <2> HIDE DEF S
    <2>1. Min(S) \in S /\ \A x \in S : Min(S) <= x
      BY <1>3, MinIs
    <2>2. Arrival(u, n) = Min(S)
      BY DEF Arrival, S
    <2>. QED  BY <2>1, <2>2
  <1>5. Infinity \in S /\ \A x \in S : x = Infinity \/ dist[u] <= x
    BY <1>1, <1>2
  <1>6. Arrival(u, n) \in Nat /\ Arrival(u, n) <= Infinity
    BY <1>3, <1>4
  <1>7. \A r \in RoadsFrom(u) : r.to = n => dist[u] + travel_time(r) \in S
    OBVIOUS
  <1>8. Arrival(u, n) # Infinity =>
          \E r \in RoadsFrom(u) : r.to = n /\ Arrival(u, n) = dist[u] + travel_time(r)
    BY <1>4
  <1> HIDE DEF S
  <1>9. dist[u] <= Arrival(u, n)
    <2>1. Arrival(u, n) = Infinity \/ dist[u] <= Arrival(u, n)
      BY <1>4, <1>5, Zenon
    <2>. QED  BY <1>1, <2>1
  <1>10. \A r \in RoadsFrom(u) : r.to = n => Arrival(u, n) <= dist[u] + travel_time(r)
    BY <1>4, <1>7
  <1>11. Arrival(u, n) \in 0 .. Infinity
    BY <1>1, <1>6
  <1>. QED  BY <1>8, <1>9, <1>10, <1>11

LEMMA SameArrival ==
  ASSUME NEW u, NEW n, roads' = roads, dist'[u] = dist[u]
  PROVE  Arrival(u, n)' = Arrival(u, n)
  BY DEF Arrival, RoadsFrom

-----------------------------------------------------------------------------
(* The invariant step by step.                                             *)

LEMMA SearchInitInv == ASSUME SearchInit PROVE SearchInv
  <1>1. SearchNumbers /\ Tree /\ Ordered /\ BeforeSearch /\ DuringSearch /\ AfterSearch /\ Walked
    BY SearchAssumption
    DEF SearchInit, SearchAssumption, SearchNumbers, Tree, Reached, Ordered, BeforeSearch,
        DuringSearch, AfterSearch, Walked
  <1>2. Ranked
    <2>1. [n \in Places |-> 0] \in [Places -> Nat]
      OBVIOUS
    <2>. QED  BY <2>1 DEF SearchInit, Ranked
  <1>. QED  BY <1>1, <1>2 DEF SearchInv

(* A road is added while nothing has been looked at. *)
LEMMA AddRoadInv == ASSUME SearchInv, NEW road \in RoadPool, add_road(road) PROVE SearchInv'
  <1>1. /\ searchPc = "build" /\ searchPc' = "build"
        /\ road.from \in Places /\ road.to \in Places /\ roads' = roads \cup {road}
        /\ dist' = dist /\ prev' = prev /\ heap' = heap /\ path' = path
    BY DEF add_road
  <1>2. SearchNumbers'
    BY <1>1 DEF SearchInv, SearchNumbers
  <1>3. heap = {} /\ \A n \in Places : dist[n] = Infinity /\ prev[n] = 0
    BY <1>1 DEF SearchInv, BeforeSearch
  <1>4. Tree' /\ Ordered' /\ BeforeSearch'
    BY <1>1, <1>3, SearchAssumption DEF SearchAssumption, Tree, Reached, Ordered, BeforeSearch
  <1>5. Ranked'
    BY <1>1 DEF SearchInv, Ranked
  <1>6. DuringSearch' /\ AfterSearch' /\ Walked'
    BY <1>1 DEF SearchInv, DuringSearch, AfterSearch, Walked
  <1>. QED  BY <1>2, <1>4, <1>5, <1>6 DEF SearchInv

LEMMA ShortestPathInv == ASSUME SearchInv, shortest_path PROVE SearchInv'
  <1>1. /\ searchPc = "build" /\ searchPc' = "search" /\ Start \in Places /\ Goal \in Places
        /\ dist' = [dist EXCEPT ![Start] = 0] /\ heap' = {<<0, Start>>}
        /\ roads' = roads /\ prev' = prev /\ path' = path
    BY DEF shortest_path
  <1>2. \A n \in Places : dist[n] = Infinity /\ prev[n] = 0
    BY <1>1 DEF SearchInv, BeforeSearch
  <1>3. Infinity \in Nat \ {0} /\ dist \in [Places -> 0 .. Infinity]
    BY SearchAssumption DEF SearchAssumption, SearchInv, SearchNumbers
  <1>4. \A n \in Places : dist'[n] = IF n = Start THEN 0 ELSE Infinity
    BY <1>1, <1>2, <1>3
  <1>5. SearchNumbers'
    <2>1. dist' \in [Places -> 0 .. Infinity]
      BY <1>1, <1>3
    <2>2. heap' \subseteq (0 .. Infinity - 1) \X Places
      BY <1>1, <1>3
    <2>. QED  BY <1>1, <2>1, <2>2 DEF SearchInv, SearchNumbers
  <1>6. \A u \in Places : ~Visited(u)'
    BY <1>1, <1>3, <1>4 DEF Visited, Reached
  <1>7. Tree'
    BY <1>1, <1>2, <1>3, <1>4 DEF Tree, Reached
  <1>8. Ordered'
    BY <1>1, <1>4, <1>6 DEF Ordered
  <1>9. BeforeSearch' /\ DuringSearch' /\ AfterSearch' /\ Walked'
    BY <1>1, <1>4, <1>6 DEF SearchInv, BeforeSearch, DuringSearch, AfterSearch, Walked
  <1>10. Ranked'
    BY <1>1 DEF SearchInv, Ranked
  <1>. QED  BY <1>5, <1>7, <1>8, <1>9, <1>10 DEF SearchInv

(* The facts about an entry that is taken from the heap. *)
LEMMA PopIs ==
  ASSUME SearchInv, heap # {}
  PROVE  LET e == heappop(heap)
         IN  /\ e \in heap /\ e = <<e[1], e[2]>>
             /\ e[1] \in Nat /\ e[1] < Infinity /\ e[2] \in Places
             /\ dist[e[2]] <= e[1]
             /\ \A f \in heap : e[1] <= f[1]
             /\ \A u \in Places : Visited(u) => dist[u] <= e[1]
  <1> DEFINE e == heappop(heap)
  <1>1. heap \subseteq (0 .. Infinity - 1) \X Places /\ Places \subseteq Nat /\ Infinity \in Nat
    BY SearchAssumption DEF SearchAssumption, SearchInv, SearchNumbers
  <1>2. heap \subseteq Nat \X Nat
    <2>1. 0 .. Infinity - 1 \subseteq Nat
      BY <1>1
    <2> HIDE DEF e
    <2>. QED  BY ONLY <1>1, <2>1
  <1>3. e \in heap /\ \A f \in heap : e[1] <= f[1]
    BY <1>2, PopsNearest
  <1> HIDE DEF e
  <1>4. e = <<e[1], e[2]>> /\ e[1] \in 0 .. Infinity - 1 /\ e[2] \in Places
    BY <1>1, <1>3
  <1>5. dist[e[2]] <= e[1] /\ \A u \in Places : Visited(u) => dist[u] <= e[1]
    BY <1>3 DEF SearchInv, Ordered
  <1>. QED  BY <1>1, <1>3, <1>4, <1>5 DEF e

(* An outdated entry is dropped: it was no intersection's best one, and     *)
(* nothing becomes visited by that.                                        *)
LEMMA DropInv ==
  ASSUME SearchInv, searchPc = "search", heap # {}, Outdated(heappop(heap)),
         heap' = heap \ {heappop(heap)},
         UNCHANGED <<searchPc, roads, dist, prev, path>>
  PROVE  SearchInv'
  <1> DEFINE e == heappop(heap)
  <1>1. e \in heap /\ e = <<e[1], e[2]>> /\ e[1] > dist[e[2]]
    BY PopIs DEF Outdated
  <1>2. e[1] \in Nat /\ e[2] \in Places /\ dist[e[2]] \in Nat
    BY PopIs, SearchAssumption DEF SearchAssumption, SearchInv, SearchNumbers
  <1>3. heap' = heap \ {e}
    OBVIOUS
  <1> HIDE DEF e
  <1>4. \A n : <<dist[n], n>> # e
    <2> SUFFICES ASSUME NEW n, <<dist[n], n>> = e  PROVE FALSE
      OBVIOUS
    <2>1. n = e[2] /\ dist[n] = e[1]
      BY <1>1
    <2>. QED  BY <1>1, <1>2, <2>1
  <1>5. \A n : Visited(n)' <=> Visited(n)
    BY <1>3, <1>4 DEF Visited, Reached
  <1>6. \A u, n : Arrival(u, n)' = Arrival(u, n)
    BY SameArrival
  <1>7. SearchNumbers' /\ Ranked' /\ BeforeSearch' /\ Walked'
    BY <1>3 DEF SearchInv, SearchNumbers, Ranked, BeforeSearch, Walked, Reached
  <1>8. Tree'
    BY <1>5, <1>6 DEF SearchInv, Tree, Reached
  <1>9. Ordered'
    BY <1>3, <1>5 DEF SearchInv, Ordered
  <1>10. DuringSearch' /\ AfterSearch'
    BY <1>5, <1>6 DEF SearchInv, DuringSearch, AfterSearch, Relaxed
  <1>. QED  BY <1>7, <1>8, <1>9, <1>10 DEF SearchInv

(* The goal's best entry is taken: nothing in the heap leads there faster.  *)
LEMMA GoalInv ==
  ASSUME SearchInv, searchPc = "search", heap # {}, ~Outdated(heappop(heap)),
         heappop(heap)[2] = Goal,
         heap' = heap \ {heappop(heap)}, searchPc' = "walk",
         UNCHANGED <<roads, dist, prev, path>>
  PROVE  SearchInv'
  <1> DEFINE e == heappop(heap)
  <1>1. /\ e \in heap /\ e = <<e[1], e[2]>> /\ dist[e[2]] <= e[1] /\ e[2] = Goal
        /\ e[1] \in Nat /\ e[1] < Infinity /\ Goal \in Places
        /\ \A f \in heap : e[1] <= f[1]
        /\ \A u \in Places : Visited(u) => dist[u] <= e[1]
    BY PopIs
  <1>2. e[1] = dist[Goal] /\ dist \in [Places -> 0 .. Infinity] /\ Infinity \in Nat
    <2>1. dist \in [Places -> 0 .. Infinity] /\ Infinity \in Nat
      BY SearchAssumption DEF SearchAssumption, SearchInv, SearchNumbers
    <2>2. ~(e[1] > dist[e[2]])
      BY DEF Outdated
    <2> HIDE DEF e
    <2>. QED  BY <1>1, <2>1, <2>2
  <1>3. heap' = heap \ {e} /\ roads' = roads /\ dist' = dist /\ prev' = prev /\ path' = path
        /\ searchPc' = "walk"
    OBVIOUS
  <1> HIDE DEF e
  <1>4. \A u \in Places : Visited(u)' <=> Visited(u) \/ u = Goal
    <2> TAKE u \in Places
    <2>1. CASE u = Goal
      BY <1>1, <1>2, <1>3, <2>1 DEF Visited, Reached
    <2>2. CASE u # Goal
      <3>1. <<dist[u], u>> # e
        BY <1>1, <2>2
      <3>. QED  BY <1>3, <2>2, <3>1 DEF Visited, Reached
    <2>. QED  BY <2>1, <2>2
  <1>5. \A u, n : Arrival(u, n)' = Arrival(u, n)
    BY <1>3, SameArrival
  <1>6. SearchNumbers' /\ Ranked' /\ BeforeSearch' /\ DuringSearch' /\ Walked'
    BY <1>3 DEF SearchInv, SearchNumbers, Ranked, BeforeSearch, DuringSearch, Walked, Reached
  <1>7. Tree'
    BY <1>3, <1>4, <1>5 DEF SearchInv, SearchNumbers, Tree, Reached
  <1>8. Ordered'
    BY <1>1, <1>2, <1>3, <1>4 DEF SearchInv, Ordered
  <1>9. \A u \in Places : u # Goal => Relaxed(u) \/ dist[Goal] <= dist[u]
    <2> SUFFICES ASSUME NEW u \in Places, u # Goal, ~Relaxed(u)  PROVE dist[Goal] <= dist[u]
      OBVIOUS
    <2>1. ~Visited(u)
      BY DEF SearchInv, DuringSearch
    <2>2. CASE Reached(u)
      <3>1. <<dist[u], u>> \in heap
        BY <2>1, <2>2 DEF Visited
      <3>2. e[1] <= <<dist[u], u>>[1]
        BY <1>1, <3>1
      <3>. QED  BY <1>2, <3>2
    <2>3. CASE ~Reached(u)
      BY <1>1, <1>2, <2>3 DEF Reached
    <2>. QED  BY <2>2, <2>3
  <1>10. AfterSearch'
    BY <1>1, <1>2, <1>3, <1>5, <1>9 DEF AfterSearch, Reached, Relaxed
  <1>. QED  BY <1>6, <1>7, <1>8, <1>10 DEF SearchInv

(* An intersection is visited: it is at least as far as all visited before, *)
(* so that only others come closer, and these stay in the heap.            *)
LEMMA RelaxInv ==
  ASSUME SearchInv, searchPc = "search", heap # {}, ~Outdated(heappop(heap)),
         NEW u, u = heappop(heap)[2],
         Relax(u),
         heap' = (heap \ {heappop(heap)}) \cup { <<Arrival(u, n), n>> : n \in Closer(u) },
         UNCHANGED <<searchPc, roads, path>>
  PROVE  SearchInv'
  <1> DEFINE e == heappop(heap)
  <1>1. /\ e \in heap /\ e = <<e[1], e[2]>> /\ dist[e[2]] <= e[1] /\ e[2] = u
        /\ e[1] \in Nat /\ e[1] < Infinity /\ u \in Places
        /\ \A f \in heap : e[1] <= f[1]
        /\ \A w \in Places : Visited(w) => dist[w] <= e[1]
    BY PopIs
  <1>2. /\ dist \in [Places -> 0 .. Infinity] /\ Infinity \in Nat
        /\ prev \in [Places -> Places \cup {0}] /\ 0 \notin Places
        /\ heap \subseteq (0 .. Infinity - 1) \X Places
    BY SearchAssumption DEF SearchAssumption, SearchInv, SearchNumbers
  <1>3. e[1] = dist[u]
    <2>1. ~(e[1] > dist[e[2]])
      BY DEF Outdated
    <2> HIDE DEF e
    <2>. QED  BY <1>1, <1>2, <2>1
  <1>4. /\ heap' = (heap \ {e}) \cup { <<Arrival(u, n), n>> : n \in Closer(u) }
        /\ roads' = roads /\ path' = path /\ searchPc' = searchPc
    OBVIOUS
  <1> HIDE DEF e
  <1>5. \A n \in Places : /\ Arrival(u, n) \in 0 .. Infinity /\ dist[u] <= Arrival(u, n)
                          /\ n \in Closer(u) <=> Arrival(u, n) < dist[n]
    BY <1>1, ArrivalIs DEF SearchInv, Closer
  <1>6. \A n \in Places : /\ dist'[n] = IF n \in Closer(u) THEN Arrival(u, n) ELSE dist[n]
                          /\ prev'[n] = IF n \in Closer(u) THEN u ELSE prev[n]
                          /\ dist'[n] <= dist[n]
    BY <1>2, <1>5 DEF Relax
  <1>7. \A n \in Places : Visited(n) \/ n = u => n \notin Closer(u)
    <2> TAKE n \in Places
    <2>1. Visited(n) => dist[n] <= dist[u]
      BY <1>1, <1>3
    <2>2. dist[n] \in Nat /\ dist[u] \in Nat
      BY <1>1, <1>2
    <2>. QED  BY <1>5, <2>1, <2>2
  <1>8. \A n \in Places : Visited(n)' <=> Visited(n) \/ n = u
    <2> TAKE n \in Places
    <2>1. CASE n \in Closer(u)
      <3>1. <<dist'[n], n>> \in heap'
        BY <1>4, <1>6, <2>1
      <3>. QED  BY <1>7, <2>1, <3>1 DEF Visited
    <2>2. CASE n \notin Closer(u)
      <3>1. dist'[n] = dist[n]
        BY <1>6, <2>2
      <3>2. <<dist[n], n>> \in heap' <=> <<dist[n], n>> \in heap /\ <<dist[n], n>> # e
        BY <1>4, <2>2
      <3>3. <<dist[n], n>> = e <=> n = u
        BY <1>1, <1>3
      <3>4. n = u => <<dist[n], n>> \in heap /\ dist[n] < Infinity
        BY <1>1, <1>3, <3>3
      <3>. QED  BY <3>1, <3>2, <3>3, <3>4 DEF Visited, Reached
    <2>. QED  BY <2>1, <2>2
  <1>9. \A w, n \in Places : w \notin Closer(u) => Arrival(w, n)' = Arrival(w, n)
    BY <1>4, <1>6, SameArrival
  <1>10. SearchNumbers'
    <2>1. dist' \in [Places -> 0 .. Infinity]
      BY <1>2, <1>5 DEF Relax
    <2>2. prev' \in [Places -> Places \cup {0}]
      BY <1>1, <1>2 DEF Relax
    <2>3. heap' \subseteq (0 .. Infinity - 1) \X Places
      <3>1. \A n \in Closer(u) : n \in Places
        BY DEF Closer
      <3>2. \A n \in Closer(u) : Arrival(u, n) \in 0 .. Infinity - 1
        BY <1>2, <1>5, <3>1
      <3>. QED  BY <1>2, <1>4, <3>1, <3>2
    <2>. QED  BY <1>4, <2>1, <2>2, <2>3 DEF SearchInv, SearchNumbers
  <1>11. Tree'
    <2> SUFFICES ASSUME NEW n \in Places
                 PROVE  /\ prev'[n] = 0 /\ dist'[n] < Infinity => n = Start /\ dist'[n] = 0
                        /\ prev'[n] # 0 => /\ dist'[n] < Infinity
                                           /\ Visited(prev[n])'
                                           /\ Arrival(prev[n], n)' = dist'[n]
      BY DEF Tree, Reached
    <2>1. CASE n \in Closer(u)
      <3>1. prev'[n] = u /\ dist'[n] = Arrival(u, n) /\ Arrival(u, n)' = Arrival(u, n)
        BY <1>1, <1>6, <1>7, <1>9, <2>1
      <3>2. Arrival(u, n) < Infinity
        BY <1>2, <1>5, <2>1
      <3>. QED  BY <1>1, <1>2, <1>8, <3>1, <3>2
    <2>2. CASE n \notin Closer(u)
      <3>1. prev'[n] = prev[n] /\ dist'[n] = dist[n]
        BY <1>6, <2>2
      <3>2. /\ prev[n] = 0 /\ Reached(n) => n = Start /\ dist[n] = 0
            /\ prev[n] # 0 => Reached(n) /\ Visited(prev[n]) /\ Arrival(prev[n], n) = dist[n]
        BY DEF SearchInv, Tree
      <3>3. prev[n] # 0 => /\ prev[n] \in Places
                           /\ Visited(prev[n])'
                           /\ Arrival(prev[n], n)' = Arrival(prev[n], n)
        BY <1>2, <1>7, <1>8, <1>9, <3>1, <3>2
      <3>. QED  BY <3>1, <3>2, <3>3 DEF Reached
    <2>. QED  BY <2>1, <2>2
  <1>12. Ranked'
    <2>1. PICK rank \in [Places -> Nat] : \A n \in Places : prev[n] # 0 => rank[prev[n]] < rank[n]
      BY DEF SearchInv, Ranked
    <2> DEFINE new == [n \in Places |-> IF n \in Closer(u) THEN rank[u] + 1 ELSE rank[n]]
    <2>2. new \in [Places -> Nat]
      BY <1>1, <2>1
    <2>3. ASSUME NEW n \in Places, prev'[n] # 0  PROVE new[prev'[n]] < new[n]
      <3>1. CASE n \in Closer(u)
        <4>1. prev'[n] = u /\ u \notin Closer(u)
          BY <1>1, <1>6, <1>7, <3>1
        <4>. QED  BY <1>1, <2>1, <3>1, <4>1
      <3>2. CASE n \notin Closer(u)
        <4>1. prev'[n] = prev[n] /\ prev[n] \in Places
          BY <1>2, <1>6, <2>3, <3>2
        <4>2. Visited(prev[n])
          BY <2>3, <4>1 DEF SearchInv, Tree
        <4>3. prev[n] \notin Closer(u)
          BY <1>7, <4>1, <4>2
        <4>. QED  BY <2>1, <2>3, <3>2, <4>1, <4>3
      <3>. QED  BY <3>1, <3>2
    <2> HIDE DEF new
    <2>. QED  BY <2>2, <2>3 DEF Ranked
  <1>13. Ordered'
    <2> SUFFICES ASSUME NEW f \in heap'
                 PROVE  dist'[f[2]] <= f[1] /\ \A w \in Places : Visited(w)' => dist'[w] <= f[1]
      BY DEF Ordered
    <2>1. f[2] \in Places /\ f[1] \in Nat /\ dist[u] <= f[1] /\ dist'[f[2]] <= f[1]
      <3>1. CASE f \in heap
        <4>1. f[2] \in Places /\ f[1] \in Nat /\ dist[f[2]] <= f[1]
          BY <1>2, <3>1 DEF SearchInv, Ordered
        <4>2. dist'[f[2]] <= dist[f[2]] /\ dist'[f[2]] \in Nat /\ dist[f[2]] \in Nat
          BY <1>2, <1>6, <1>10, <4>1 DEF SearchNumbers
        <4>. QED  BY <1>1, <1>3, <3>1, <4>1, <4>2
      <3>2. CASE f \notin heap
        <4>1. PICK n \in Closer(u) : f = <<Arrival(u, n), n>>
          BY <1>4, <3>2
        <4>2. n \in Places
          BY DEF Closer
        <4>. QED  BY <1>2, <1>5, <1>6, <4>1, <4>2
      <3>. QED  BY <3>1, <3>2
    <2>2. ASSUME NEW w \in Places, Visited(w)'  PROVE dist'[w] <= f[1]
      <3>1. dist'[w] = dist[w]
        BY <1>6, <1>7, <1>8, <2>2
      <3>2. dist[w] <= dist[u]
        BY <1>1, <1>2, <1>3, <1>8, <2>2
      <3>3. dist[w] \in Nat /\ dist[u] \in Nat
        BY <1>1, <1>2
      <3>. QED  BY <2>1, <3>1, <3>2, <3>3
    <2>. QED  BY <2>1, <2>2
  <1>14. DuringSearch'
    <2>1. dist'[Start] = 0
      <3>1. dist[Start] = 0 /\ Start \in Places
        BY DEF SearchInv, DuringSearch, SearchNumbers
      <3>. QED  BY <1>2, <1>5, <1>6, <3>1
    <2>2. ASSUME NEW w \in Places, Visited(w)', NEW n \in Places  PROVE dist'[n] <= Arrival(w, n)'
      <3>1. w \notin Closer(u) /\ Arrival(w, n)' = Arrival(w, n)
        BY <1>7, <1>8, <1>9, <2>2
      <3>2. CASE w = u
        BY <1>2, <1>5, <1>6, <3>1, <3>2
      <3>3. CASE w # u
        <4>1. dist[n] <= Arrival(w, n)
          BY <1>8, <2>2, <3>3 DEF SearchInv, DuringSearch, Relaxed
        <4>2. dist'[n] <= dist[n] /\ dist[n] \in Nat /\ dist'[n] \in Nat /\ Arrival(w, n) \in Nat
          BY <1>2, <1>6, <1>10, ArrivalIs DEF SearchInv, SearchNumbers
        <4>. QED  BY <3>1, <4>1, <4>2
      <3>. QED  BY <3>2, <3>3
    <2>. QED  BY <2>1, <2>2 DEF DuringSearch, Relaxed
  <1>15. BeforeSearch' /\ AfterSearch' /\ Walked'
    BY <1>4 DEF SearchInv, BeforeSearch, AfterSearch, Walked
  <1>. QED  BY <1>10, <1>11, <1>12, <1>13, <1>14, <1>15 DEF SearchInv

LEMMA VisitInv == ASSUME SearchInv, Visit PROVE SearchInv'
  <1> DEFINE e == heappop(heap)
  <1>1. searchPc = "search" /\ heap # {} /\ UNCHANGED <<roads, path>>
    BY DEF Visit
  <1>2. CASE Outdated(e)
    BY <1>1, <1>2, DropInv DEF Visit
  <1>3. CASE ~Outdated(e) /\ e[2] = Goal
    BY <1>1, <1>3, GoalInv DEF Visit
  <1>4. CASE ~Outdated(e) /\ e[2] # Goal
    <2>1. Relax(e[2]) /\ UNCHANGED searchPc
          /\ heap' = (heap \ {e}) \cup { <<Arrival(e[2], n), n>> : n \in Closer(e[2]) }
      BY <1>4, Zenon DEF Visit
    <2>. QED  BY <1>1, <1>4, <2>1, RelaxInv
  <1>. QED  BY <1>2, <1>3, <1>4

(* Nothing is left: all that can be reached was visited.                   *)
LEMMA HeapEmptyInv == ASSUME SearchInv, HeapEmpty PROVE SearchInv'
  <1>1. /\ searchPc = "search" /\ heap = {}
        /\ searchPc' = IF dist[Goal] = Infinity THEN "no_path" ELSE "walk"
        /\ roads' = roads /\ dist' = dist /\ prev' = prev /\ heap' = heap /\ path' = path
    BY DEF HeapEmpty
  <1>2. /\ dist \in [Places -> 0 .. Infinity] /\ Infinity \in Nat /\ Goal \in Places
    BY <1>1, SearchAssumption DEF SearchAssumption, SearchInv, SearchNumbers
  <1>3. \A u \in Places : Relaxed(u)
    <2> TAKE u \in Places
    <2>1. CASE Reached(u)
      BY <1>1, <2>1 DEF SearchInv, DuringSearch, Visited
    <2>2. CASE ~Reached(u)
      <3>1. dist[u] = Infinity
        BY <1>2, <2>2 DEF Reached
      <3>2. ASSUME NEW n \in Places  PROVE dist[n] <= Arrival(u, n)
        <4>1. dist[u] <= Arrival(u, n) /\ Arrival(u, n) \in 0 .. Infinity /\ dist[n] \in 0 .. Infinity
          BY <1>2, ArrivalIs DEF SearchInv
        <4>. QED  BY <1>2, <3>1, <4>1
      <3>. QED  BY <3>2 DEF Relaxed
    <2>. QED  BY <2>1, <2>2
  <1>4. AfterSearch'
    <2>1. \A u, n : Arrival(u, n)' = Arrival(u, n)
      BY <1>1, SameArrival
    <2>. QED  BY <1>1, <1>2, <1>3, <2>1 DEF AfterSearch, Relaxed, Reached
  <1>5. SearchNumbers' /\ Ranked' /\ BeforeSearch' /\ DuringSearch' /\ Walked' /\ Ordered'
    BY <1>1 DEF SearchInv, SearchNumbers, Ranked, BeforeSearch, DuringSearch, Walked, Ordered
  <1>6. Tree'
    <2>1. \A u, n : Arrival(u, n)' = Arrival(u, n)
      BY <1>1, SameArrival
    <2>. QED  BY <1>1, <2>1 DEF SearchInv, Tree, Visited, Reached
  <1>. QED  BY <1>4, <1>5, <1>6 DEF SearchInv

(* The walk back. *)
LEMMA FirstIs ==
  ASSUME NEW S, NEW node \in S, NEW p \in Seq(S)
  PROVE  LET q == <<node>> \o p
         IN  /\ q \in Seq(S) /\ q # <<>> /\ Len(q) = Len(p) + 1 /\ q[1] = node
             /\ \A k \in 1 .. Len(p) : q[k + 1] = p[k]
  OBVIOUS

LEMMA WalkBackInv == ASSUME SearchInv, WalkBack PROVE SearchInv'
  <1> DEFINE node == IF path = <<>> THEN Goal ELSE prev[Head(path)]
  <1>1. /\ searchPc = "walk" /\ roads' = roads /\ dist' = dist /\ prev' = prev /\ heap' = heap
        /\ \/ node = 0 /\ searchPc' = "found" /\ path' = path
           \/ node # 0 /\ searchPc' = "walk" /\ path' = <<node>> \o path
    BY DEF WalkBack
  <1>2. /\ path \in Seq(Places) /\ Goal \in Places /\ 0 \notin Places
        /\ prev \in [Places -> Places \cup {0}]
    BY <1>1, SearchAssumption DEF SearchAssumption, SearchInv, Walked, SearchNumbers
  <1>3. /\ Reached(Goal)
        /\ path # <<>> => /\ Head(path) = path[1] /\ path[1] \in Places /\ Len(path) \in Nat \ {0}
                          /\ path[Len(path)] = Goal
                          /\ \A k \in 1 .. Len(path) : Reached(path[k])
                          /\ \A k \in 1 .. Len(path) - 1 : prev[path[k + 1]] = path[k]
    BY <1>1, <1>2 DEF SearchInv, AfterSearch, Walked
  <1>4. Walked'
    <2>1. CASE node = 0
      <3>1. path # <<>> /\ prev[path[1]] = 0 /\ searchPc' = "found" /\ path' = path
        BY <1>1, <1>2, <1>3, <2>1
      <3>. QED  BY <1>1, <1>2, <1>3, <3>1 DEF Walked, Reached
    <2>2. CASE node # 0
      <3>1. node \in Places
        BY <1>2, <1>3, <2>2
      <3>2. Reached(node)
        <4>1. CASE path = <<>>
          BY <1>3, <4>1
        <4>2. CASE path # <<>>
          <5>1. node = prev[path[1]] /\ path[1] \in Places /\ prev[path[1]] # 0
            BY <1>3, <2>2, <4>2
          <5>2. Visited(prev[path[1]])
            BY <5>1 DEF SearchInv, Tree
          <5>. QED  BY <5>1, <5>2 DEF Visited
        <4>. QED  BY <4>1, <4>2
      <3>3. path' = <<node>> \o path /\ searchPc' = "walk"
        BY <1>1, <2>2
      <3>4. path # <<>> => node = prev[path[1]]
        BY <1>3
      <3>5. path = <<>> => node = Goal /\ Len(path) = 0
        OBVIOUS
      <3> HIDE DEF node
      <3>6. /\ path' \in Seq(Places) /\ path' # <<>> /\ Len(path') = Len(path) + 1
            /\ path'[1] = node /\ \A k \in 1 .. Len(path) : path'[k + 1] = path[k]
        BY <1>2, <3>1, <3>3, FirstIs
      <3>7. path'[Len(path')] = Goal
        BY <1>2, <1>3, <3>5, <3>6
      <3>8. \A k \in 1 .. Len(path') : Reached(path'[k])
        <4> TAKE k \in 1 .. Len(path')
        <4>1. CASE k = 1
          BY <3>2, <3>6, <4>1
        <4>2. CASE k # 1
          <5>1. k - 1 \in 1 .. Len(path) /\ path # <<>>
            BY <1>2, <3>6, <4>2
          <5>2. path'[(k - 1) + 1] = path[k - 1]
            BY <3>6, <5>1
          <5>. QED  BY <1>3, <5>1, <5>2
        <4>. QED  BY <4>1, <4>2
      <3>9. \A k \in 1 .. Len(path') - 1 : prev[path'[k + 1]] = path'[k]
        <4> TAKE k \in 1 .. Len(path') - 1
        <4>1. k \in 1 .. Len(path) /\ path # <<>> /\ path'[k + 1] = path[k]
          BY <1>2, <3>6
        <4>2. CASE k = 1
          BY <3>4, <3>6, <4>1, <4>2
        <4>3. CASE k # 1
          <5>1. k - 1 \in 1 .. Len(path) - 1 /\ k - 1 \in 1 .. Len(path)
            BY <1>2, <4>1, <4>3
          <5>2. path'[(k - 1) + 1] = path[k - 1] /\ prev[path[(k - 1) + 1]] = path[k - 1]
            BY <1>3, <3>6, <4>1, <5>1
          <5>. QED  BY <4>1, <5>2
        <4>. QED  BY <4>2, <4>3
      <3>. QED  BY <1>1, <3>3, <3>6, <3>7, <3>8, <3>9 DEF Walked, Reached
    <2>. QED  BY <2>1, <2>2
  <1>5. SearchNumbers' /\ Ranked' /\ BeforeSearch' /\ DuringSearch' /\ Ordered'
    BY <1>1 DEF SearchInv, SearchNumbers, Ranked, BeforeSearch, DuringSearch, Ordered, Visited, Reached
  <1>6. \A u, n : Arrival(u, n)' = Arrival(u, n)
    BY <1>1, SameArrival
  <1>7. Tree' /\ AfterSearch'
    BY <1>1, <1>6 DEF SearchInv, Tree, AfterSearch, Visited, Reached, Relaxed
  <1>. QED  BY <1>4, <1>5, <1>7 DEF SearchInv

LEMMA SearchStutters == ASSUME SearchInv, UNCHANGED searchVars PROVE SearchInv'
  <1>1. \A u, n : Arrival(u, n)' = Arrival(u, n)
    BY SameArrival DEF searchVars
  <1>. QED
    BY <1>1
    DEF searchVars, SearchInv, SearchNumbers, Tree, Ranked, Ordered, BeforeSearch, DuringSearch,
        AfterSearch, Walked, Visited, Reached, Relaxed

LEMMA SearchInvariance == SearchSpec => []SearchInv
  <1>1. SearchInit => SearchInv
    BY SearchInitInv
  <1>2. SearchInv /\ [SearchNext]_searchVars => SearchInv'
    BY AddRoadInv, ShortestPathInv, VisitInv, HeapEmptyInv, WalkBackInv, SearchStutters
    DEF SearchNext
  <1>. QED  BY <1>1, <1>2, PTL DEF SearchSpec

-----------------------------------------------------------------------------
(* Legs and routes.                                                        *)

(* A leg takes as long as its quickest road. *)
LEMMA LegIs ==
  ASSUME SearchNumbers, NEW u \in Places, NEW v \in Places,
         NEW road \in RoadsFrom(u), road.to = v
  PROVE  /\ Leg(u, v) \in Nat
         /\ Arrival(u, v) <= dist[u] + Leg(u, v)
         /\ Arrival(u, v) # Infinity => Arrival(u, v) = dist[u] + Leg(u, v)
         /\ travel_time(road) < Infinity => Cardinality(Places) * Leg(u, v) < Infinity
  <1> DEFINE R == { x \in RoadsFrom(u) : x.to = v }
             S == { travel_time(r) : r \in R }
  <1>1. \A r \in R : r \in RoadPool /\ travel_time(r) \in Nat
    BY TravelTimeIs DEF RoadsFrom, SearchNumbers
  <1>2. S \subseteq Nat /\ S # {}
    BY <1>1
  <1>3. Leg(u, v) \in S /\ \A x \in S : Leg(u, v) <= x
    <2> HIDE DEF S
    <2>1. Min(S) \in S /\ \A x \in S : Min(S) <= x
      BY <1>2, MinIs
    <2>. QED  BY <2>1 DEF Leg, S
  <1>4. PICK r \in R : Leg(u, v) = travel_time(r)
    BY <1>3
  <1>5. \A x \in R : Leg(u, v) <= travel_time(x)
    BY <1>3
  <1>6. Leg(u, v) \in Nat
    BY <1>1, <1>4
  <1>7. dist[u] \in Nat /\ Infinity \in Nat
    BY SearchAssumption DEF SearchAssumption, SearchNumbers
  <1> HIDE DEF S
  <1>8. Arrival(u, v) <= dist[u] + Leg(u, v)
    BY <1>4, ArrivalIs
  <1>9. Arrival(u, v) # Infinity => Arrival(u, v) = dist[u] + Leg(u, v)
    <2> SUFFICES ASSUME Arrival(u, v) # Infinity  PROVE Arrival(u, v) = dist[u] + Leg(u, v)
      OBVIOUS
    <2>1. PICK x \in RoadsFrom(u) : x.to = v /\ Arrival(u, v) = dist[u] + travel_time(x)
      BY ArrivalIs
    <2>2. Leg(u, v) <= travel_time(x) /\ travel_time(x) \in Nat
      BY <1>1, <1>5, <2>1
    <2>. QED  BY <1>6, <1>7, <1>8, <2>1, <2>2
  <1>10. travel_time(road) < Infinity => Cardinality(Places) * Leg(u, v) < Infinity
    <2> SUFFICES ASSUME travel_time(road) < Infinity
                 PROVE  Cardinality(Places) * Leg(u, v) < Infinity
      OBVIOUS
    <2>1. travel_time(r) < Infinity
      <3>1. Leg(u, v) <= travel_time(road) /\ travel_time(road) \in Nat
        BY <1>1, <1>5
      <3>. QED  BY <1>4, <1>6, <1>7, <3>1
    <2>2. r.speed > 0
      <3>1. r.speed \in Int
        BY <1>1, SearchAssumption DEF SearchAssumption
      <3>. QED  BY <1>7, <2>1, <3>1 DEF travel_time
    <2>. QED  BY <1>1, <1>4, <2>2, SearchAssumption DEF SearchAssumption
  <1>. QED  BY <1>6, <1>8, <1>9, <1>10

(* The time a route takes is the sum over its legs. *)
LEMMA TakesIs ==
  ASSUME NEW p \in Seq(Places), Len(p) # 0,
         \A k \in 1 .. Len(p) - 1 : Leg(p[k], p[k + 1]) \in Nat
  PROVE  \E total \in [0 .. Len(p) - 1 -> Nat] :
           /\ total[0] = 0
           /\ \A k \in 1 .. Len(p) - 1 : total[k] = total[k - 1] + Leg(p[k], p[k + 1])
           /\ Takes(p) = total[Len(p) - 1]
  <1> DEFINE leg(k) == Leg(p[k], p[k + 1])
             m == Len(p) - 1
             Sum(f, n) == f = [k \in 0 .. n |-> IF k = 0 THEN 0 ELSE f[k - 1] + leg(k)]
             S == {n \in Nat : n <= m => \E f : Sum(f, n) /\ \A k \in 0 .. n : f[k] \in Nat}
  <1>1. m \in Nat /\ \A k \in 1 .. m : leg(k) \in Nat
    OBVIOUS
  <1> HIDE DEF leg, m
  <1>2. 0 \in S
    <2> DEFINE z == [k \in 0 .. 0 |-> 0]
    <2>1. Sum(z, 0) /\ \A k \in 0 .. 0 : z[k] \in Nat
      OBVIOUS
    <2> HIDE DEF z
    <2>. QED  BY <2>1
  <1>3. ASSUME NEW n \in Nat, n \in S  PROVE n + 1 \in S
    <2> SUFFICES ASSUME n + 1 <= m  PROVE \E f : Sum(f, n + 1) /\ \A k \in 0 .. n + 1 : f[k] \in Nat
      OBVIOUS
    <2>1. PICK f : Sum(f, n) /\ \A k \in 0 .. n : f[k] \in Nat
      BY <1>1, <1>3
    <2> DEFINE h == [k \in 0 .. n + 1 |-> IF k <= n THEN f[k] ELSE f[n] + leg(n + 1)]
    <2>2. \A k \in 0 .. n + 1 : h[k] \in Nat
      BY <1>1, <2>1
    <2>3. \A k \in 0 .. n + 1 : h[k] = IF k = 0 THEN 0 ELSE h[k - 1] + leg(k)
      <3> TAKE k \in 0 .. n + 1
      <3>1. CASE k <= n
        <4>1. f[k] = IF k = 0 THEN 0 ELSE f[k - 1] + leg(k)
          BY <2>1, <3>1
        <4>. QED  BY <3>1, <4>1
      <3>2. CASE k = n + 1
        BY <3>2
      <3>. QED  BY <3>1, <3>2
    <2>4. Sum(h, n + 1)
      BY <2>3
    <2> HIDE DEF h
    <2>. QED  BY <2>2, <2>4
  <1>4. m \in S
    <2> HIDE DEF S
    <2>. QED  BY <1>1, <1>2, <1>3, SetInduction
  <1>5. PICK f : Sum(f, m) /\ \A k \in 0 .. m : f[k] \in Nat
    BY <1>1, <1>4
  <1>6. f = [k \in 0 .. Len(p) - 1 |-> IF k = 0 THEN 0 ELSE f[k - 1] + Leg(p[k], p[k + 1])]
    BY <1>5 DEF leg, m
  <1> DEFINE total == CHOOSE t : t = [k \in 0 .. Len(p) - 1 |->
                                        IF k = 0 THEN 0 ELSE t[k - 1] + Leg(p[k], p[k + 1])]
  <1>7. total = [k \in 0 .. Len(p) - 1 |-> IF k = 0 THEN 0 ELSE total[k - 1] + Leg(p[k], p[k + 1])]
    BY <1>6, Zenon
  <1>8. Takes(p) = total[Len(p) - 1]
    BY Zenon DEF Takes
  <1> HIDE DEF total
  <1>9. total = [k \in 0 .. m |-> IF k = 0 THEN 0 ELSE total[k - 1] + leg(k)]
    BY <1>7 DEF leg, m
  <1> DEFINE T == {n \in Nat : n <= m => total[n] \in Nat}
  <1>10. 0 \in T
    BY <1>1, <1>9
  <1>11. ASSUME NEW n \in Nat, n \in T  PROVE n + 1 \in T
    <2>1. n + 1 <= m => total[n + 1] = total[n] + leg(n + 1)
      BY <1>1, <1>9
    <2>. QED  BY <1>1, <1>11, <2>1
  <1>12. \A n \in 0 .. m : total[n] \in Nat
    <2>1. Nat \subseteq T
      <3> HIDE DEF T
      <3>. QED  BY <1>10, <1>11, SetInduction
    <2>. QED  BY <1>1, <2>1
  <1>13. total \in [0 .. m -> Nat] /\ total[0] = 0
         /\ \A k \in 1 .. m : total[k] = total[k - 1] + leg(k)
    BY <1>1, <1>9, <1>12
  <1>. QED  BY <1>8, <1>13 DEF leg, m

(* The route that is walked back visits no intersection twice. *)
LEMMA PathVisitsOnce ==
  ASSUME SearchInv, NEW i \in 1 .. Len(path), NEW j \in 1 .. Len(path), i # j
  PROVE  path[i] # path[j]
  <1> DEFINE m == Len(path)
  <1>1. /\ m \in Nat \ {0} /\ \A k \in 1 .. m : path[k] \in Places /\ path[k] # 0
        /\ \A k \in 1 .. m - 1 : prev[path[k + 1]] = path[k]
    <2>1. path \in Seq(Places) /\ 0 \notin Places
      BY SearchAssumption DEF SearchInv, Walked, SearchAssumption
    <2>2. path # <<>>
      BY <2>1
    <2>3. \A k \in 1 .. m - 1 : prev[path[k + 1]] = path[k]
      BY <2>2 DEF SearchInv, Walked
    <2>. QED  BY <2>1, <2>2, <2>3
  <1>2. PICK rank \in [Places -> Nat] : \A n \in Places : prev[n] # 0 => rank[prev[n]] < rank[n]
    BY DEF SearchInv, Ranked
  <1> DEFINE S(b) == {n \in Nat : b + n + 1 <= m => rank[path[b]] < rank[path[b + n + 1]]}
  <1>3. ASSUME NEW k \in 1 .. m - 1  PROVE rank[path[k]] < rank[path[k + 1]]
    BY <1>1, <1>2
  <1>4. ASSUME NEW b \in 1 .. m, NEW d \in 1 .. m, b < d  PROVE rank[path[b]] < rank[path[d]]
    <2>1. 0 \in S(b)
      <3>1. b + 0 + 1 = b + 1 /\ (b + 1 <= m => b \in 1 .. m - 1)
        BY <1>1
      <3>. QED  BY <1>3, <3>1
    <2>2. ASSUME NEW n \in Nat, n \in S(b)  PROVE n + 1 \in S(b)
      <3> SUFFICES ASSUME b + (n + 1) + 1 <= m
                   PROVE  rank[path[b]] < rank[path[b + (n + 1) + 1]]
        OBVIOUS
      <3>1. b + n + 1 \in 1 .. m - 1 /\ b + (n + 1) + 1 = (b + n + 1) + 1
        BY <1>1
      <3>2. rank[path[b]] < rank[path[b + n + 1]]
        BY <1>1, <2>2, <3>1
      <3>3. rank[path[b + n + 1]] < rank[path[(b + n + 1) + 1]]
        BY <1>3, <3>1
      <3>4. path[b] \in Places /\ path[b + n + 1] \in Places /\ path[(b + n + 1) + 1] \in Places
        BY <1>1, <3>1
      <3>. QED  BY <1>2, <3>1, <3>2, <3>3, <3>4
    <2>3. d - b - 1 \in S(b)
      <3>1. d - b - 1 \in Nat
        BY <1>1, <1>4
      <3> HIDE DEF S
      <3>. QED  BY <2>1, <2>2, <3>1, SetInduction
    <2>4. b + (d - b - 1) + 1 = d
      BY <1>1
    <2>. QED  BY <1>1, <2>3, <2>4
  <1>5. i < j \/ j < i
    BY <1>1
  <1>6. rank[path[i]] \in Nat /\ rank[path[j]] \in Nat
    BY <1>1, <1>2
  <1>. QED  BY <1>4, <1>5, <1>6

(* The route that was walked back is one of the network, and takes the time *)
(* that the search has found.                                              *)
LEMMA FoundRoute ==
  ASSUME SearchInv, searchPc = "found"
  PROVE  IsRoute(path) /\ Takes(path) = dist[Goal]
  <1>1. /\ path \in Seq(Places) /\ path # <<>> /\ prev[path[1]] = 0 /\ path[Len(path)] = Goal
        /\ \A k \in 1 .. Len(path) : Reached(path[k])
        /\ \A k \in 1 .. Len(path) - 1 : prev[path[k + 1]] = path[k]
        /\ SearchNumbers
    BY DEF SearchInv, Walked
  <1> DEFINE m == Len(path)
  <1>2. m \in Nat \ {0} /\ DOMAIN path = 1 .. m /\ \A k \in 1 .. m : path[k] \in Places
    BY <1>1
  <1>3. /\ dist \in [Places -> 0 .. Infinity] /\ Infinity \in Nat /\ 0 \notin Places
    BY <1>1, SearchAssumption DEF SearchAssumption, SearchNumbers
  <1>4. path[1] = Start /\ dist[path[1]] = 0
    BY <1>1, <1>2 DEF SearchInv, Tree
  <1>5. ASSUME NEW k \in 1 .. m - 1
        PROVE  /\ path[k] \in Places /\ path[k + 1] \in Places
               /\ dist[path[k + 1]] = Arrival(path[k], path[k + 1])
               /\ dist[path[k + 1]] < Infinity
    <2>1. k \in 1 .. m /\ k + 1 \in 1 .. m
      BY <1>2
    <2>2. path[k] \in Places /\ path[k + 1] \in Places /\ prev[path[k + 1]] = path[k]
      BY <1>1, <1>2, <2>1
    <2>3. prev[path[k + 1]] # 0
      BY <1>3, <2>2
    <2>. QED  BY <1>1, <2>1, <2>2, <2>3 DEF SearchInv, Tree, Reached
  <1>6. ASSUME NEW k \in 1 .. m - 1
        PROVE  \E r \in RoadsFrom(path[k]) :
                 /\ r.to = path[k + 1] /\ travel_time(r) < Infinity
    <2>1. PICK r \in RoadsFrom(path[k]) :
            r.to = path[k + 1] /\ Arrival(path[k], path[k + 1]) = dist[path[k]] + travel_time(r)
      <3>1. path[k] \in Places /\ path[k + 1] \in Places /\ Arrival(path[k], path[k + 1]) # Infinity
        BY <1>3, <1>5
      <3>. QED  BY <1>1, <3>1, ArrivalIs
    <2>2. travel_time(r) \in Nat /\ dist[path[k]] \in Nat
      BY <1>1, <1>3, <1>5, TravelTimeIs DEF RoadsFrom, SearchNumbers
    <2>. QED  BY <1>3, <1>5, <2>1, <2>2
  <1>7. ASSUME NEW k \in 1 .. m - 1
        PROVE  /\ Leg(path[k], path[k + 1]) \in Nat
               /\ dist[path[k + 1]] = dist[path[k]] + Leg(path[k], path[k + 1])
    <2>1. PICK r \in RoadsFrom(path[k]) : r.to = path[k + 1]
      BY <1>6
    <2>. QED  BY <1>1, <1>3, <1>5, <2>1, LegIs
  <1>8. Takes(path) = dist[Goal]
    <2>1. PICK total \in [0 .. m - 1 -> Nat] :
            /\ total[0] = 0
            /\ \A k \in 1 .. m - 1 : total[k] = total[k - 1] + Leg(path[k], path[k + 1])
            /\ Takes(path) = total[m - 1]
      BY <1>1, <1>2, <1>7, TakesIs
    <2> DEFINE S == {n \in Nat : n <= m - 1 => total[n] = dist[path[n + 1]]}
    <2>2. 0 \in S
      BY <1>4, <2>1
    <2>3. ASSUME NEW n \in Nat, n \in S  PROVE n + 1 \in S
      <3> SUFFICES ASSUME n + 1 <= m - 1  PROVE total[n + 1] = dist[path[n + 1 + 1]]
        OBVIOUS
      <3>1. n + 1 \in 1 .. m - 1 /\ n + 1 - 1 = n
        BY <1>2
      <3>2. total[n + 1] = total[n] + Leg(path[n + 1], path[n + 1 + 1])
        BY <2>1, <3>1
      <3>3. total[n] = dist[path[n + 1]]
        BY <1>2, <2>3, <3>1
      <3>. QED  BY <1>7, <3>1, <3>2, <3>3
    <2>4. m - 1 \in S
      <3> HIDE DEF S
      <3>. QED  BY <1>2, <2>2, <2>3, SetInduction
    <2>. QED  BY <1>1, <1>2, <2>1, <2>4
  <1>9. \A i, j \in 1 .. m : i # j => path[i] # path[j]
    BY PathVisitsOnce
  <1>10. IsRoute(path)
    BY <1>1, <1>2, <1>4, <1>6, <1>9 DEF IsRoute
  <1>. QED  BY <1>8, <1>10

(* Along any route the search has known as good a way to the intersection,  *)
(* or a better one to the goal.                                            *)
LEMMA AlongRoute ==
  ASSUME SearchInv, NEW p \in Routes, NEW target,
         \A u \in Places : Relaxed(u) \/ target <= dist[u],
         dist[Start] = 0, target \in Nat
  PROVE  /\ Takes(p) \in Nat
         /\ dist[Goal] <= Takes(p) \/ target <= Takes(p)
         /\ Cardinality(Places) * Takes(p) < Cardinality(Places) * Infinity
  <1> DEFINE c == Cardinality(Places)
             m == Len(p)
  <1>1. c \in Nat /\ Infinity \in Nat \ {0}
    BY SearchAssumption, FS_CardinalityType DEF SearchAssumption
  <1>2. PICK n \in 1 .. c : p \in [1 .. n -> Places]
    BY DEF Routes
  <1>3. p \in Seq(Places) /\ m = n /\ m \in 1 .. c
    BY <1>1, <1>2
  <1>4. /\ p[1] = Start /\ p[m] = Goal
        /\ \A k \in 1 .. m - 1 :
             \E r \in RoadsFrom(p[k]) : r.to = p[k + 1] /\ travel_time(r) < Infinity
    BY DEF Routes, IsRoute
  <1>5. SearchNumbers /\ dist \in [Places -> 0 .. Infinity]
    BY DEF SearchInv, SearchNumbers
  <1>6. ASSUME NEW k \in 1 .. m - 1
        PROVE  /\ p[k] \in Places /\ p[k + 1] \in Places
               /\ Leg(p[k], p[k + 1]) \in Nat
               /\ Arrival(p[k], p[k + 1]) <= dist[p[k]] + Leg(p[k], p[k + 1])
               /\ c * Leg(p[k], p[k + 1]) < Infinity
    <2>1. p[k] \in Places /\ p[k + 1] \in Places
      BY <1>2, <1>3
    <2>2. PICK r \in RoadsFrom(p[k]) : r.to = p[k + 1] /\ travel_time(r) < Infinity
      BY <1>4
    <2>. QED  BY <1>5, <2>1, <2>2, LegIs
  <1>7. PICK total \in [0 .. m - 1 -> Nat] :
          /\ total[0] = 0
          /\ \A k \in 1 .. m - 1 : total[k] = total[k - 1] + Leg(p[k], p[k + 1])
          /\ Takes(p) = total[m - 1]
    <2>1. Len(p) # 0 /\ \A k \in 1 .. Len(p) - 1 : Leg(p[k], p[k + 1]) \in Nat
      BY <1>1, <1>3, <1>6
    <2>. QED  BY <1>3, <2>1, TakesIs
  <1> HIDE DEF c, m
  <1> DEFINE Near(k) == dist[p[k + 1]] <= total[k] \/ target <= total[k]
             S == {k \in Nat : k <= m - 1 => Near(k)}
  <1>8. 0 \in S
    BY <1>3, <1>4, <1>7
  <1>9. ASSUME NEW k \in Nat, k \in S  PROVE k + 1 \in S
    <2> SUFFICES ASSUME k + 1 <= m - 1  PROVE Near(k + 1)
      OBVIOUS
    <2>1. k + 1 \in 1 .. m - 1 /\ k \in 0 .. m - 1 /\ k + 1 - 1 = k
      BY <1>3
    <2> DEFINE leg == Leg(p[k + 1], p[k + 1 + 1])
    <2>2. total[k + 1] = total[k] + leg /\ leg \in Nat /\ total[k] \in Nat
      BY <1>6, <1>7, <2>1
    <2>3. /\ p[k + 1] \in Places /\ p[k + 1 + 1] \in Places
          /\ Arrival(p[k + 1], p[k + 1 + 1]) <= dist[p[k + 1]] + leg
          /\ Arrival(p[k + 1], p[k + 1 + 1]) \in 0 .. Infinity
          /\ dist[p[k + 1]] \in Nat /\ dist[p[k + 1 + 1]] \in Nat
      BY <1>5, <1>6, <2>1, ArrivalIs
    <2> HIDE DEF leg
    <2>4. CASE target <= total[k]
      BY <2>2, <2>4
    <2>5. CASE dist[p[k + 1]] <= total[k] /\ target <= dist[p[k + 1]]
      BY <2>2, <2>3, <2>5
    <2>6. CASE dist[p[k + 1]] <= total[k] /\ Relaxed(p[k + 1])
      <3>1. dist[p[k + 1 + 1]] <= Arrival(p[k + 1], p[k + 1 + 1])
        BY <2>3, <2>6 DEF Relaxed
      <3>2. Arrival(p[k + 1], p[k + 1 + 1]) \in Nat
        BY <1>1, <2>3
      <3>. QED  BY <2>2, <2>3, <2>6, <3>1, <3>2
    <2>. QED  BY <1>9, <2>1, <2>3, <2>4, <2>5, <2>6
  <1>10. Near(m - 1)
    <2>1. m - 1 \in Nat
      BY <1>3
    <2>2. m - 1 \in S
      <3> HIDE DEF S
      <3>. QED  BY <1>8, <1>9, <2>1, SetInduction
    <2>. QED  BY <2>1, <2>2
  <1> DEFINE T == {k \in Nat : k <= m - 1 => c * total[k] <= k * (Infinity - 1)}
  <1>11. 0 \in T
    <2>1. c * 0 = 0 /\ 0 * (Infinity - 1) = 0
      BY <1>1
    <2>. QED  BY <1>7, <2>1
  <1>12. ASSUME NEW k \in Nat, k \in T  PROVE k + 1 \in T
    <2> SUFFICES ASSUME k + 1 <= m - 1  PROVE c * total[k + 1] <= (k + 1) * (Infinity - 1)
      OBVIOUS
    <2>1. k + 1 \in 1 .. m - 1 /\ k \in 0 .. m - 1 /\ k + 1 - 1 = k
      BY <1>3
    <2> DEFINE leg == Leg(p[k + 1], p[k + 1 + 1])
    <2>2. total[k + 1] = total[k] + leg /\ leg \in Nat /\ total[k] \in Nat /\ c * leg < Infinity
      BY <1>6, <1>7, <2>1
    <2>3. c * total[k] <= k * (Infinity - 1)
      BY <1>12, <2>1
    <2> HIDE DEF leg
    <2>4. c * (total[k] + leg) = c * total[k] + c * leg /\ c * total[k] \in Nat /\ c * leg \in Nat
      BY <1>1, <2>2
    <2>5. (k + 1) * (Infinity - 1) = k * (Infinity - 1) + (Infinity - 1) /\ k * (Infinity - 1) \in Nat
      BY <1>1
    <2>. QED  BY <1>1, <2>2, <2>3, <2>4, <2>5
  <1>13. c * total[m - 1] <= (m - 1) * (Infinity - 1)
    <2>1. m - 1 \in Nat
      BY <1>3
    <2>2. m - 1 \in T
      <3> HIDE DEF T
      <3>. QED  BY <1>11, <1>12, <2>1, SetInduction
    <2>. QED  BY <2>1, <2>2
  <1>14. (m - 1) * (Infinity - 1) < c * Infinity
    BY <1>1, <1>3, SMTT(30)
  <1>15. total[m - 1] \in Nat
    BY <1>3, <1>7
  <1>16. c * total[m - 1] < c * Infinity
    <2>1. c * total[m - 1] \in Int /\ (m - 1) * (Infinity - 1) \in Int /\ c * Infinity \in Int
      BY <1>1, <1>3, <1>15
    <2>. QED  BY ONLY <1>13, <1>14, <2>1
  <1>17. p[m - 1 + 1] = Goal
    BY <1>3, <1>4
  <1>. QED  BY <1>7, <1>10, <1>15, <1>16, <1>17 DEF c

(* Whatever the network, whatever it costs to go along its roads, however   *)
(* many of them are parallel, closed or take no time: the search answers    *)
(* with a route that no other beats and with the time it takes, and refuses *)
(* only a goal that cannot be reached.                                     *)
THEOREM SearchFindsShortest == BrainSpec => []ShortestFound
  <1>1. SearchInv => ShortestFound
    <2> SUFFICES ASSUME SearchInv  PROVE ShortestFound
      OBVIOUS
    <2>1. SearchNumbers /\ (searchPc # "build" => dist[Start] = 0)
      BY DEF SearchInv, DuringSearch
    <2>2. searchPc # "build" => dist[Goal] \in 0 .. Infinity
      BY <2>1 DEF SearchNumbers
    <2>3. Infinity \in Nat \ {0} /\ Cardinality(Places) \in Nat
      BY SearchAssumption, FS_CardinalityType DEF SearchAssumption
    <2>4. ASSUME searchPc = "found", NEW p \in Routes  PROVE dist[Goal] <= Takes(p)
      <3>1. dist[Goal] \in Nat
        BY <2>2, <2>3, <2>4
      <3>2. \A u \in Places : Relaxed(u) \/ dist[Goal] <= dist[u]
        BY <2>4, <3>1 DEF SearchInv, AfterSearch
      <3>3. dist[Start] = 0
        BY <2>1, <2>4
      <3>. QED  BY <3>1, <3>2, <3>3, AlongRoute
    <2>5. ASSUME searchPc = "no_path", NEW p \in Routes  PROVE FALSE
      <3>1. dist[Goal] = Infinity /\ \A u \in Places : Relaxed(u)
        BY <2>2, <2>3, <2>5 DEF SearchInv, AfterSearch, Reached
      <3>2. /\ Takes(p) \in Nat /\ Infinity <= Takes(p)
            /\ Cardinality(Places) * Takes(p) < Cardinality(Places) * Infinity
        BY <2>1, <2>3, <2>5, <3>1, AlongRoute
      <3>3. \A a, b, c \in Nat : b <= a => ~(c * a < c * b)
        OBVIOUS
      <3>. QED  BY <2>3, <3>2, <3>3
    <2>. QED  BY <2>4, <2>5, FoundRoute DEF ShortestFound
  <1>. QED  BY <1>1, SearchInvariance, JobsApart, PTL

-----------------------------------------------------------------------------
(* The rewards.                                                            *)

Shares == [1 .. 4 -> 0 .. 20]

LEMMA WithinIs ==
  ASSUME NEW x \in Int, NEW lo \in Int, NEW hi \in Int, lo <= hi
  PROVE  /\ Within(x, lo, hi) \in lo .. hi
         /\ x \in lo .. hi => Within(x, lo, hi) = x
  BY DEF Within

LEMMA TotalIs ==
  ASSUME NEW q \in Shares
  PROVE  Total(q) = q[1] + q[2] + q[3] + q[4] /\ Total(q) \in 0 .. 80
  <1>1. Total(q) = SumOn(q, 1 .. 4)
    BY DEF Total, FoldFunction, SumOn, Shares
  <1>2. \A x \in 1 .. 4 : q[x] \in 0 .. 20
    BY DEF Shares
  <1>3. SumOn(q, 1 .. 4) = q[1] + q[2] + q[3] + q[4]
    BY <1>2, SumFour
  <1>. QED  BY <1>1, <1>2, <1>3

LEMMA WaitingIs ==
  ASSUME NEW q \in Shares
  PROVE  /\ Waiting(q, NorthSouth) = q[1] + q[3] /\ Waiting(q, EastWest) = q[2] + q[4]
         /\ Waiting(q, NorthSouth) \in 0 .. 40 /\ Waiting(q, EastWest) \in 0 .. 40
  <1>1. /\ q[1] \in 0 .. 20 /\ q[2] \in 0 .. 20 /\ q[3] \in 0 .. 20 /\ q[4] \in 0 .. 20
    BY DEF Shares
  <1>2. /\ Waiting(q, NorthSouth) = SumOn(q, {1, 3})
        /\ Waiting(q, EastWest) = SumOn(q, {2, 4})
    BY DEF Waiting, SumOn, NorthSouth, EastWest
  <1>a. /\ 1 # 3 /\ 2 # 4
        /\ q[1] \in Int /\ q[2] \in Int /\ q[3] \in Int /\ q[4] \in Int
    BY <1>1
  <1>3. SumOn(q, {1, 3}) = q[1] + q[3] /\ SumOn(q, {2, 4}) = q[2] + q[4]
    BY <1>a, SumTwo
  <1>. QED  BY <1>1, <1>2, <1>3

(* The axis that is not served is the other one. *)
LEMMA RedIs ==
  /\ Served(0) = NorthSouth /\ (1 .. 4) \ Served(0) = EastWest
  /\ Served(1) = EastWest /\ (1 .. 4) \ Served(1) = NorthSouth
  BY DEF Served, NorthSouth, EastWest

LEMMA DelayIs == ASSUME NEW w \in Nat  PROVE InRange(delay(w), -1200, 0) /\ delay(w) \in Int
  <1>1. Within(w, 0, 500) \in 0 .. 500
    BY DEF Within
  <1>2. \A n \in 0 .. 500 : InRange((12 * n) \div 5, 0, 1200)
    BY DEF InRange
  <1>. QED  BY <1>1, <1>2 DEF delay, InRange

(* A phase that is red for all who wait is punished, any other is not. *)
LEMMA SmartDelayIs ==
  ASSUME NEW q \in Shares, NEW w \in Nat, NEW phase \in {0, 1}
  PROVE  LET green == Waiting(q, Served(phase))
             red   == Waiting(q, (1 .. 4) \ Served(phase))
         IN  /\ green = 0 /\ red >= 1 => InRange(smart_delay(q, w, phase), 6 * delay(w) - 4800, 6 * delay(w) - 1)
             /\ ~(green = 0 /\ red >= 1) => smart_delay(q, w, phase) = 6 * delay(w)
  <1> DEFINE green == Waiting(q, Served(phase))
             red   == Waiting(q, (1 .. 4) \ Served(phase))
  <1>1. green \in 0 .. 40 /\ red \in 0 .. 40
    BY WaitingIs, RedIs
  <1>2. delay(w) \in Int
    BY DelayIs
  <1>3. smart_delay(q, w, phase)
          = 6 * delay(w) + 4 * (IF green = 0 /\ red >= 1 THEN -(60 * Within(red, 0, 20)) ELSE 0)
    BY DEF smart_delay
  <1> HIDE DEF green, red
  <1>4. red >= 1 => Within(red, 0, 20) \in 1 .. 20
    BY <1>1 DEF Within
  <1>5. /\ green = 0 /\ red >= 1 => InRange(smart_delay(q, w, phase), 6 * delay(w) - 4800, 6 * delay(w) - 1)
        /\ ~(green = 0 /\ red >= 1) => smart_delay(q, w, phase) = 6 * delay(w)
    BY <1>1, <1>2, <1>3, <1>4 DEF InRange
  <1>. QED  BY <1>5 DEF green, red

(* Green for the axis where nobody waits is worse than green for the other. *)
LEMMA WastedGreen ==
  ASSUME NEW q \in Shares, NEW w \in Nat
  PROVE  /\ Waiting(q, NorthSouth) = 0 /\ Waiting(q, EastWest) > 0 =>
              smart_delay(q, w, 0) < smart_delay(q, w, 1)
         /\ Waiting(q, EastWest) = 0 /\ Waiting(q, NorthSouth) > 0 =>
              smart_delay(q, w, 1) < smart_delay(q, w, 0)
  <1>1. delay(w) \in Int
    BY DelayIs
  <1> DEFINE ns == Waiting(q, NorthSouth)
             ew == Waiting(q, EastWest)
  <1>2. /\ ns = 0 /\ ew >= 1 => InRange(smart_delay(q, w, 0), 6 * delay(w) - 4800, 6 * delay(w) - 1)
        /\ ~(ns = 0 /\ ew >= 1) => smart_delay(q, w, 0) = 6 * delay(w)
    BY SmartDelayIs, RedIs
  <1>3. /\ ew = 0 /\ ns >= 1 => InRange(smart_delay(q, w, 1), 6 * delay(w) - 4800, 6 * delay(w) - 1)
        /\ ~(ew = 0 /\ ns >= 1) => smart_delay(q, w, 1) = 6 * delay(w)
    BY SmartDelayIs, RedIs
  <1>4. ns \in Int /\ ew \in Int
    BY WaitingIs
  <1> HIDE DEF ns, ew
  <1>5. /\ ns = 0 /\ ew > 0 => smart_delay(q, w, 0) < smart_delay(q, w, 1)
        /\ ew = 0 /\ ns > 0 => smart_delay(q, w, 1) < smart_delay(q, w, 0)
    BY <1>1, <1>2, <1>3, <1>4 DEF InRange
  <1>. QED  BY <1>5 DEF ns, ew

(* A set of integers below a bound has a greatest one. *)
LEMMA MaxIs ==
  ASSUME NEW S, S \subseteq Int, NEW top \in Int, \A x \in S : x <= top, S # {}
  PROVE  Max(S) \in S /\ \A x \in S : x <= Max(S)
  <1> DEFINE T == {k \in Nat : \E x \in S : k = top - x}
  <1>0. PICK z \in S : TRUE
    OBVIOUS
  <1>1. T \subseteq Nat /\ T # {}
    <2>1. top - z \in Nat
      OBVIOUS
    <2>2. top - z \in T
      BY <2>1
    <2>. QED  BY <2>2
  <1>2. PICK m \in T : \A k \in T : m <= k
    BY <1>1, LeastNatural
  <1>3. PICK x \in S : m = top - x
    OBVIOUS
  <1>4. \A y \in S : y <= x
    <2> SUFFICES ASSUME NEW y \in S PROVE y <= x
      OBVIOUS
    <2>1. top - y \in Nat /\ y \in Int /\ x \in Int
      OBVIOUS
    <2>2. m <= top - y
      BY <1>2, <2>1
    <2>. QED  BY <1>3, <2>1, <2>2
  <1>. QED  BY <1>4 DEF Max

(* The penalty of a switch, without the maximum. *)
LEMMA FlickerIs ==
  ASSUME NEW last \in Int, NEW action \in Int, NEW held \in Nat \cup {-1}
  PROVE  flicker_penalty(last, action, held) =
           IF action = last \/ held = -1 \/ held > 15 THEN 0
           ELSE IF held < 5 THEN -1200 ELSE -(1200 - 120 * (held - 5))
  <1>1. CASE action = last \/ held = -1 \/ held < 5
    BY <1>1 DEF flicker_penalty
  <1>2. CASE action # last /\ held # -1 /\ held >= 5
    <2> DEFINE n == 1200 - 120 * (held - 5)
    <2>1. n \in Int /\ n <= 1200
      BY <1>2
    <2>2. Max({0, n}) \in {0, n} /\ 0 <= Max({0, n}) /\ n <= Max({0, n})
      BY <2>1, MaxIs
    <2>3. Max({0, n}) = IF n < 0 THEN 0 ELSE n
      BY <2>1, <2>2
    <2>. QED  BY <1>2, <2>3 DEF flicker_penalty
  <1>. QED  BY <1>1, <1>2

(* A lane that is fed and filling up is punished, and nothing else. *)
LEMMA SpillbackIs ==
  ASSUME NEW fed \in SUBSET (0 .. 20)
  PROVE  /\ InRange(spillback_penalty(fed), -1200, 0)
         /\ IF \E o \in fed : o > 17 THEN spillback_penalty(fed) <= -400
            ELSE spillback_penalty(fed) = 0
  <1>1. CASE fed = {}
    BY <1>1 DEF spillback_penalty, InRange
  <1>2. CASE fed # {}
    <2>1. fed \subseteq Int /\ 20 \in Int /\ \A x \in fed : x <= 20
      OBVIOUS
    <2>2. Max(fed) \in fed /\ \A x \in fed : x <= Max(fed)
      BY <1>2, <2>1, MaxIs
    <2> DEFINE worst == Max(fed)
    <2>3. worst \in 0 .. 20 /\ ((\E o \in fed : o > 17) <=> worst > 17)
      <3>1. worst \in fed /\ \A x \in fed : x \in 0 .. 20 /\ x <= worst
        BY <2>2
      <3> HIDE DEF worst
      <3>. QED  BY <3>1
    <2>4. spillback_penalty(fed) = -(400 * Within(worst - 17, 0, 3))
      BY <1>2 DEF spillback_penalty
    <2> HIDE DEF worst
    <2>5. /\ Within(worst - 17, 0, 3) \in 0 .. 3
          /\ IF worst > 17 THEN Within(worst - 17, 0, 3) >= 1 ELSE Within(worst - 17, 0, 3) = 0
      BY <2>3 DEF Within
    <2>. QED  BY <2>3, <2>4, <2>5 DEF InRange
  <1>. QED  BY <1>1, <1>2

LEMMA FedIs ==
  ASSUME NEW signals, NEW links, NEW density, \A lane \in DOMAIN density : density[lane] \in 0 .. 20
  PROVE  served_downstream_occupancies(signals, links, density) \in SUBSET (0 .. 20)
  BY DEF served_downstream_occupancies

(* The ranges of the components and of their weighted sum. *)
LEMMA PressureIs ==
  ASSUME NEW q \in Shares, NEW d \in Shares
  PROVE  pressure(q, d) \in -240 .. 0
  <1>1. Total(q) \in 0 .. 80 /\ Total(d) \in 0 .. 80
    BY TotalIs
  <1>2. Within(Total(q) - Total(d), 0, 400) \in 0 .. 80
    BY <1>1 DEF Within
  <1>. QED  BY <1>2 DEF pressure

LEMMA QueueLengthIs ==
  ASSUME NEW q \in Shares
  PROVE  InRange(queue_length(q), -1200, 0)
  BY TotalIs DEF queue_length, Within, InRange

WorstComposite == -7200

LEMMA CompositeIs ==
  ASSUME NEW q \in Shares, NEW d \in Shares, NEW last \in Int, NEW action \in Int,
         NEW held \in Nat \cup {-1}, NEW fed \in SUBSET (0 .. 20)
  PROVE  /\ InRange(composite(q, d, last, action, held, fed), WorstComposite, 0)
         /\ composite(q, d, last, action, held, fed)
              = composite(q, d, last, action, held, {}) + spillback_penalty(fed)
         /\ composite(q, d, last, action, held, {}) \in Int
  <1>1. pressure(q, d) \in -240 .. 0 /\ InRange(queue_length(q), -1200, 0)
    BY PressureIs, QueueLengthIs
  <1>2. InRange(flicker_penalty(last, action, held), -1200, 0)
    <2>1. flicker_penalty(last, action, held) =
            IF action = last \/ held = -1 \/ held > 15 THEN 0
            ELSE IF held < 5 THEN -1200 ELSE -(1200 - 120 * (held - 5))
      BY FlickerIs
    <2>. QED  BY <2>1 DEF InRange
  <1>3. InRange(spillback_penalty(fed), -1200, 0) /\ spillback_penalty({}) = 0
    <2>1. InRange(spillback_penalty(fed), -1200, 0)
      BY SpillbackIs
    <2>. QED  BY <2>1 DEF spillback_penalty
  <1> DEFINE p == pressure(q, d)
             n == queue_length(q)
             f == flicker_penalty(last, action, held)
             s == spillback_penalty(fed)
             c == composite(q, d, last, action, held, fed)
             e == composite(q, d, last, action, held, {})
  <1>4. c = 5 * p + 3 * n + f + s /\ e = 5 * p + 3 * n + f + 0
    BY <1>3 DEF composite
  <1>5. p \in -240 .. 0 /\ InRange(n, -1200, 0) /\ InRange(f, -1200, 0) /\ InRange(s, -1200, 0)
    BY <1>1, <1>2, <1>3
  <1> HIDE DEF p, n, f, s, c, e
  <1>6. InRange(c, WorstComposite, 0) /\ c = e + s /\ e \in Int
    BY <1>4, <1>5 DEF InRange, WorstComposite
  <1>. QED  BY <1>6 DEF c, e, s

(* Emptying the avenue raises the potential. *)
LEMMA NightIs ==
  ASSUME NEW q \in Shares
  PROVE  night_mode([i \in 1 .. 4 |-> 0], q, EastWest) >= 0
  <1> DEFINE zero == [i \in 1 .. 4 |-> 0]
  <1>1. zero \in Shares
    BY DEF Shares
  <1>2. DOMAIN q \ EastWest = NorthSouth /\ DOMAIN zero \ EastWest = NorthSouth
    BY DEF Shares, EastWest, NorthSouth
  <1>3. Waiting(zero, EastWest) = 0
    BY <1>1, WaitingIs
  <1>4. Waiting(q, EastWest) \in 0 .. 40
    BY WaitingIs
  <1>5. night_potential(zero, EastWest) = 0
    BY <1>2, <1>3 DEF night_potential
  <1>6. InRange(night_potential(q, EastWest), -1200, 0)
    BY <1>4 DEF night_potential, Within, InRange
  <1>. QED  BY <1>5, <1>6 DEF night_mode, Within, InRange

(* The lanes of bucket i. *)
Bucket(lanes, i) ==
  LET chunk == Max({1, Len(lanes) \div 4})
  IN  { k \in 1 .. Len(lanes) : (i - 1) * chunk < k /\ (i < 4 => k <= i * chunk) }

(* What a bucket reports while it is not full. *)
LEMMA AggregateIs ==
  ASSUME NEW lanes \in Seq(Nat)
  PROVE  /\ aggregate_directions(lanes, 20) \in Shares
         /\ \A i \in 1 .. 4 :
              /\ IsFiniteSet(Bucket(lanes, i)) /\ SumOn(lanes, Bucket(lanes, i)) \in Nat
              /\ aggregate_directions(lanes, 20)[i] < 20 =>
                   aggregate_directions(lanes, 20)[i] = SumOn(lanes, Bucket(lanes, i))
  <1>1. \A i \in 1 .. 4 : aggregate_directions(lanes, 20)[i]
                            = Within((20 * SumOn(lanes, Bucket(lanes, i))) \div 20, 0, 20)
    BY DEF aggregate_directions, Bucket, SumOn
  <1>2. aggregate_directions(lanes, 20) = [i \in 1 .. 4 |-> aggregate_directions(lanes, 20)[i]]
    BY DEF aggregate_directions
  <1>3. ASSUME NEW i \in 1 .. 4
        PROVE  /\ IsFiniteSet(Bucket(lanes, i)) /\ SumOn(lanes, Bucket(lanes, i)) \in Nat
               /\ Within((20 * SumOn(lanes, Bucket(lanes, i))) \div 20, 0, 20) \in 0 .. 20
               /\ Within((20 * SumOn(lanes, Bucket(lanes, i))) \div 20, 0, 20) < 20 =>
                    Within((20 * SumOn(lanes, Bucket(lanes, i))) \div 20, 0, 20)
                      = SumOn(lanes, Bucket(lanes, i))
    <2> DEFINE B == Bucket(lanes, i)
               s == SumOn(lanes, B)
    <2>1. B \in SUBSET (1 .. Len(lanes)) /\ Len(lanes) \in Int /\ 1 \in Int
      BY DEF Bucket
    <2>2. IsFiniteSet(B)
      BY <2>1, FS_Interval, FS_Subset
    <2>3. \A k \in B : lanes[k] \in Int /\ 0 * lanes[k] <= 1 * lanes[k]
      BY <2>1
    <2>4. s \in Int
      BY <2>2, <2>3, SumInt
    <2>5. 0 * s <= 1 * s
      BY <2>2, <2>3, SumOrder
    <2> HIDE DEF s, B
    <2>6. s \in Nat
      BY <2>4, <2>5
    <2>7. (20 * s) \div 20 = s
      BY <2>6
    <2>8. Within(s, 0, 20) \in 0 .. 20 /\ (Within(s, 0, 20) < 20 => Within(s, 0, 20) = s)
      BY <2>6 DEF Within
    <2>. QED  BY <2>2, <2>6, <2>7, <2>8 DEF s, B
  <1>. QED  BY <1>1, <1>2, <1>3 DEF Shares

(* The four buckets hold every lane once, however many there are. *)
LEMMA LanesAreKept ==
  ASSUME NEW lanes \in Seq(Nat), \A i \in 1 .. 4 : aggregate_directions(lanes, 20)[i] < 20
  PROVE  Total(aggregate_directions(lanes, 20)) = Total(lanes)
  <1> DEFINE n     == Len(lanes)
             chunk == Max({1, n \div 4})
             a     == aggregate_directions(lanes, 20)
             B(i)  == Bucket(lanes, i)
  <1>1. n \in Nat /\ chunk \in Nat
    <2>1. n \div 4 \in Nat
      OBVIOUS
    <2>2. {1, n \div 4} \subseteq Int /\ {1, n \div 4} # {}
      BY <2>1
    <2>3. n + 1 \in Int /\ \A x \in {1, n \div 4} : x <= n + 1
      BY <2>1
    <2>4. Max({1, n \div 4}) \in {1, n \div 4}
      BY <2>2, <2>3, MaxIs
    <2>. QED  BY <2>1, <2>4
  <1>c. DOMAIN lanes = 1 .. n
    OBVIOUS
  <1>2. \A i \in 1 .. 4 : B(i) = { k \in 1 .. n : (i - 1) * chunk < k /\ (i < 4 => k <= i * chunk) }
    BY DEF Bucket
  <1> HIDE DEF chunk
  <1>3. /\ B(1) = { k \in 1 .. n : k <= chunk }
        /\ B(2) = { k \in 1 .. n : chunk < k /\ k <= 2 * chunk }
        /\ B(3) = { k \in 1 .. n : 2 * chunk < k /\ k <= 3 * chunk }
        /\ B(4) = { k \in 1 .. n : 3 * chunk < k }
    BY <1>1, <1>2
  <1> HIDE DEF n, B
  <1>4. /\ 1 .. n = (B(1) \cup B(2)) \cup (B(3) \cup B(4))
        /\ B(1) \cap B(2) = {} /\ B(3) \cap B(4) = {}
        /\ (B(1) \cup B(2)) \cap (B(3) \cup B(4)) = {}
    BY <1>1, <1>3
  <1>5. \A i \in 1 .. 4 : /\ IsFiniteSet(B(i)) /\ SumOn(lanes, B(i)) \in Nat
                          /\ a[i] = SumOn(lanes, B(i))
    BY AggregateIs DEF B
  <1>b. IsFiniteSet(B(1)) /\ IsFiniteSet(B(2)) /\ IsFiniteSet(B(3)) /\ IsFiniteSet(B(4))
    BY <1>5
  <1>6. IsFiniteSet(B(1) \cup B(2)) /\ IsFiniteSet(B(3) \cup B(4))
    BY <1>b, FS_Union
  <1>7. \A k \in 1 .. n : lanes[k] \in Int
    BY DEF n
  <1>8. SumOn(lanes, 1 .. n) = SumOn(lanes, B(1) \cup B(2)) + SumOn(lanes, B(3) \cup B(4))
    <2>1. \A k \in (B(1) \cup B(2)) \cup (B(3) \cup B(4)) : lanes[k] \in Int
      BY <1>4, <1>7
    <2>2. SumOn(lanes, (B(1) \cup B(2)) \cup (B(3) \cup B(4)))
            = SumOn(lanes, B(1) \cup B(2)) + SumOn(lanes, B(3) \cup B(4))
      BY <2>1, <1>4, <1>6, SumSplit
    <2>. QED  BY <2>2, <1>4
  <1>a. /\ \A k \in B(1) \cup B(2) : lanes[k] \in Int
        /\ \A k \in B(3) \cup B(4) : lanes[k] \in Int
    BY <1>4, <1>7
  <1>9. SumOn(lanes, B(1) \cup B(2)) = SumOn(lanes, B(1)) + SumOn(lanes, B(2))
    BY <1>4, <1>b, <1>a, SumSplit
  <1>10. SumOn(lanes, B(3) \cup B(4)) = SumOn(lanes, B(3)) + SumOn(lanes, B(4))
    BY <1>4, <1>b, <1>a, SumSplit
  <1>11. Total(a) = a[1] + a[2] + a[3] + a[4]
    BY AggregateIs, TotalIs
  <1>12. Total(lanes) = SumOn(lanes, 1 .. n)
    BY <1>c DEF Total, FoldFunction, SumOn
  <1>. QED  BY <1>5, <1>8, <1>9, <1>10, <1>11, <1>12

(* A situation that SceneAssumption admits. *)
LEMMA ServicePreferred ==
  ASSUME SceneAssumption, NEW s \in ScenePool
  PROVE  RewardsPreferService(s)
  <1> DEFINE q   == s.queue
             fed == served_downstream_occupancies(s.signals, s.links, s.outs)
  <1>1. /\ s.lanes \in Seq(Nat) /\ q \in Shares /\ s.density \in Shares
        /\ s.waiting \in Nat /\ s.held \in Nat \cup {-1}
        /\ \A lane \in DOMAIN s.outs : s.outs[lane] \in 0 .. 20
    BY DEF SceneAssumption, Shares
  <1>2. fed \in SUBSET (0 .. 20)
    BY <1>1, FedIs
  <1>3. /\ Waiting(q, NorthSouth) = 0 /\ Waiting(q, EastWest) > 0 =>
             smart_delay(q, s.waiting, 0) < smart_delay(q, s.waiting, 1 - 0)
        /\ Waiting(q, EastWest) = 0 /\ Waiting(q, NorthSouth) > 0 =>
             smart_delay(q, s.waiting, 1) < smart_delay(q, s.waiting, 1 - 1)
    <2>1. 1 - 0 = 1 /\ 1 - 1 = 0
      OBVIOUS
    <2>. QED  BY <1>1, <2>1, WastedGreen
  <1>4. ASSUME NEW h1 \in {s.held, 4, 5, 12, 15}, NEW h2 \in {s.held, 4, 5, 12, 15}
        PROVE  /\ flicker_penalty(0, 1, h1) <= flicker_penalty(1, 1, h1)
               /\ 0 <= h1 /\ h1 <= h2 => flicker_penalty(0, 1, h1) <= flicker_penalty(0, 1, h2)
    <2>1. h1 \in Nat \cup {-1} /\ h2 \in Nat \cup {-1} /\ 0 \in Int /\ 1 \in Int
      BY <1>1
    <2>2. \A h \in Nat \cup {-1} :
            /\ flicker_penalty(1, 1, h) = 0
            /\ flicker_penalty(0, 1, h) =
                 IF h = -1 \/ h > 15 THEN 0 ELSE IF h < 5 THEN -1200 ELSE -(1200 - 120 * (h - 5))
      BY <2>1, FlickerIs
    <2> HIDE <1>1, <1>2, <1>3
    <2>. QED  BY <2>1, <2>2
  <1>5. IF \E k \in DOMAIN s.links, lane \in DOMAIN s.outs :
             s.signals[k] \in {"G", "g"} /\ s.links[k] = lane /\ s.outs[lane] > 17
        THEN composite(q, s.density, 0, 0, -1, fed) < composite(q, s.density, 0, 0, -1, {})
        ELSE composite(q, s.density, 0, 0, -1, fed) = composite(q, s.density, 0, 0, -1, {})
    <2> DEFINE spills == \E k \in DOMAIN s.links, lane \in DOMAIN s.outs :
                 s.signals[k] \in {"G", "g"} /\ s.links[k] = lane /\ s.outs[lane] > 17
    <2>1. 0 \in Int /\ -1 \in Nat \cup {-1}
      OBVIOUS
    <2>2. spills <=> \E o \in fed : o > 17
      BY DEF served_downstream_occupancies
    <2> HIDE DEF q, fed, spills
    <2>3. /\ composite(q, s.density, 0, 0, -1, fed)
               = composite(q, s.density, 0, 0, -1, {}) + spillback_penalty(fed)
          /\ composite(q, s.density, 0, 0, -1, {}) \in Int
      BY <1>1, <1>2, <2>1, CompositeIs
    <2>4. /\ InRange(spillback_penalty(fed), -1200, 0)
          /\ IF spills THEN spillback_penalty(fed) <= -400 ELSE spillback_penalty(fed) = 0
      BY <1>2, <2>2, SpillbackIs
    <2> DEFINE c == composite(q, s.density, 0, 0, -1, fed)
               e == composite(q, s.density, 0, 0, -1, {})
               p == spillback_penalty(fed)
    <2> HIDE DEF c, e, p
    <2>5. /\ c = e + p /\ e \in Int /\ InRange(p, -1200, 0)
          /\ IF spills THEN p <= -400 ELSE p = 0
      BY <2>3, <2>4 DEF c, e, p
    <2>6. IF spills THEN c < e ELSE c = e
      BY <2>5 DEF InRange
    <2>. QED  BY <2>6 DEF c, e, spills
  <1>6. night_mode([i \in 1 .. 4 |-> 0], q, EastWest) >= 0
    BY <1>1, NightIs
  <1>7. (\A i \in 1 .. 4 : aggregate_directions(s.lanes, 20)[i] < 20) =>
          Total(aggregate_directions(s.lanes, 20)) = Total(s.lanes)
    BY <1>1, LanesAreKept
  <1>. QED  BY <1>3, <1>4, <1>5, <1>6, <1>7 DEF RewardsPreferService

-----------------------------------------------------------------------------
(* The formulas of the queue theory.                                       *)

(* Webster's cycle has room for the lost time, and for the share of the     *)
(* phases that the flow ratios ask for.                                    *)
LEMMA CycleIs ==
  ASSUME NEW y \in 1 .. 99, NEW n \in Nat \ {0}
  PROVE  LET cycle == webster_optimal_cycle(y, LostTimePerPhase * n)
         IN  /\ cycle \in Nat
             /\ cycle - 300 * n > 0
             /\ y * cycle <= 100 * (cycle - 300 * n)
  <1> DEFINE d == 100 - y
             a == 100 * (450 * n + 500)
             cycle == webster_optimal_cycle(y, LostTimePerPhase * n)
  <1>1. (3 * (300 * n)) \div 2 = 450 * n
    OBVIOUS
  <1>2. cycle = a \div d
    BY <1>1 DEF webster_optimal_cycle, LostTimePerPhase
  <1>3. d \in Nat \ {0} /\ d <= 99 /\ a \in Nat /\ a = 45000 * n + 50000
    OBVIOUS
  <1> HIDE DEF d, a, cycle
  <1>4. cycle \in Int /\ d * cycle <= a /\ a < d * cycle + d
    BY <1>2, <1>3, QuotientIs
  <1>5. d * cycle \in Int /\ d * cycle > 30000 * n
    BY <1>3, <1>4
  <1>6. cycle > 300 * n
    <2>1. CASE cycle <= 300 * n
      <3>1. d * cycle <= d * (300 * n)
        BY <1>3, <1>4, <2>1, TimesOrder
      <3>2. d * (300 * n) <= 99 * (300 * n)
        BY <1>3, TimesOrder
      <3>3. d * (300 * n) \in Int
        BY <1>3
      <3>. QED  BY <1>5, <3>1, <3>2, <3>3
    <2>. QED  BY <1>4, <2>1
  <1>7. y * cycle = 100 * cycle - d * cycle
    <2>1. \A c \in Int : y * c = 100 * c - (100 - y) * c
      OBVIOUS
    <2>. QED  BY <1>4, <2>1 DEF d
  <1>8. cycle \in Nat /\ cycle - 300 * n > 0 /\ y * cycle <= 100 * (cycle - 300 * n)
    BY <1>4, <1>5, <1>6, <1>7
  <1>. QED  BY <1>8 DEF cycle

(* A share e * r / y, rounded down, of the effective green. *)
LEMMA ShareIs ==
  ASSUME NEW y \in 1 .. 99, NEW e \in Nat, NEW c \in Nat, NEW r \in Nat, y * c <= 100 * e
  PROVE  /\ (e * r) \div y \in Int
         /\ y * ((e * r) \div y) <= e * r
         /\ 100 * ((e * r) \div y + 1) >= r * c
  <1> DEFINE g == (e * r) \div y
  <1>1. e * r \in Nat /\ y \in Nat \ {0}
    OBVIOUS
  <1>2. g \in Int /\ y * g <= e * r /\ e * r < y * g + y
    BY <1>1, QuotientIs
  <1> HIDE DEF g
  <1>3. r * (y * c) <= r * (100 * e)
    <2>1. y * c \in Int /\ 100 * e \in Int
      OBVIOUS
    <2>. QED  BY <2>1, TimesOrder
  <1>4. y * (r * c) <= y * (100 * (g + 1))
    <2>1. y * (r * c) = r * (y * c) /\ r * (100 * e) = 100 * (e * r)
      OBVIOUS
    <2>2. y * (100 * (g + 1)) = 100 * (y * g + y)
      BY <1>2
    <2>3. y * g \in Int
      BY <1>2
    <2>. QED  BY <1>1, <1>2, <1>3, <2>1, <2>2, <2>3
  <1>5. r * c <= 100 * (g + 1)
    <2>1. r * c \in Int /\ 100 * (g + 1) \in Int
      BY <1>2
    <2>. QED  BY <1>1, <1>4, <2>1, TimesCancel
  <1>. QED  BY <1>2, <1>5 DEF g

MoreDelay(c, y) == webster_delay(c, 40, y \div 2, 1800) <= webster_delay(c, 40, y, 1800)

LEMMA DelayGrows == ASSUME NEW y \in 1 .. 99, NEW c \in Nat  PROVE MoreDelay(c, y)
  <1> DEFINE h == y \div 2
  <1>1. h \in 0 .. 49 /\ h <= y
    OBVIOUS
  <1> HIDE DEF h
  <1> DEFINE a  == c * (100 - 40) * (100 - 40)
             b  == 2 * (10000 - 40 * h)
             d  == 2 * (10000 - 40 * y)
  <1>2. a \in Nat /\ b \in Nat \ {0} /\ d \in Nat \ {0} /\ d <= b
    BY <1>1
  <1> DEFINE p == 3600 * h * h
             q == 2 * 1800 * (100 - h)
             r == 3600 * y * y
             s == 2 * 1800 * (100 - y)
  <1>3. p \in Nat /\ q \in Nat \ {0} /\ r \in Nat /\ s \in Nat \ {0} /\ s <= q
    BY <1>1
  <1>4. p <= r
    <2>1. h * h <= h * y /\ h * y <= y * y
      BY <1>1, TimesOrder
    <2>2. h * h \in Int /\ h * y \in Int /\ y * y \in Int
      BY <1>1
    <2>3. p = 3600 * (h * h) /\ r = 3600 * (y * y)
      BY <1>1
    <2>. QED  BY <2>1, <2>2, <2>3
  <1>5. webster_delay(c, 40, h, 1800) = a \div b + p \div q
    BY DEF webster_delay
  <1>6. webster_delay(c, 40, y, 1800) = a \div d + r \div s
    BY DEF webster_delay
  <1> HIDE DEF a, b, d, p, q, r, s
  <1>7. a \div b <= a \div d
    <2>1. a * d <= a * b
      BY <1>2, TimesOrder
    <2>. QED  BY <1>2, <2>1, FractionOrder
  <1>8. p \div q <= r \div s
    <2>1. p * s <= p * q /\ p * q <= r * q
      BY <1>3, <1>4, TimesOrder
    <2>2. p * s \in Int /\ p * q \in Int /\ r * q \in Int
      BY <1>3
    <2>3. p * s <= r * q
      BY <2>1, <2>2
    <2>. QED  BY <1>3, <2>3, FractionOrder
  <1>9. a \div b \in Int /\ a \div d \in Int /\ p \div q \in Int /\ r \div s \in Int
    BY <1>2, <1>3, QuotientIs
  <1>. QED  BY <1>5, <1>6, <1>7, <1>8, <1>9 DEF h, MoreDelay

(* Little's law: the queue is the rate times the time waited. *)
Little(y) ==
  (y * 1800 * avg_delay(y, 1800)) \div 36000 \in avg_queue_length(y) - 6 .. avg_queue_length(y) + 1

LEMMA LittlesLaw == ASSUME NEW y \in 1 .. 99  PROVE Little(y)
  <1> DEFINE d == 100 - y
             w == avg_delay(y, 1800)
             l == avg_queue_length(y)
             q == (y * 1800 * w) \div 36000
             z == y * y
  <1>1. d \in Nat \ {0} /\ y \in Nat \ {0} /\ z \in Nat
    OBVIOUS
  <1>2. w = (360000 * y) \div (2 * 1800 * d) /\ l = (10 * y * y) \div (2 * d)
    BY DEF avg_delay, avg_queue_length
  <1> HIDE DEF d, w, l
  <1>3. w \in Int /\ d * w <= 100 * y /\ 100 * y < d * w + d
    <2> DEFINE e == 2 * 1800 * d
               n == 360000 * y
    <2>1. e = 3600 * d
      BY <1>1, SMT
    <2>0. n \in Int /\ e \in Nat \ {0}
      BY <1>1, <2>1, SMT
    <2>2. w = n \div e
      BY <1>2
    <2> HIDE DEF e, n
    <2>3. w \in Int /\ e * w <= n /\ n < e * w + e
      BY <2>0, <2>2, QuotientIs
    <2>4. e * w = 3600 * (d * w) /\ d * w \in Int
      BY <1>1, <2>1, <2>3, SMT
    <2>5. n = 3600 * (100 * y)
      BY <1>1, SMT DEF n
    <2>. QED  BY <1>1, <2>1, <2>3, <2>4, <2>5, SMT
  <1>4. l \in Int /\ d * l <= 5 * z /\ 5 * z < d * l + d
    <2> DEFINE e == 2 * d
               n == 10 * y * y
    <2>0. n \in Int /\ e \in Nat \ {0}
      BY <1>1, SMT
    <2>1. n = 10 * z
      OBVIOUS
    <2>b. l = n \div e
      BY <1>2
    <2> HIDE DEF e, n
    <2>a. l \in Int /\ e * l <= n /\ n < e * l + e
      BY <2>0, <2>b, QuotientIs
    <2>2. l \in Int /\ (2 * d) * l <= 10 * z /\ 10 * z < (2 * d) * l + 2 * d
      BY <2>1, <2>a DEF e
    <2>3. (2 * d) * l = 2 * (d * l) /\ d * l \in Int
      BY <1>1, <2>2
    <2>. QED  BY <1>1, <2>2, <2>3
  <1>5. q \in Int /\ 20 * q <= y * w /\ y * w < 20 * q + 20
    <2>1. y * 1800 * w \in Int /\ y * 1800 * w = 1800 * (y * w) /\ y * w \in Int
      BY <1>1, <1>3
    <2>2. q \in Int /\ 36000 * q <= y * 1800 * w /\ y * 1800 * w < 36000 * q + 36000
      BY <2>1, QuotientIs, SMT
    <2>. QED  BY <2>1, <2>2, SMT
  <1> HIDE DEF q, z
  <1>6. y * (d * w) <= 100 * z /\ 100 * z <= y * (d * w) + y * d
    <2>1. d * w \in Int /\ 100 * y \in Int /\ d * w + d \in Int
      BY <1>1, <1>3
    <2>2. y * (d * w) <= y * (100 * y) /\ y * (100 * y) <= y * (d * w + d)
      BY <1>1, <1>3, <2>1, TimesOrder
    <2>3. y * (100 * y) = 100 * z /\ y * (d * w + d) = y * (d * w) + y * d
      BY <1>1, <2>1 DEF z
    <2>. QED  BY <2>2, <2>3
  <1>7. d * (20 * q) <= y * (d * w) /\ y * (d * w) <= d * (20 * q + 20)
    <2>1. d * (20 * q) <= d * (y * w) /\ d * (y * w) <= d * (20 * q + 20)
      <3>1. y * w \in Int /\ 20 * q \in Int /\ 20 * q + 20 \in Int
        BY <1>1, <1>3, <1>5
      <3>. QED  BY <1>1, <1>5, <3>1, TimesOrder
    <2>2. d * (y * w) = y * (d * w)
      BY <1>1, <1>3
    <2>. QED  BY <2>1, <2>2
  <1> DEFINE dq == d * q
             dl == d * l
             yd == y * d
             u  == y * (d * w)
  <1>8. /\ d * (20 * q) = 20 * dq /\ d * (20 * q + 20) = 20 * dq + 20 * d
        /\ dq \in Int /\ dl \in Int /\ yd \in Int /\ u \in Int
    BY <1>1, <1>3, <1>4, <1>5
  <1>9. yd <= 99 * d
    BY <1>1, TimesOrder
  <1>10. d * (l + 1) = dl + d /\ d * (q + 6) = dq + 6 * d /\ q + 1 \in Int
    BY <1>1, <1>4, <1>5
  <1>11. dq < dl + d /\ dl < dq + 6 * d
    <2> HIDE DEF dq, dl, yd, u
    <2>. QED  BY <1>1, <1>4, <1>6, <1>7, <1>8, <1>9 DEF dl, yd, u
  <1>12. q <= l + 1
    BY <1>1, <1>4, <1>5, <1>10, <1>11, TimesCancel
  <1>13. l <= q + 6
    BY <1>1, <1>4, <1>5, <1>10, <1>11, TimesCancel
  <1>. QED  BY <1>4, <1>5, <1>12, <1>13 DEF q, w, l, Little

(* However many phases there are. *)
LEMMA GreensAre ==
  ASSUME NEW ratios \in Seq(Nat)
  PROVE  GreensServeDemand(ratios)
  <1> DEFINE n     == Len(ratios)
             y     == Total(ratios)
             cycle == webster_optimal_cycle(y, LostTimePerPhase * n)
             e     == cycle - 300 * n
             green == allocate_green_times(cycle, ratios)
  <1>1. /\ n \in Nat /\ DOMAIN ratios = 1 .. n /\ IsFiniteSet(1 .. n)
        /\ \A i \in 1 .. n : ratios[i] \in Nat
    <2>1. n \in Int /\ 1 \in Int /\ n \in Nat
      OBVIOUS
    <2>2. IsFiniteSet(1 .. n)
      BY <2>1, FS_Interval
    <2>3. DOMAIN ratios = 1 .. n /\ \A i \in 1 .. n : ratios[i] \in Nat
      OBVIOUS
    <2>. QED  BY <2>1, <2>2, <2>3
  <1>2. y = SumOn(ratios, 1 .. n)
    BY <1>1 DEF Total, FoldFunction, SumOn
  <1>3. SUFFICES ASSUME y \in 1 .. 99
                 PROVE  /\ \A i \in DOMAIN ratios : 100 * (green[i] + 1) >= ratios[i] * cycle
                        /\ Total(green) + 300 * n <= cycle
                        /\ MoreDelay(cycle, y) /\ Little(y)
    BY DEF GreensServeDemand, LostTimePerPhase, MoreDelay, Little
  <1> HIDE DEF n, y
  <1>4. n \in Nat \ {0}
    <2>1. CASE n = 0
      <3>1. 1 .. n = {}
        BY <2>1
      <3>2. y = 0
        BY <1>2, <3>1, SumEmpty
      <3>. QED  BY <1>3, <3>2
    <2>. QED  BY <1>1, <2>1
  <1>a. y \in Nat \ {0} /\ y \in 1 .. 99
    BY <1>3
  <1>5. cycle \in Nat /\ e > 0 /\ y * cycle <= 100 * e
    <2>1. /\ webster_optimal_cycle(y, LostTimePerPhase * n) \in Nat
          /\ webster_optimal_cycle(y, LostTimePerPhase * n) - 300 * n > 0
          /\ y * webster_optimal_cycle(y, LostTimePerPhase * n)
               <= 100 * (webster_optimal_cycle(y, LostTimePerPhase * n) - 300 * n)
      BY <1>a, <1>4, CycleIs
    <2>. QED  BY <2>1
  <1>6. green = [i \in 1 .. n |-> (e * ratios[i]) \div y]
    <2>1. /\ cycle - LostTimePerPhase * Len(ratios) = e
          /\ FoldFunction(+, 0, ratios) = y
      BY DEF n, y, Total, LostTimePerPhase
    <2>0. e \in Int
      BY <1>1, <1>5
    <2> HIDE DEF cycle, e
    <2>2. ~(e <= 0 \/ y <= 0)
      BY <1>a, <1>5, <2>0
    <2>. QED  BY <1>1, <2>1, <2>2 DEF allocate_green_times
  <1> HIDE DEF cycle, green
  <1>7. e \in Nat
    BY <1>1, <1>5
  <1> HIDE DEF e
  <1>8. \A i \in 1 .. n : /\ green[i] \in Int
                          /\ y * green[i] <= e * ratios[i]
                          /\ 100 * (green[i] + 1) >= ratios[i] * cycle
    BY <1>1, <1>3, <1>5, <1>6, <1>7, ShareIs
  <1>9. Total(green) \in Int /\ Total(green) <= e
    <2>1. Total(green) = SumOn(green, 1 .. n)
      BY <1>6 DEF Total, FoldFunction, SumOn
    <2>2. SumOn(green, 1 .. n) \in Int
      BY <1>1, <1>8, SumInt
    <2>3. y * SumOn(green, 1 .. n) <= e * SumOn(ratios, 1 .. n)
      <3>1. y \in Int /\ e \in Int /\ \A i \in 1 .. n : green[i] \in Int /\ ratios[i] \in Int
        BY <1>1, <1>3, <1>7, <1>8
      <3>. QED  BY <1>1, <1>8, <3>1, SumOrder
    <2>4. y * SumOn(green, 1 .. n) <= y * e
      BY <1>2, <1>3, <1>7, <2>3
    <2>5. SumOn(green, 1 .. n) <= e
      BY <1>3, <1>7, <2>2, <2>4, TimesCancel
    <2>. QED  BY <2>1, <2>2, <2>5
  <1>10. Total(green) + 300 * n <= cycle
    BY <1>1, <1>5, <1>9 DEF e
  <1>11. MoreDelay(cycle, y)
    BY <1>3, <1>5, DelayGrows
  <1>12. Little(y)
    BY <1>3, LittlesLaw
  <1>. QED  BY <1>1, <1>8, <1>10, <1>11, <1>12

-----------------------------------------------------------------------------
(* What a situation scores.                                                *)

(* The scene is chosen once. *)
SceneInv == evalPlan = "score" => scene \in ScenePool

LEMMA SceneStep == ASSUME SceneInv, [EvalNext]_evalVars PROVE SceneInv'
  BY DEF SceneInv, EvalNext, Decide, PolicyStep, Reward, evalVars

LEMMA SceneInvariance == EvalSpec => []SceneInv
  <1>1. EvalInit => SceneInv
    BY DEF EvalInit, SceneInv
  <1>. QED  BY <1>1, SceneStep, PTL DEF EvalSpec

(* Whatever the situation, however many lanes and phases the crossing has:  *)
(* the reward functions and the formulas for cycle, split, delay and queue  *)
(* ask for what a traffic engineer would.                                  *)
THEOREM RewardsAreSound == BrainSpec => []FormulasServeDemand
  <1>1. SceneInv => FormulasServeDemand
    <2> SUFFICES ASSUME SceneInv, evalPlan = "score"
                 PROVE  RewardsPreferService(scene) /\ GreensServeDemand(scene.ratios)
      BY DEF FormulasServeDemand
    <2>1. scene \in ScenePool
      BY DEF SceneInv
    <2>2. scene.ratios \in Seq(Nat)
      BY <2>1, SceneAssumption DEF SceneAssumption
    <2>. QED  BY <2>1, <2>2, SceneAssumption, ServicePreferred, GreensAre
  <1>. QED  BY <1>1, SceneInvariance, JobsApart, PTL

-----------------------------------------------------------------------------
(* What switching costs a policy.                                          *)

(* Whatever a policy answers is corrected to a phase. *)
LEMMA AsksType ==
  ASSUME NEW action \in 0 .. 3, NEW phase \in {0, 1}
  PROVE  Corrected(action, phase) \in {0, 1}
  BY DEF Corrected

(* The single junction: its phase is held for whole decisions. *)
Held5 == [phase : {0, 1}, held : {0, 5, 10, 15}]

LEMMA ObeyIs ==
  ASSUME NEW l \in Held5, NEW asks \in {0, 1}
  PROVE  LET shows == Obey(l, asks)
         IN  /\ shows \in Held5
             /\ \/ shows.phase # l.phase /\ asks # l.phase /\ shows.phase = asks /\ shows.held = 5
                \/ shows.phase = l.phase /\ asks = l.phase
                \/ shows.phase = l.phase /\ asks # l.phase /\ shows.held \in {5, 10}
  BY DEF Obey, Held5, Within, HeldBound, Settled, YellowTime, DeltaTime

(* A request against the last one costs half of the full penalty or more    *)
(* while the phase has not been held for longer than ten seconds.          *)
LEMMA ChargeIs ==
  ASSUME NEW last \in {-1, 0, 1}, NEW asks \in {0, 1}, NEW held \in {0, 5, 10, 15}
  PROVE  /\ InRange(Charge(last, asks, held), 0, FullPenalty)
         /\ last # -1 /\ last # asks /\ held \in {5, 10} =>
              2 * Charge(last, asks, held) >= FullPenalty
  <1> DEFINE before == IF last = -1 THEN asks ELSE last
  <1>1. before \in Int /\ asks \in Int /\ held \in Nat \cup {-1}
    OBVIOUS
  <1>2. flicker_penalty(before, asks, held) =
          IF asks = before \/ held = -1 \/ held > 15 THEN 0
          ELSE IF held < 5 THEN -1200 ELSE -(1200 - 120 * (held - 5))
    <2> HIDE DEF before
    <2>. QED  BY <1>1, FlickerIs
  <1>3. Charge(last, asks, held) = -flicker_penalty(before, asks, held)
    BY DEF Charge
  <1>. QED  BY <1>2, <1>3 DEF InRange, FullPenalty

(* From the first change on, whenever the charges since the last one do not *)
(* make half of the full penalty, the last action is the phase that is      *)
(* shown: asking for the other one is then compared with it.               *)
Account ==
  /\ clock \in Nat
  /\ bill = [charged |-> bill.charged, changes |-> bill.changes, unpaid |-> bill.unpaid]
  /\ InRange(bill.charged, 0, FullPenalty)
  /\ bill.changes \in Nat /\ bill.changes <= clock
  /\ bill.unpaid \subseteq {1} /\ (bill.changes = 0 => bill.unpaid = {})

BillInv ==
  /\ Account
  /\ evalPlan = "policy" =>
       /\ lights \in [{1} -> Held5] /\ asked \in [{1} -> {-1, 0, 1}]
       /\ bill.changes > 0 /\ 2 * bill.charged < FullPenalty => asked[1] = lights[1].phase

(* At the beginning of an episode. *)
NotBilled ==
  clock = 0 /\ bill = NoBill /\ lights = FreshLights /\ asked = [i \in Lights |-> -1]

LEMMA NothingBilled == NotBilled => BillInv
  <1>. SUFFICES ASSUME NotBilled  PROVE BillInv
    OBVIOUS
  <1>. USE DEF NotBilled
  <1>1. evalPlan = "policy" => Lights = {1}
    BY DEF Lights
  <1>2. Account
    BY DEF NoBill, Account, InRange, FullPenalty
  <1>. QED  BY <1>1, <1>2 DEF NoBill, FreshLights, Held5, BillInv

(* One decision of a policy. *)
LEMMA PolicyBilled ==
  ASSUME BillInv, PolicyStep, ~StartAgain
  PROVE  BillInv'
  <1>1. PICK action \in 0 .. 3 :
          LET asks  == Corrected(action, lights[1].phase)
              shown == Obey(lights[1], asks)
              cost  == Charge(asked[1], asks, shown.held)
              due   == IF cost > bill.charged THEN cost ELSE bill.charged
          IN  /\ clock' = clock + 1
              /\ lights' = [i \in Lights |-> shown]
              /\ asked' = [i \in Lights |-> asks]
              /\ bill' = Billed(due, shown.phase # lights[1].phase)
    BY DEF PolicyStep
  <1> DEFINE asks  == Corrected(action, lights[1].phase)
             shown == Obey(lights[1], asks)
             cost  == Charge(asked[1], asks, shown.held)
             due   == IF cost > bill.charged THEN cost ELSE bill.charged
  <1>2. evalPlan = "policy" /\ evalPlan' = "policy" /\ Lights = {1}
    BY DEF PolicyStep, Lights
  <1>3. lights[1] \in Held5 /\ asked[1] \in {-1, 0, 1} /\ lights[1].phase \in {0, 1}
    BY <1>2 DEF BillInv, Held5
  <1>4. asks \in {0, 1}
    BY <1>3, AsksType
  <1>5. /\ clock' = clock + 1
        /\ lights' = [i \in {1} |-> shown] /\ asked' = [i \in {1} |-> asks]
        /\ bill' = Billed(due, shown.phase # lights[1].phase)
    BY <1>1, <1>2
  <1> HIDE DEF asks
  <1>6. /\ shown \in Held5
        /\ \/ shown.phase # lights[1].phase /\ asks # lights[1].phase /\ shown.phase = asks
              /\ shown.held = 5
           \/ shown.phase = lights[1].phase /\ asks = lights[1].phase
           \/ shown.phase = lights[1].phase /\ asks # lights[1].phase /\ shown.held \in {5, 10}
    BY <1>3, <1>4, ObeyIs
  <1> HIDE DEF shown
  <1>7. /\ InRange(cost, 0, FullPenalty)
        /\ asked[1] # -1 /\ asked[1] # asks /\ shown.held \in {5, 10} => 2 * cost >= FullPenalty
    <2>1. shown.held \in {0, 5, 10, 15}
      BY <1>6 DEF Held5
    <2>. QED  BY <1>3, <1>4, <2>1, ChargeIs
  <1> HIDE DEF cost
  <1>8. /\ bill = [charged |-> bill.charged, changes |-> bill.changes, unpaid |-> bill.unpaid]
        /\ InRange(bill.charged, 0, FullPenalty)
        /\ bill.changes \in Nat /\ bill.changes <= clock /\ clock \in Nat
        /\ bill.unpaid \subseteq {1} /\ (bill.changes = 0 => bill.unpaid = {})
        /\ bill.changes > 0 /\ 2 * bill.charged < FullPenalty => asked[1] = lights[1].phase
    BY <1>2 DEF BillInv, Account
  <1>9. InRange(due, 0, FullPenalty) /\ due >= cost /\ due >= bill.charged
    BY <1>7, <1>8 DEF InRange
  <1> HIDE DEF due
  <1>a. \A n \in Nat : n # 0 => n > 0
    OBVIOUS
  <1>10. bill.changes > 0 /\ asks # lights[1].phase /\ shown.held \in {5, 10} =>
           2 * due >= FullPenalty
    <2>1. InRange(bill.charged, 0, FullPenalty) /\ InRange(cost, 0, FullPenalty) /\ FullPenalty \in Int
      BY <1>7, <1>8 DEF FullPenalty
    <2>2. CASE 2 * bill.charged >= FullPenalty
      BY <1>9, <2>1, <2>2 DEF InRange
    <2>3. CASE ~(2 * bill.charged >= FullPenalty) /\ bill.changes > 0 /\ asks # lights[1].phase
               /\ shown.held \in {5, 10}
      <3>1. 2 * bill.charged < FullPenalty
        BY <2>1, <2>3 DEF InRange
      <3>2. asked[1] # -1 /\ asked[1] # asks
        BY <1>3, <1>8, <2>3, <3>1
      <3>. QED  BY <1>7, <1>9, <2>1, <2>3, <3>2 DEF InRange
    <2>. QED  BY <2>2, <2>3
  <1>11. CASE shown.phase = lights[1].phase
    <2>1. bill' = [charged |-> due, changes |-> bill.changes, unpaid |-> bill.unpaid]
      BY <1>5, <1>8, <1>11 DEF Billed
    <2>2. bill.changes > 0 /\ 2 * due < FullPenalty => asks = shown.phase
      BY <1>6, <1>9, <1>10, <1>11 DEF InRange, FullPenalty
    <2>3. Account'
      BY <1>5, <1>8, <1>9, <2>1 DEF Account, FullPenalty
    <2>. QED  BY <1>2, <1>4, <1>5, <1>6, <2>1, <2>2, <2>3 DEF BillInv, FullPenalty
  <1>12. CASE shown.phase # lights[1].phase
    <2>1. asks = shown.phase /\ shown.held = 5 /\ asks # lights[1].phase
      BY <1>6, <1>12
    <2>2. bill' = [charged |-> 0, changes |-> bill.changes + 1,
                   unpaid |-> IF 2 * due >= FullPenalty THEN bill.unpaid
                              ELSE bill.unpaid \cup {bill.changes + 1}]
      BY <1>5, <1>12 DEF Billed
    <2>3. bill'.unpaid \subseteq {1}
      <3>1. CASE bill.changes = 0
        BY <1>8, <2>2, <3>1
      <3>2. CASE bill.changes # 0
        BY <1>8, <1>a, <1>10, <2>1, <2>2, <3>2
      <3>. QED  BY <3>1, <3>2
    <2>4. Account'
      BY <1>5, <1>8, <2>2, <2>3 DEF Account, InRange, FullPenalty
    <2>. QED  BY <1>2, <1>4, <1>5, <1>6, <2>1, <2>2, <2>4 DEF BillInv, FullPenalty
  <1>. QED  BY <1>11, <1>12

LEMMA BillStep == ASSUME BillInv, [EvalNext]_evalVars PROVE BillInv'
  <1>1. CASE (Decide \/ PolicyStep) /\ StartAgain
    <2>1. Lights' = Lights
      BY <1>1 DEF Decide, PolicyStep, Lights
    <2>2. NotBilled'
      BY <1>1, <2>1 DEF StartAgain, FreshLights, NoBill, NotBilled
    <2>. QED  BY <2>2, NothingBilled, PTL
  <1>2. CASE PolicyStep /\ ~StartAgain
    BY <1>2, PolicyBilled
  <1>3. CASE Decide /\ ~StartAgain
    <2>1. evalPlan' = evalPlan /\ evalPlan # "policy" /\ bill' = bill /\ clock' = clock + 1
      BY <1>3 DEF Decide
    <2>. QED  BY <2>1 DEF BillInv, Account
  <1>4. CASE Reward \/ UNCHANGED evalVars
    BY <1>4 DEF Reward, evalVars, BillInv, Account
  <1>. QED  BY <1>1, <1>2, <1>3, <1>4 DEF EvalNext

LEMMA BillInvariance == EvalSpec => []BillInv
  <1>1. EvalInit => BillInv
    BY NothingBilled DEF EvalInit, NotBilled
  <1>. QED  BY <1>1, BillStep, PTL DEF EvalSpec

LEMMA BillRanges ==
  ASSUME BillInv
  PROVE  /\ bill.charged \in 0 .. FullPenalty
         /\ bill.changes \in 0 .. clock
         /\ bill.unpaid \subseteq 1 .. bill.changes
  BY DEF BillInv, Account, InRange, FullPenalty

(* Whatever a policy answers, for as long as it likes: after the first      *)
(* change of an episode the light never changes for less than half of the  *)
(* full penalty.                                                           *)
THEOREM EverySwitchIsCharged == BrainSpec => []SwitchesAreCharged
  <1>1. BillInv => SwitchesAreCharged
    BY DEF BillInv, Account, SwitchesAreCharged
  <1>. QED  BY <1>1, BillInvariance, JobsApart, PTL

-----------------------------------------------------------------------------
(* The types of the world.                                                 *)

WorldTyped ==
  /\ WorldTypeOK
  /\ film \in [Cameras -> Seq(SUBSET (Tracks \cup {-1}))]
  /\ worldPc # "simulate" => vehicles = <<>>

LEMMA WorldTypedInit == ASSUME WorldInit PROVE WorldTyped
  <1>1. worldPc \in {"film", "compile", "routes", "simulate", "failed"}
    BY WorldAssumption DEF WorldInit, WorldAssumption, FirstWorldStep
  <1>2. film = [c \in Cameras |-> <<>>] /\ \A c \in Cameras : Len(film[c]) <= MaxFrames
    BY WorldAssumption DEF WorldInit, WorldAssumption
  <1>3. film \in [Cameras -> Seq(SUBSET (Tracks \cup {-1}))]
    BY <1>2
  <1>4. Len(vehicles) <= Cardinality(Cameras) * Cardinality(Tracks)
    <2>1. Cardinality(Cameras) * Cardinality(Tracks) \in Nat
      BY VehiclesAre
    <2>. QED  BY <2>1 DEF WorldInit
  <1>. QED  BY <1>1, <1>2, <1>3, <1>4 DEF WorldInit, WorldTyped, WorldTypeOK

LEMMA WorldTypedStep ==
  ASSUME WorldInv, WorldTyped, [WorldNext]_worldVars PROVE WorldTyped'
  <1>1. CASE Compile
    BY <1>1 DEF Compile, WorldTyped, WorldTypeOK
  <1>2. CASE WriteFlows
    <2>1. \A f \in flows' : f.probability \in 0 .. Certain
      BY <1>2, FlowsDrive DEF Drives
    <2>. QED  BY <1>2, <2>1 DEF WriteFlows, WorldTyped, WorldTypeOK
  <1>3. CASE FilmEnds
    BY <1>3 DEF FilmEnds, WorldTyped, WorldTypeOK
  <1>4. ASSUME NEW c \in Cameras, TrackFrame(c)  PROVE WorldTyped'
    <2>1. PICK seen \in SUBSET (Tracks \cup {-1}) : film' = [film EXCEPT ![c] = Append(@, seen)]
      BY <1>4 DEF TrackFrame
    <2>2. /\ film[c] \in Seq(SUBSET (Tracks \cup {-1})) /\ Len(film[c]) < MaxFrames
          /\ MaxFrames \in Nat
      BY <1>4, WorldAssumption DEF WorldTyped, TrackFrame, WorldAssumption
    <2>3. /\ Append(film[c], seen) \in Seq(SUBSET (Tracks \cup {-1}))
          /\ Len(Append(film[c], seen)) <= MaxFrames
      BY <2>2
    <2>4. /\ film' \in [Cameras -> Seq(SUBSET (Tracks \cup {-1}))]
          /\ \A d \in Cameras : Len(film'[d]) <= MaxFrames
      BY <2>1, <2>3 DEF WorldTyped, WorldTypeOK
    <2>. QED  BY <1>4, <2>4 DEF TrackFrame, WorldTyped, WorldTypeOK
  <1>5. CASE WriteVehicles
    <2> DEFINE all == UNION { extract_vehicles(c) : c \in Cameras }
    <2>1. /\ IsFiniteSet(all) /\ Cardinality(all) <= Cardinality(Cameras) * Cardinality(Tracks)
          /\ worldPc = "routes"
      BY <1>5, VehiclesAre DEF WriteVehicles
    <2>2. \/ worldPc' = "failed" /\ vehicles' = vehicles
          \/ worldPc' = "simulate" /\ vehicles' \in InDepartureOrder(all)
      BY <1>5 DEF WriteVehicles
    <2> HIDE DEF all
    <2>3. Len(vehicles') <= Cardinality(Cameras) * Cardinality(Tracks)
      <3>1. CASE vehicles' = vehicles
        BY <3>1 DEF WorldTyped, WorldTypeOK
      <3>2. CASE vehicles' \in InDepartureOrder(all)
        <4>1. Cardinality(all) \in Nat /\ vehicles' \in [1 .. Cardinality(all) -> all]
          BY <2>1, <3>2, FS_CardinalityType DEF InDepartureOrder
        <4>2. Len(vehicles') = Cardinality(all)
          BY <4>1
        <4>. QED  BY <2>1, <4>2
      <3>. QED  BY <2>2, <3>1, <3>2
    <2>. QED  BY <1>5, <2>1, <2>2, <2>3 DEF WriteVehicles, WorldTyped, WorldTypeOK
  <1>6. CASE UNCHANGED worldVars
    BY <1>6 DEF worldVars, WorldTyped, WorldTypeOK
  <1>. QED  BY <1>1, <1>2, <1>3, <1>4, <1>5, <1>6 DEF WorldNext

LEMMA WorldsAreTyped == WorldSpec => []WorldTypeOK
  <1>1. WorldInit => WorldTyped
    BY WorldTypedInit
  <1>2. WorldInv /\ WorldTyped /\ [WorldNext]_worldVars => WorldTyped'
    BY WorldTypedStep
  <1>3. WorldTyped => WorldTypeOK
    BY DEF WorldTyped
  <1>. QED  BY <1>1, <1>2, <1>3, WorldInvariance, PTL DEF WorldSpec

-----------------------------------------------------------------------------
(* The types of the search.                                                *)

SearchStage == searchPc \in {"build", "search", "walk", "found", "no_path"}

LEMMA SearchStageStep == ASSUME SearchStage, [SearchNext]_searchVars PROVE SearchStage'
  BY DEF SearchStage, SearchNext, searchVars, add_road, shortest_path, Visit, HeapEmpty, WalkBack

LEMMA SearchRanges == ASSUME SearchInv, SearchStage PROVE SearchTypeOK
  <1>1. SearchNumbers /\ Infinity \in Nat /\ IsFiniteSet(Places) /\ path \in Seq(Places)
    BY SearchAssumption DEF SearchInv, SearchAssumption, Walked
  <1>2. \A e \in heap : e[1] \in 0 .. Infinity /\ e[2] \in Places
    BY <1>1 DEF SearchNumbers
  <1>3. Len(path) <= Cardinality(Places)
    <2> DEFINE m == Len(path)
    <2>1. /\ m \in Nat /\ path \in [1 .. m -> Places]
          /\ \A i, j \in 1 .. m : i # j => path[i] # path[j]
      BY <1>1, PathVisitsOnce
    <2>2. path \in Injection(1 .. m, Places)
      BY <2>1 DEF Injection, IsInjective
    <2>3. Cardinality(1 .. m) <= Cardinality(Places)
      BY <1>1, <2>2, FS_Injection
    <2>4. 1 \in Int /\ m \in Int
      BY <2>1
    <2>5. Cardinality(1 .. m) = m
      <3> HIDE DEF m
      <3>1. Cardinality(1 .. m) = IF 1 > m THEN 0 ELSE m - 1 + 1
        BY <2>4, FS_Interval
      <3>. QED  BY <2>1, <3>1
    <2>. QED  BY <2>3, <2>5
  <1>. QED  BY <1>1, <1>2, <1>3 DEF SearchTypeOK, SearchStage, SearchNumbers

LEMMA SearchIsTyped == SearchSpec => []SearchTypeOK
  <1>1. SearchInit => SearchStage
    BY DEF SearchInit, SearchStage
  <1>2. SearchStage /\ [SearchNext]_searchVars => SearchStage'
    BY SearchStageStep
  <1>3. SearchInv /\ SearchStage => SearchTypeOK
    BY SearchRanges
  <1>. QED  BY <1>1, <1>2, <1>3, SearchInvariance, PTL DEF SearchSpec

-----------------------------------------------------------------------------
(* The types of the evaluation.                                            *)

(* What the account of BillInv does not range over. *)
EvalTyped ==
  /\ evalPlan \in {"baseline", "fixed", "wave", "policy", "score"}
  /\ length \in Nat /\ clock \in Nat /\ clock <= length
  /\ lights \in [Lights -> LightType]
  /\ asked \in [Lights -> -1 .. 1]
  /\ trail \in Seq({0, 1}) /\ Len(trail) <= clock
  /\ baseline \in [phase : {0, 1}, elapsed : {0, 5, 10, 15, 20, 25}]
  /\ reward.value \in -FullReward .. 0

LEMMA RewardBound == FullReward \in Nat /\ FullReward = 12000
  BY DEF FullReward

LEMMA AdvanceType ==
  ASSUME NEW b \in [phase : {0, 1}, elapsed : {0, 5, 10, 15, 20, 25}]
  PROVE  Advance(b) \in [phase : {0, 1}, elapsed : {0, 5, 10, 15, 20, 25}]
  BY DEF Advance, PhaseGreen, DeltaTime

LEMMA ObeyType ==
  ASSUME NEW l \in LightType, NEW action \in {0, 1}
  PROVE  /\ Corrected(action, l.phase) \in {0, 1}
         /\ Obey(l, Corrected(action, l.phase)) \in LightType
  <1>1. Corrected(action, l.phase) \in {0, 1}
    BY DEF Corrected, LightType
  <1>2. ASSUME NEW a \in {0, 1}  PROVE Obey(l, a) \in LightType
    BY DEF Obey, LightType, Within, HeldBound, Settled, YellowTime, DeltaTime
  <1>. QED  BY <1>1, <1>2

(* Every plan asks for a phase of each signal. *)
LEMMA DecisionType ==
  ASSUME EvalTyped, NEW i \in Lights
  PROVE  Decision(i) \in {0, 1}
  <1>1. Planned(i) \in {0, 1}
    BY DEF Planned, PlanPhase
  <1>. QED  BY <1>1 DEF Decision, EvalTyped

LEMMA EvalTypedInit == ASSUME EvalInit PROVE EvalTyped
  <1>1. evalPlan \in {"baseline", "fixed", "wave", "policy", "score"} /\ length \in Nat
    BY EvalAssumption DEF EvalAssumption, EvalInit
  <1>2. reward.value \in -FullReward .. 0
    BY RewardBound DEF EvalInit, NoReward
  <1>3. lights \in [Lights -> LightType]
    BY DEF EvalInit, FreshLights, LightType, HeldBound
  <1>4. baseline \in [phase : {0, 1}, elapsed : {0, 5, 10, 15, 20, 25}]
    BY DEF EvalInit, FreshBaseline
  <1>5. /\ clock = 0 /\ asked \in [Lights -> -1 .. 1]
        /\ trail = <<>>
    BY DEF EvalInit
  <1>. QED  BY <1>1, <1>2, <1>3, <1>4, <1>5 DEF EvalTyped

LEMMA StartTyped ==
  ASSUME EvalTyped, StartAgain,
         UNCHANGED <<evalPlan, length, scene, reward>>
  PROVE  EvalTyped'
  <1>1. Lights' = Lights
    BY DEF Lights
  <1>2. lights' \in [Lights -> LightType] /\ asked' \in [Lights -> -1 .. 1]
    BY DEF StartAgain, FreshLights, LightType, HeldBound
  <1>3. /\ baseline' \in [phase : {0, 1}, elapsed : {0, 5, 10, 15, 20, 25}]
        /\ clock' = 0 /\ trail' = <<>>
    BY DEF StartAgain, FreshBaseline
  <1>. QED  BY <1>1, <1>2, <1>3 DEF EvalTyped

LEMMA DecideTyped == ASSUME EvalTyped, Decide PROVE EvalTyped'
  <1> DEFINE corrected == [i \in Lights |-> Corrected(Decision(i), lights[i].phase)]
             shown     == [i \in Lights |-> Obey(lights[i], corrected[i])]
  <1>1. /\ evalPlan' = evalPlan /\ length' = length /\ reward' = reward /\ Lights' = Lights
        /\ UNCHANGED <<evalPlan, length, scene, reward>>
    BY DEF Decide, Lights
  <1>2. IF clock + 1 < length
        THEN /\ clock' = clock + 1
             /\ lights' = shown
             /\ asked' = corrected
             /\ trail' = IF evalPlan = "wave" THEN Append(trail, shown[1].phase) ELSE trail
             /\ baseline' = IF evalPlan = "baseline" THEN Advance(baseline) ELSE baseline
        ELSE StartAgain
    BY DEF Decide
  <1>3. CASE ~(clock + 1 < length)
    BY <1>1, <1>2, <1>3, StartTyped
  <1>4. CASE clock + 1 < length
    <2>1. \A i \in Lights : lights[i] \in LightType /\ Decision(i) \in {0, 1}
      BY DecisionType DEF EvalTyped
    <2>2. corrected \in [Lights -> {0, 1}] /\ shown \in [Lights -> LightType]
      BY <2>1, ObeyType
    <2>3. /\ clock' = clock + 1 /\ lights' = shown /\ asked' = corrected
          /\ trail' = IF evalPlan = "wave" THEN Append(trail, shown[1].phase) ELSE trail
          /\ baseline' = IF evalPlan = "baseline" THEN Advance(baseline) ELSE baseline
      BY <1>2, <1>4
    <2> HIDE DEF corrected, shown
    <2>4. asked' \in [Lights -> -1 .. 1]
      BY <2>2, <2>3
    <2>5. shown[1].phase \in {0, 1}
      <3>1. 1 \in Lights
        BY DEF Lights
      <3>. QED  BY <2>2, <3>1 DEF LightType
    <2>6. trail' \in Seq({0, 1}) /\ Len(trail') <= clock'
      BY <2>3, <2>5 DEF EvalTyped
    <2>7. baseline' \in [phase : {0, 1}, elapsed : {0, 5, 10, 15, 20, 25}]
      BY <2>3, AdvanceType DEF EvalTyped
    <2>8. clock' \in Nat /\ clock' <= length
      BY <1>4, <2>3 DEF EvalTyped
    <2>. QED  BY <1>1, <2>2, <2>3, <2>4, <2>6, <2>7, <2>8 DEF EvalTyped
  <1>. QED  BY <1>3, <1>4

LEMMA PolicyTyped == ASSUME EvalTyped, PolicyStep PROVE EvalTyped'
  <1>1. /\ evalPlan' = evalPlan /\ length' = length /\ reward' = reward /\ Lights' = Lights
        /\ UNCHANGED <<evalPlan, length, scene, reward>> /\ 1 \in Lights
    BY DEF PolicyStep, Lights
  <1>2. CASE StartAgain
    BY <1>1, <1>2, StartTyped
  <1>3. CASE ~StartAgain
    <2>1. PICK asks :
            /\ \E action \in 0 .. 3 : asks = Corrected(action, lights[1].phase)
            /\ clock + 1 < length /\ clock' = clock + 1
            /\ lights' = [i \in Lights |-> Obey(lights[1], asks)]
            /\ asked' = [i \in Lights |-> asks]
            /\ UNCHANGED <<trail, baseline>>
      BY <1>3 DEF PolicyStep
    <2>2. lights[1] \in LightType
      BY <1>1 DEF EvalTyped
    <2>3. asks \in {0, 1}
      BY <2>1, <2>2, AsksType DEF LightType
    <2>4. Obey(lights[1], asks) \in LightType
      BY <2>2, <2>3 DEF Obey, LightType, Within, HeldBound, Settled, YellowTime, DeltaTime
    <2>5. lights' \in [Lights -> LightType] /\ asked' \in [Lights -> -1 .. 1]
      BY <2>1, <2>3, <2>4
    <2>6. clock' \in Nat /\ clock' <= length /\ Len(trail') <= clock'
      BY <2>1 DEF EvalTyped
    <2>. QED  BY <1>1, <2>1, <2>5, <2>6 DEF EvalTyped
  <1>. QED  BY <1>2, <1>3

LEMMA Tenfold == ASSUME NEW x, InRange(x, -1200, 0)  PROVE InRange(10 * x, -12000, 0)
  BY DEF InRange

LEMMA Sixfold ==
  ASSUME NEW d, InRange(d, -1200, 0), NEW x, InRange(x, 6 * d - 4800, 6 * d - 1) \/ x = 6 * d
  PROVE  InRange(x, -12000, 0)
  BY DEF InRange

LEMMA SmartDelayRange ==
  ASSUME NEW q \in Shares, NEW w \in Nat  PROVE InRange(smart_delay(q, w, 0), -12000, 0)
  <1>1. 0 \in {0, 1}
    OBVIOUS
  <1>2. \/ InRange(smart_delay(q, w, 0), 6 * delay(w) - 4800, 6 * delay(w) - 1)
        \/ smart_delay(q, w, 0) = 6 * delay(w)
    BY <1>1, SmartDelayIs
  <1>3. InRange(delay(w), -1200, 0)
    BY DelayIs
  <1>. QED  BY <1>2, <1>3, Sixfold

LEMMA CompositeRange ==
  ASSUME NEW q \in Shares, NEW d \in Shares, NEW held \in Nat \cup {-1}, NEW fed \in SUBSET (0 .. 20)
  PROVE  InRange(composite(q, d, 1, 0, held, fed), -12000, 0)
  <1>1. 0 \in Int /\ 1 \in Int
    OBVIOUS
  <1>2. InRange(composite(q, d, 1, 0, held, fed), WorstComposite, 0)
    BY <1>1, CompositeIs, Zenon
  <1>. QED  BY <1>2 DEF InRange, WorstComposite

(* No function scores better than nothing or worse than its weights allow. *)
LEMMA RewardRange ==
  ASSUME NEW s, s.queue \in Shares, s.density \in Shares, s.waiting \in Nat,
         s.held \in Nat \cup {-1}, \A lane \in DOMAIN s.outs : s.outs[lane] \in 0 .. 20,
         NEW fn \in RewardFns
  PROVE  InRange(compute_reward(fn, s, 0, 1), -12000, 0)
  <1>1. CASE fn = "pressure"
    <2>1. pressure(s.queue, s.density) \in -240 .. 0
      BY PressureIs
    <2>2. InRange(pressure(s.queue, s.density), -1200, 0)
      BY <2>1 DEF InRange
    <2>. QED  BY <1>1, <2>2, Tenfold DEF compute_reward
  <1>2. CASE fn = "queue"
    BY <1>2, QueueLengthIs, Tenfold DEF compute_reward
  <1>3. CASE fn = "delay"
    BY <1>3, DelayIs, Tenfold DEF compute_reward
  <1>4. CASE fn = "smart_delay"
    BY <1>4, SmartDelayRange DEF compute_reward
  <1>5. CASE fn = "composite"
    <2> DEFINE fed == served_downstream_occupancies(s.signals, s.links, s.outs)
    <2>1. compute_reward(fn, s, 0, 1) = composite(s.queue, s.density, 1, 0, s.held, fed)
      BY <1>5 DEF compute_reward
    <2>2. fed \in SUBSET (0 .. 20)
      BY FedIs
    <2> HIDE DEF fed
    <2>3. InRange(composite(s.queue, s.density, 1, 0, s.held, fed), -12000, 0)
      BY <2>2, CompositeRange
    <2>. QED  BY <2>1, <2>3
  <1>. QED  BY <1>1, <1>2, <1>3, <1>4, <1>5 DEF RewardFns

LEMMA FullRange == ASSUME NEW r, InRange(r, -12000, 0)  PROVE r \in -FullReward .. 0
  <1>1. r \in Int /\ -12000 <= r /\ r <= 0
    BY DEF InRange
  <1>2. -FullReward \in Int /\ -FullReward <= r
    BY <1>1, RewardBound
  <1>. QED  BY <1>1, <1>2

LEMMA RewardTyped == ASSUME EvalTyped, SceneInv, Reward PROVE EvalTyped'
  <1>1. PICK fn \in RewardFns : reward' = [fn |-> fn, value |-> compute_reward(fn, scene, 0, 1)]
    BY DEF Reward
  <1>2. scene \in ScenePool
    BY DEF SceneInv, Reward
  <1>3. reward'.value \in -FullReward .. 0
    <2>1. /\ scene.queue \in Shares /\ scene.density \in Shares /\ scene.waiting \in Nat
          /\ scene.held \in Nat \cup {-1}
          /\ \A lane \in DOMAIN scene.outs : scene.outs[lane] \in 0 .. 20
      BY <1>2, SceneAssumption DEF SceneAssumption, Shares
    <2>2. InRange(compute_reward(fn, scene, 0, 1), -12000, 0)
      BY <2>1, RewardRange
    <2>. QED  BY <1>1, <2>2, FullRange
  <1>4. Lights' = Lights
    BY DEF Reward, Lights
  <1>. QED  BY <1>3, <1>4 DEF Reward, EvalTyped

LEMMA EvalIsTyped == EvalSpec => []EvalTypeOK
  <1>1. EvalInit => EvalTyped
    BY EvalTypedInit
  <1>2. EvalTyped /\ SceneInv /\ [EvalNext]_evalVars => EvalTyped'
    <2> SUFFICES ASSUME EvalTyped, SceneInv, [EvalNext]_evalVars  PROVE EvalTyped'
      OBVIOUS
    <2>1. CASE UNCHANGED evalVars
      BY <2>1 DEF evalVars, EvalTyped, Lights
    <2>. QED  BY <2>1, DecideTyped, PolicyTyped, RewardTyped DEF EvalNext
  <1>3. EvalTyped /\ BillInv => EvalTypeOK
    <2> SUFFICES ASSUME EvalTyped, BillInv  PROVE EvalTypeOK
      OBVIOUS
    <2>1. baseline \in [phase : {0, 1}, elapsed : 0 .. PhaseGreen - DeltaTime]
      BY DEF EvalTyped, PhaseGreen, DeltaTime
    <2>2. lights \in [Lights -> [phase : {0, 1}, held : 0 .. HeldBound]]
      BY DEF EvalTyped, LightType
    <2>3. /\ bill.charged \in 0 .. FullPenalty
          /\ bill.changes \in 0 .. clock
          /\ bill.unpaid \subseteq 1 .. bill.changes
      BY BillRanges DEF EvalTyped
    <2>. QED  BY <2>1, <2>2, <2>3 DEF EvalTyped, EvalTypeOK
  <1>. QED  BY <1>1, <1>2, <1>3, SceneInvariance, BillInvariance, PTL DEF EvalSpec

-----------------------------------------------------------------------------
(* The types of the pilot.                                                 *)

(* A finite set of integers has a greatest one.                            *)
LEMMA GreatestIs ==
  ASSUME NEW S, \A x \in S : x \in Int, IsFiniteSet(S), S # {}
  PROVE  Max(S) \in S
  <1> DEFINE F == {t \in SUBSET S : \E x \in S : \A y \in S : y \in t <=> y >= x}
  <1>1. F # {}
    <2>1. PICK x \in S : TRUE
      OBVIOUS
    <2>2. {y \in S : y >= x} \in F
      OBVIOUS
    <2>. QED  BY <2>2
  <1>2. PICK m \in F : \A s \in F : s \subseteq m => s = m
    <2>1. F \subseteq SUBSET S
      OBVIOUS
    <2> HIDE DEF F
    <2>. QED  BY <1>1, <2>1, SmallestSet
  <1>3. PICK x \in S : \A y \in S : y \in m <=> y >= x
    OBVIOUS
  <1>4. ASSUME NEW y \in S  PROVE x >= y
    <2> SUFFICES ASSUME y > x  PROVE FALSE
      OBVIOUS
    <2> DEFINE t == {z \in S : z >= y}
    <2>1. t \in F
      OBVIOUS
    <2>2. x \in Int /\ y \in Int
      OBVIOUS
    <2>3. x \in m /\ ~(x \in t)
      BY <1>3, <2>2
    <2>4. t \subseteq m
      <3> SUFFICES ASSUME NEW z \in S, z >= y  PROVE z \in m
        OBVIOUS
      <3>1. z \in Int /\ z >= x
        BY <2>2
      <3>. QED  BY <1>3, <3>1
    <2> HIDE DEF t, F
    <2>. QED  BY <1>2, <2>1, <2>3, <2>4
  <1>. QED  BY <1>4 DEF Max

LEMMA DetectCounts ==
  ASSUME NEW frame \in Seq(Nat)  PROVE Cardinality(detect(frame)) \in Nat
  <1>1. detect(frame) \subseteq 1 .. Len(frame) /\ Len(frame) \in Int /\ 1 \in Int
    BY DEF detect
  <1>2. IsFiniteSet(1 .. Len(frame))
    BY <1>1, FS_Interval
  <1>. QED  BY <1>1, <1>2, FS_Subset, FS_CardinalityType

LEMMA AggregateType ==
  ASSUME NEW alive \in SUBSET PilotCameras, NEW seen \in [alive -> Frames]
  PROVE  Aggregate(seen) \in [Directions -> Nat]
  <1> SUFFICES ASSUME NEW d \in Directions  PROVE Aggregate(seen)[d] \in Nat
    BY DEF Aggregate
  <1> DEFINE X == {x \in DOMAIN seen : d \in Faces[x]}
             T == {Cardinality(detect(seen[c])) : c \in X}
             f == [c \in X |-> Cardinality(detect(seen[c]))]
  <1>1. T \subseteq Nat
    BY DetectCounts, PilotAssumption DEF PilotAssumption
  <1>2. IsFiniteSet(X)
    BY FS_Subset, PilotAssumption DEF PilotAssumption
  <1>3. f \in Surjection(X, T)
    BY DEF Surjection
  <1> HIDE DEF X, f
  <1>4. IsFiniteSet(T)
    BY <1>2, <1>3, FS_Surjection
  <1>5. Aggregate(seen)[d] = Max({0} \cup T)
    BY DEF Aggregate, X
  <1> HIDE DEF T
  <1>6. IsFiniteSet({0} \cup T)
    BY <1>4, FS_AddElement
  <1>7. {0} \cup T \subseteq Nat /\ (\A x \in {0} \cup T : x \in Int) /\ {0} \cup T # {}
    BY <1>1
  <1>8. Max({0} \cup T) \in {0} \cup T
    BY <1>6, <1>7, GreatestIs
  <1>. QED  BY <1>5, <1>7, <1>8

(* A decision is due only in a frame that is there, and what the pilot      *)
(* follows is one of its phases.                                           *)
PilotTyped ==
  /\ pilotPc \in {"read", "decide", "follow", "closed"}
  /\ frame_idx \in Nat /\ frame_idx <= MaxFrame
  /\ pilotPc \in {"decide", "follow"} => frame_idx < MaxFrame
  /\ wall \in Nat /\ wall <= MaxWall
  /\ dir_counts \in [Directions -> Nat]
  /\ current_phase \in {0, 1} /\ builder.phase \in {0, 1}
  /\ builder.since \in Nat /\ builder.since <= wall
  /\ Len(log) <= MaxRecords
  /\ pilotPc = "follow" => Latest.action \in {0, 1}

LEMMA PilotTypedInit == ASSUME PilotInit PROVE PilotTyped
  <1>1. /\ pilotPc = "read" /\ frame_idx = 0 /\ wall = 0 /\ dir_counts = Nothing
        /\ current_phase = 0 /\ builder.phase = 0 /\ builder.since = 0 /\ Len(log) = 0
    BY DEF PilotInit
  <1>2. Nothing \in [Directions -> Nat]
    BY DEF Nothing
  <1>. QED  BY <1>1, <1>2, PilotAssumption DEF PilotTyped, PilotAssumption

LEMMA PilotTypedStep ==
  ASSUME PilotInv, PilotTyped, [PilotNext]_pilotVars  PROVE PilotTyped'
  <1>0. /\ DecisionInterval \in Nat /\ MaxFrame \in Nat /\ MaxWall \in Nat /\ MaxRecords \in Nat
        /\ FrameGaps \subseteq Nat
    BY PilotAssumption DEF PilotAssumption
  <1>1. CASE ReadFrames
    <2>1. /\ UNCHANGED <<current_phase, builder, log>> /\ frame_idx < MaxFrame
          /\ \/ pilotPc' = "decide" /\ frame_idx' = frame_idx
             \/ pilotPc' = "read" /\ frame_idx' = frame_idx + 1
      BY <1>1 DEF ReadFrames
    <2>2. dir_counts' \in [Directions -> Nat]
      BY <1>1, AggregateType DEF ReadFrames
    <2>3. PICK gap \in FrameGaps : wall + gap <= MaxWall /\ wall' = wall + gap
      BY <1>1 DEF ReadFrames
    <2>4. wall' \in Nat /\ wall' <= MaxWall /\ wall <= wall' /\ builder.since <= wall'
      BY <1>0, <2>3 DEF PilotTyped
    <2>5. frame_idx' \in Nat /\ frame_idx' <= MaxFrame /\ (pilotPc' = "decide" => frame_idx' < MaxFrame)
      BY <1>0, <2>1 DEF PilotTyped
    <2>. QED  BY <2>1, <2>2, <2>4, <2>5 DEF PilotTyped
  <1>2. CASE VideosEnd
    BY <1>2 DEF VideosEnd, PilotTyped
  <1>3. CASE Recommend
    <2>1. /\ pilotPc = "decide" /\ pilotPc' = "follow" /\ Len(log) < MaxRecords
          /\ UNCHANGED <<frame_idx, wall, dir_counts, current_phase, builder>>
      BY <1>3 DEF Recommend
    <2>2. PICK argmax \in 0 .. 2 : log' = Append(log, Record(Action(argmax)))
      BY <1>3 DEF Recommend
    <2>3. Action(argmax) \in {0, 1} /\ Record(Action(argmax)).action = Action(argmax)
      BY DEF Action, Cap, Record
    <2>4. PICK S : log \in Seq(S)
      BY DEF PilotInv
    <2>5. Len(log) \in Nat /\ Len(log') = Len(log) + 1
          /\ log'[Len(log) + 1] = Record(Action(argmax))
      BY <2>2, <2>4, AppendToLog
    <2>6. Latest'.action \in {0, 1} /\ Len(log') <= MaxRecords
      BY <1>0, <2>1, <2>3, <2>5 DEF Latest
    <2>. QED  BY <2>1, <2>6 DEF PilotTyped
  <1>4. CASE Follow
    <2>1. /\ pilotPc = "follow" /\ pilotPc' = "read" /\ frame_idx' = frame_idx + 1
          /\ UNCHANGED <<wall, dir_counts, log>>
      BY <1>4 DEF Follow
    <2>2. Latest.action \in {0, 1}
      BY <2>1 DEF PilotTyped
    <2>3. /\ current_phase' \in {0, 1} /\ builder'.phase \in {0, 1}
          /\ builder'.since \in {builder.since, wall}
      <3>1. CASE Latest.action = current_phase
        BY <1>4, <3>1 DEF Follow, Latest, PilotTyped
      <3>2. CASE Latest.action # current_phase
        <4>1. current_phase' = Latest.action /\ builder' = set_phase(Latest.action)
          BY <1>4, <3>2 DEF Follow, Latest
        <4>. QED  BY <2>2, <4>1 DEF set_phase, PilotTyped
      <3>. QED  BY <3>1, <3>2
    <2>4. builder'.since \in Nat /\ builder'.since <= wall
      BY <2>3 DEF PilotTyped
    <2>5. frame_idx' \in Nat /\ frame_idx' <= MaxFrame
      BY <1>0, <2>1 DEF PilotTyped
    <2>. QED  BY <2>1, <2>3, <2>4, <2>5 DEF PilotTyped
  <1>5. CASE PilotRestarts
    <2>1. /\ pilotPc' = "read" /\ frame_idx' = 0 /\ dir_counts' = Nothing /\ current_phase' = 0
          /\ builder' = [phase |-> 0, since |-> wall] /\ wall' = wall /\ log' = log
      BY <1>5 DEF PilotRestarts
    <2>2. Nothing \in [Directions -> Nat] /\ 0 <= MaxFrame /\ 0 \in {0, 1} /\ 0 \in Nat
      BY <1>0 DEF Nothing
    <2>3. builder'.phase = 0 /\ builder'.since = wall /\ wall <= wall
      BY <2>1 DEF PilotTyped
    <2>. QED  BY <2>1, <2>2, <2>3 DEF PilotTyped
  <1>6. CASE UNCHANGED pilotVars
    BY <1>6 DEF pilotVars, PilotTyped, Latest
  <1>. QED  BY <1>1, <1>2, <1>3, <1>4, <1>5, <1>6 DEF PilotNext

LEMMA PilotIsTyped == PilotSpec => []PilotTypeOK
  <1>1. PilotInv /\ PilotTyped /\ [PilotNext]_pilotVars => PilotTyped'
    BY PilotTypedStep
  <1>2. PilotTyped => PilotTypeOK
    BY DEF PilotTyped, PilotTypeOK
  <1>3. PilotInv /\ [PilotNext]_pilotVars => PilotInv'
    BY ReadInv, EndInv, RecommendInv, FollowInv, RestartInv, PilotStutter, Zenon DEF PilotNext
  <1>. QED  BY PilotInitInv, PilotTypedInit, <1>1, <1>2, <1>3, PTL DEF PilotSpec

-----------------------------------------------------------------------------
(* The programs together.                                                  *)

(* Every program keeps its variables in their ranges, whatever worlds,      *)
(* scenes, frames and graphs it is given: the clocks and the counts within  *)
(* their bounds, a route no longer than the junctions, a reward between     *)
(* nothing and FullReward below it.                                        *)
THEOREM BrainTyped == BrainSpec => []BrainTypeOK
  <1>1. BrainInit => job \in Jobs
    BY DEF BrainInit
  <1>2. job \in Jobs /\ [BrainNext]_brainVars => (job \in Jobs)'
    BY DEF BrainNext, brainVars
  <1>3. job \in Jobs /\ WorldTypeOK /\ TrainTypeOK /\ EvalTypeOK /\ SearchTypeOK /\ PilotTypeOK
          => BrainTypeOK
    BY DEF BrainTypeOK
  <1>. QED
    BY <1>1, <1>2, <1>3, JobsApart, WorldsAreTyped, TrainingTyped, EvalIsTyped, SearchIsTyped,
       PilotIsTyped, PTL DEF BrainSpec
==============================================================================
