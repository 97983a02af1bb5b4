----------------------------- MODULE MappoTraining -----------------------------
(***************************************************************************)
(* Training of the corridor's shared policy: the driver                    *)
(* (brain/scripts/train_mappo.py) with its curriculum callback, the        *)
(* corridor environment inside each rollout worker                         *)
(* (brain/src/environments/multi_intersection.py) and the export of the    *)
(* trained actor (brain/src/export/onnx_exporter.py).                      *)
(*                                                                         *)
(* RLlib is external: during an iteration it resets and steps the          *)
(* environments of its workers, in any order; it may raise, and it         *)
(* replaces a worker that died.  sumo_rl is external too: at each step it  *)
(* reports the signals that were eligible to act, any set of them.         *)
(***************************************************************************)
EXTENDS Integers

CONSTANTS
  Runners,          \* rollout workers, each with its own environment
  Signals,          \* the signals of the corridor, one agent each
  NumStages,        \* stages of the curriculum
  Iterations,       \* iterations asked for
  CheckpointEvery,  \* iterations between two checkpoints
  Patience          \* good iterations in a row that promote

ASSUME TrainingAssumption ==
  /\ NumStages \in Nat \ {0}
  /\ Iterations \in Nat \ {0}
  /\ CheckpointEvery \in Nat \ {0}
  /\ Patience \in Nat \ {0}

VARIABLES
  trainPc,     \* where the driver is
  iteration,   \* iterations completed
  checkpoint,  \* iterations the saved policy has seen
  policyFile,  \* iterations the actor exported by this training has seen, or -1
  stage,       \* stage the callback has unlocked
  goodIters,   \* good iterations in a row since the last promotion
  envStage,    \* envStage[r]: stage that environment r draws episodes for
  drawn,       \* drawn[r]: stage of the scenario of its episode, -1 before any
  live,        \* live[r]: an episode is running
  cache        \* cache[r][a]: what is known of signal a, see Seen

trainVars == <<trainPc, iteration, checkpoint, policyFile, stage, goodIters,
               envStage, drawn, live, cache>>
driverVars == <<trainPc, iteration, checkpoint, policyFile, stage, goodIters>>

(* A cached observation is the initial zeros, or was reported in this       *)
(* episode: by the last step, or by an earlier one if the signal was not    *)
(* eligible since.                                                          *)
Seen == {"zeros", "reported"}

TrainPcs == {"train", "callback", "save", "finally", "export", "done", "killed"}

TrainTypeOK ==
  /\ trainPc \in TrainPcs
  /\ iteration \in 0 .. Iterations
  /\ checkpoint \in 0 .. Iterations
  /\ policyFile \in -1 .. Iterations
  /\ stage \in 0 .. NumStages - 1
  /\ goodIters \in 0 .. Patience - 1
  /\ envStage \in [Runners -> 0 .. NumStages - 1]
  /\ drawn \in [Runners -> -1 .. NumStages - 1]
  /\ live \in [Runners -> BOOLEAN]
  /\ cache \in [Runners -> [Signals -> Seen]]

TrainInit ==
  /\ trainPc = "train"
  /\ iteration = 0 /\ checkpoint = 0 /\ policyFile = -1
  /\ stage = 0 /\ goodIters = 0
  /\ envStage = [r \in Runners |-> 0]
  /\ drawn = [r \in Runners |-> -1]
  /\ live = [r \in Runners |-> FALSE]
  /\ cache = [r \in Runners |-> [a \in Signals |-> "zeros"]]

-----------------------------------------------------------------------------
(* The environment.                                                        *)

(* Stages an episode may come from: sample_scenario mixes all stages up to  *)
(* the current one; sample_mixed_task_scenario takes the current one or, to *)
(* rehearse, an earlier one, with other odds.                               *)
InCurriculum(s) == IF s < 0 THEN 0 ELSE IF s > NumStages - 1 THEN NumStages - 1 ELSE s
\* MUTANT: the next stage is rehearsed already.
StagesAhead(s) == 0 .. InCurriculum(s + 1)
StagesOf(s) == 0 .. InCurriculum(s)

(* A new episode forgets what the last one saw before it absorbs what the   *)
(* new simulation reports.                                                  *)
Forget(seen) == [a \in Signals |-> "zeros"]

Absorb(reported, seen) == [a \in Signals |-> IF a \in reported THEN "reported" ELSE seen[a]]

(* reset(): draw a scenario, write its routes, start a fresh SUMO on them.  *)
EnvReset(r) ==
  /\ trainPc = "train"
  /\ \E s \in StagesOf(envStage[r]) : drawn' = [drawn EXCEPT ![r] = s]
  /\ \E reported \in SUBSET Signals :
       cache' = [cache EXCEPT ![r] = Absorb(reported, Forget(@))]
  /\ live' = [live EXCEPT ![r] = TRUE]
  /\ UNCHANGED <<driverVars, envStage>>

(* step(): absorb the eligible signals; the simulation may be over, and     *)
(* then the environment has no agents left.                                 *)
EnvStep(r) ==
  /\ trainPc = "train"
  /\ live[r]
  /\ \E reported \in SUBSET Signals : cache' = [cache EXCEPT ![r] = Absorb(reported, @)]
  /\ \E over \in BOOLEAN : live' = [live EXCEPT ![r] = ~over]
  /\ UNCHANGED <<driverVars, envStage, drawn>>

(* A worker that died comes back with the environment its config describes, *)
(* at the first stage.                                                      *)
RunnerRestarts(r) ==
  /\ trainPc = "train"
  /\ envStage' = [envStage EXCEPT ![r] = 0]
  /\ drawn' = [drawn EXCEPT ![r] = -1]
  /\ live' = [live EXCEPT ![r] = FALSE]
  /\ cache' = [cache EXCEPT ![r] = [a \in Signals |-> "zeros"]]
  /\ UNCHANGED driverVars

-----------------------------------------------------------------------------
(* The driver.                                                             *)

TrainReturns ==
  /\ trainPc = "train"
  /\ iteration < Iterations
  /\ trainPc' = "callback"
  /\ UNCHANGED <<iteration, checkpoint, policyFile, stage, goodIters,
                 envStage, drawn, live, cache>>

(* train() raises or the operator interrupts: the loop is left through its  *)
(* finally clause.                                                         *)
TrainRaises ==
  /\ trainPc \in {"train", "callback"}
  /\ trainPc' = "finally"
  /\ UNCHANGED <<iteration, checkpoint, policyFile, stage, goodIters,
                 envStage, drawn, live, cache>>

\* MUTANT: counted from zero, a checkpoint comes one iteration late.
AfterIterationLate(i) ==
  IF (i # 1 /\ (i - 1) % CheckpointEvery = 0) \/ i = Iterations THEN "save" ELSE "train"
AfterIteration(i) ==
  IF i % CheckpointEvery = 0 \/ i = Iterations THEN "save" ELSE "train"

(* A promotion tells the environments its stage; an exception on the way   *)
(* is swallowed, and only some of them have heard then.                    *)
Broadcast(s, heard) == [r \in Runners |-> IF r \in heard THEN s ELSE envStage[r]]

(* on_train_result(): no return reported or the last stage reached leaves  *)
(* everything; a return below the threshold starts the count again.        *)
on_train_result ==
  /\ trainPc = "callback"
  /\ iteration' = iteration + 1
  /\ trainPc' = AfterIteration(iteration + 1)
  /\ \/ UNCHANGED <<stage, goodIters, envStage>>
     \/ /\ stage < NumStages - 1
        /\ goodIters' = 0
        /\ UNCHANGED <<stage, envStage>>
     \/ /\ stage < NumStages - 1
        /\ goodIters + 1 < Patience
        /\ goodIters' = goodIters + 1
        /\ UNCHANGED <<stage, envStage>>
     \/ /\ stage < NumStages - 1
        /\ goodIters + 1 >= Patience
        /\ stage' = stage + 1
        /\ goodIters' = 0
        /\ \E heard \in SUBSET Runners : envStage' = Broadcast(stage + 1, heard)
  /\ UNCHANGED <<checkpoint, policyFile, drawn, live, cache>>

(* A checkpoint that cannot be written raises too.  RLlib is taken to write *)
(* a checkpoint whole or not at all.                                        *)
Save ==
  /\ trainPc = "save"
  /\ \/ checkpoint' = iteration /\ trainPc' = "train"
     \/ trainPc' = "finally" /\ UNCHANGED checkpoint
  /\ UNCHANGED <<iteration, policyFile, stage, goodIters, envStage, drawn, live, cache>>

LoopEnds ==
  /\ trainPc = "train"
  /\ iteration = Iterations
  /\ trainPc' = "finally"
  /\ UNCHANGED <<iteration, checkpoint, policyFile, stage, goodIters,
                 envStage, drawn, live, cache>>

SaveFinally ==
  /\ trainPc = "finally"
  /\ \/ checkpoint' = iteration /\ trainPc' = "export"
     \/ trainPc' = "killed" /\ UNCHANGED checkpoint
  /\ UNCHANGED <<iteration, policyFile, stage, goodIters, envStage, drawn, live, cache>>

(* The actor of the saved policy is exported and then compared with it;    *)
(* whatever fails there is reported and swallowed.                         *)
export_to_onnx ==
  /\ trainPc = "export"
  /\ policyFile' \in {policyFile, checkpoint}
  /\ trainPc' = "done"
  /\ UNCHANGED <<iteration, checkpoint, stage, goodIters, envStage, drawn, live, cache>>

(* The machine stops in the middle of anything.                            *)
Killed ==
  /\ trainPc \notin {"done", "killed"}
  /\ trainPc' = "killed"
  /\ UNCHANGED <<iteration, checkpoint, policyFile, stage, goodIters,
                 envStage, drawn, live, cache>>

DriverNext ==
  \/ TrainReturns \/ TrainRaises \/ on_train_result \/ Save \/ LoopEnds
  \/ SaveFinally \/ export_to_onnx

TrainNext ==
  \/ DriverNext \/ Killed
  \/ \E r \in Runners : EnvReset(r) \/ EnvStep(r) \/ RunnerRestarts(r)

TrainSpec == TrainInit /\ [][TrainNext]_trainVars

-----------------------------------------------------------------------------
(* No worker rehearses a scenario of a stage that is not unlocked, whatever *)
(* broadcasts are lost and workers restarted, and a stage is unlocked only  *)
(* after Patience good iterations in each stage before it.                  *)
UnlockedEpisodes ==
  /\ \A r \in Runners : drawn[r] <= stage
  /\ stage * Patience + goodIters <= iteration

(* A failure, an interruption or the loss of the machine costs at most the  *)
(* iterations since the last checkpoint; a run that was not killed         *)
(* ends with all its iterations saved and exports nothing older.            *)
CheckpointsKeepUp ==
  /\ checkpoint <= iteration
  /\ iteration - checkpoint <= CheckpointEvery
  /\ trainPc = "done" => checkpoint = iteration /\ policyFile \in {-1, checkpoint}
=============================================================================
