------------------------------ MODULE BrainJobs ------------------------------
(***************************************************************************)
(* The offline programs of the brain.  Each is a process of its own, run   *)
(* to its end by an operator, and none shares memory with another: job     *)
(* says which one a behaviour is about, and the variables of the others    *)
(* stay at their initial values.                                           *)
(***************************************************************************)
EXTENDS TrafficWorld, MappoTraining, JunctionEnvs, RoadSearch, ShadowPilot

CONSTANT Jobs   \* the programs checked

VARIABLE job    \* "world", "train", "eval", "search" or "pilot"

brainVars == <<job, worldVars, trainVars, evalVars, searchVars, pilotVars>>

BrainTypeOK ==
  /\ job \in Jobs
  /\ WorldTypeOK /\ TrainTypeOK /\ EvalTypeOK /\ SearchTypeOK /\ PilotTypeOK

BrainInit ==
  /\ job \in Jobs
  /\ WorldInit  /\ (job # "world"  => worldKind = "junction")
  /\ EvalInit   /\ (job # "eval"   => evalPlan = "baseline" /\ length = Min(EpisodeLengths))
  /\ TrainInit /\ SearchInit /\ PilotInit

BrainNext ==
  \/ /\ job = "world" /\ WorldNext
     /\ UNCHANGED <<job, trainVars, evalVars, searchVars, pilotVars>>
  \/ /\ job = "train" /\ TrainNext
     /\ UNCHANGED <<job, worldVars, evalVars, searchVars, pilotVars>>
  \/ /\ job = "eval" /\ EvalNext
     /\ UNCHANGED <<job, worldVars, trainVars, searchVars, pilotVars>>
  \/ /\ job = "search" /\ SearchNext
     /\ UNCHANGED <<job, worldVars, trainVars, evalVars, pilotVars>>
  \/ /\ job = "pilot" /\ PilotNext
     /\ UNCHANGED <<job, worldVars, trainVars, evalVars, searchVars>>

BrainSpec == BrainInit /\ [][BrainNext]_brainVars
=============================================================================
