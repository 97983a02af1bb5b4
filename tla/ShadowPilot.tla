------------------------------ MODULE ShadowPilot ------------------------------
(***************************************************************************)
(* The shadow pilot (brain/scripts/yolo_inference.py): cameras are read in *)
(* lock step, vehicles counted, and every few frames the trained policy    *)
(* recommends a phase, which is logged and followed on paper: the          *)
(* recommendation becomes the phase of the next observation                *)
(* (brain/src/vision/obs_builder.py).                                      *)
(*                                                                         *)
(* The detector and the policy are external: a frame shows one of          *)
(* Frames, and the policy may answer anything.  The program may be stopped *)
(* at any point and started again on the same log.  Time is in seconds.    *)
(***************************************************************************)
EXTENDS Integers, Sequences, FiniteSets, FiniteSetsExt

CONSTANTS
  PilotCameras,      \* the cameras
  Faces,             \* Faces[c]: the directions camera c covers
  Frames,            \* what a frame may show: the classes of its objects
  DecisionInterval,  \* frames between two decisions
  FrameGaps,         \* seconds a frame may take
  MaxRecords,        \* bound on the log
  MaxFrame,          \* bound on the frames of one start
  MaxWall            \* bound on the clock

ASSUME PilotAssumption ==
  /\ DecisionInterval \in Nat \ {0}
  /\ FrameGaps \subseteq Nat
  /\ IsFiniteSet(PilotCameras) /\ Frames \subseteq Seq(Nat)
  /\ MaxRecords \in Nat /\ MaxFrame \in Nat /\ MaxWall \in Nat

VARIABLES
  pilotPc,       \* "read", "decide", "follow" or "closed"
  frame_idx,     \* frames processed since the start
  wall,          \* the wall clock
  dir_counts,    \* vehicles per direction in this frame
  current_phase, \* the phase the pilot shows
  builder,       \* the observation builder: its phase and since when
  log            \* the decision log

pilotVars == <<pilotPc, frame_idx, wall, dir_counts, current_phase, builder, log>>

Directions == {"N", "E", "S", "W"}
Nothing    == [d \in Directions |-> 0]

PilotTypeOK ==
  /\ pilotPc \in {"read", "decide", "follow", "closed"}
  /\ frame_idx \in 0 .. MaxFrame
  /\ wall \in 0 .. MaxWall
  /\ dir_counts \in [Directions -> Nat]
  /\ current_phase \in {0, 1}
  /\ builder.phase \in {0, 1} /\ builder.since \in 0 .. wall
  /\ Len(log) <= MaxRecords

PilotInit ==
  /\ pilotPc = "read"
  /\ frame_idx = 0 /\ wall = 0
  /\ dir_counts = Nothing
  /\ current_phase = 0
  /\ builder = [phase |-> 0, since |-> 0]
  /\ log = <<>>

-----------------------------------------------------------------------------
(* COCO classes of vehicles: car, motorcycle, bus, truck. *)
VehicleClasses == {2, 3, 5, 7}

(* The objects of a frame that are vehicles. *)
detect(frame) == { k \in DOMAIN frame : frame[k] \in VehicleClasses }

(* Each direction takes the largest count of the cameras that cover it; a  *)
(* camera without a frame counts nothing.                                  *)
Aggregate(seen) ==
  [d \in Directions |->
     Max({0} \cup { Cardinality(detect(seen[c])) : c \in { x \in DOMAIN seen : d \in Faces[x] } })]

(* The next frame of the cameras that have one; a decision is due in every *)
(* DecisionInterval-th frame.                                              *)
ReadFrames ==
  /\ pilotPc = "read"
  /\ frame_idx < MaxFrame
  /\ \E alive \in SUBSET PilotCameras \ {{}} : \E seen \in [alive -> Frames] :
       dir_counts' = Aggregate(seen)
  /\ \E gap \in FrameGaps : wall + gap <= MaxWall /\ wall' = wall + gap
  /\ IF frame_idx % DecisionInterval = 0
     THEN pilotPc' = "decide" /\ UNCHANGED frame_idx
     ELSE frame_idx' = frame_idx + 1 /\ UNCHANGED pilotPc
  /\ UNCHANGED <<current_phase, builder, log>>

(* No camera has a frame, or the frames asked for have been processed.     *)
VideosEnd ==
  /\ pilotPc = "read"
  /\ pilotPc' = "closed"
  /\ UNCHANGED <<frame_idx, wall, dir_counts, current_phase, builder, log>>

Cap(x, most) == IF x > most THEN most ELSE x

(* The canonical observation, queues in 20ths; densities are the queues    *)
(* again and the downstream occupancies are zero.                          *)
build ==
  [queues  |-> [d \in Directions |-> Cap(dir_counts[d], 20)],
   phase   |-> builder.phase,
   elapsed |-> Cap(wall - builder.since, 63)]

\* MUTANT: an action beyond the phases is not clamped.
ActionUnclamped(argmax) == argmax
(* The largest logit; a policy with more actions than phases is clamped.   *)
Action(argmax) == Cap(argmax, 1)

Record(action) ==
  [frame |-> frame_idx, ts |-> wall, counts |-> dir_counts, obs |-> build,
   action |-> action, phase_elapsed |-> wall - builder.since]

(* A decision is logged before the pilot follows it.                       *)
Recommend ==
  /\ pilotPc = "decide"
  /\ Len(log) < MaxRecords
  /\ \E argmax \in 0 .. 2 : log' = Append(log, Record(Action(argmax)))
  /\ pilotPc' = "follow"
  /\ UNCHANGED <<frame_idx, wall, dir_counts, current_phase, builder>>

\* MUTANT: the phase changes without its start.
set_phaseOnly(phase) == [builder EXCEPT !.phase = phase]
set_phase(phase) == IF phase # builder.phase THEN [phase |-> phase, since |-> wall] ELSE builder

Follow ==
  /\ pilotPc = "follow"
  /\ LET action == log[Len(log)].action
     IN  IF action # current_phase
         THEN current_phase' = action /\ builder' = set_phase(action)
         ELSE UNCHANGED <<current_phase, builder>>
  /\ frame_idx' = frame_idx + 1
  /\ pilotPc' = "read"
  /\ UNCHANGED <<wall, dir_counts, log>>

(* Started again, after a stop at any point, on the log as it is.          *)
PilotRestarts ==
  /\ pilotPc' = "read"
  /\ frame_idx' = 0
  /\ dir_counts' = Nothing
  /\ current_phase' = 0
  /\ builder' = [phase |-> 0, since |-> wall]
  /\ UNCHANGED <<wall, log>>

PilotNext == ReadFrames \/ VideosEnd \/ Recommend \/ Follow \/ PilotRestarts

PilotSpec == PilotInit /\ [][PilotNext]_pilotVars

-----------------------------------------------------------------------------
(* The log alone replays the pilot: a record either begins a start of the  *)
(* program, in the first phase, or comes one decision interval after the    *)
(* record before it, in the phase that one recommended, with the time of    *)
(* that phase counted from the record that changed it.                      *)
LogCoherent ==
  \A k \in DOMAIN log :
    LET now == log[k]
        old == log[k - 1]
    IN  \/ now.frame = 0 /\ now.obs.phase = 0
        \/ /\ k > 1
           /\ now.frame = old.frame + DecisionInterval
           /\ now.obs.phase = old.action
           /\ now.phase_elapsed =
                now.ts - old.ts + IF old.action = old.obs.phase THEN old.phase_elapsed ELSE 0
=============================================================================
