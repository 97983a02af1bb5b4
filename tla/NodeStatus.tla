---------------------------- MODULE NodeStatus ----------------------------
(***************************************************************************)
(* What the node tells of itself: the retained message on its status topic *)
(* (publish_alert() of edge/src/mqtt_client.cpp), sent from seven places   *)
(* of the control loop when the fixed cycle is engaged or given back.  An  *)
(* alert is lost when the link is down or Paho refuses it, and nobody      *)
(* sends it again.  At boot nothing is published: the topic still holds    *)
(* what a former process left there, or its disconnect().  A connection    *)
(* that breaks changes nothing: connect() assigns the options anew, so the *)
(* last will set_lwt() had put into them is gone.                          *)
(***************************************************************************)
EXTENDS EdgeNode

VARIABLES
  status,    \* the retained message: "none", "online", "degraded" or "offline"
  current    \* observer: this process has published, and no later alert was lost

statusVars == <<status, current>>
nodeVars   == <<vars, statusVars>>

Statuses == {"none", "online", "degraded", "offline"}

----------------------------------------------------------------------------

\* publish_alert(): the broker has it, or nobody.
Alert(s) ==
  /\ current' \in BOOLEAN
  /\ status' = IF current' THEN s ELSE status

Silent == UNCHANGED statusVars

\* MUTANT: a recovery is announced although another source holds the fixed cycle.
AnnounceAnyRecovery(recovered, released) == IF recovered THEN Alert("online") ELSE Silent
\* Only the recovery that gives the fixed cycle back is announced.
AnnounceRecovery(recovered, released) ==
  IF recovered /\ released THEN Alert("online") ELSE Silent

\* Only the failure that was not known yet is announced.
AnnounceFailure(failed, s) == IF failed THEN Alert(s) ELSE Silent

BrainDistrusted == EnterFallback /\ Alert("degraded")

BrainTrusted ==
  /\ ExitFallback
  /\ AnnounceRecovery(TRUE, is_camera_online /\ inference_online)

QueueEmptied == Drained /\ Silent

CameraReads ==
  /\ FrameRead
  /\ AnnounceRecovery(~is_camera_online, ~in_fallback /\ inference_online)

CameraFails ==
  /\ NoFrame
  /\ AnnounceFailure(is_camera_online /\ ~is_camera_online', "offline")

DetectorIdle == SkipDetection /\ Silent

DetectorFails == InferenceFault /\ AnnounceFailure(inference_online, "degraded")

DetectorWorks == Inferred /\ AnnounceRecovery(~inference_online, ~in_fallback)

PhaseDecided == (\E desired \in OperationalPhases : Decide(desired)) /\ Silent

PhaseApplied == Apply /\ Silent

Wait == Tick /\ Silent

----------------------------------------------------------------------------

StatusInit == Init /\ status \in Statuses /\ current = FALSE

StatusNext ==
  \/ BrainDistrusted \/ BrainTrusted \/ QueueEmptied
  \/ CameraReads \/ CameraFails
  \/ DetectorIdle \/ DetectorFails \/ DetectorWorks
  \/ PhaseDecided \/ PhaseApplied \/ Wait

\* The loop's fairness; the link owes nothing.
StatusFairness ==
  /\ WF_nodeVars(QueueEmptied)
  /\ WF_nodeVars(CameraReads \/ CameraFails)
  /\ WF_nodeVars(DetectorIdle \/ DetectorFails \/ DetectorWorks)
  /\ WF_nodeVars(PhaseDecided)
  /\ WF_nodeVars(PhaseApplied)
  /\ SF_nodeVars(Wait)

StatusSpec == StatusInit /\ [][StatusNext]_nodeVars
StatusFairSpec == StatusSpec /\ StatusFairness

----------------------------------------------------------------------------

\* What the operators read is what the interlock does: as long as no alert was lost
\* since the last one that arrived, the status is "online" exactly while the Brain
\* has the heads, in whatever order the three sources fail and recover.  Of the
\* terminal flash the status says nothing.
StatusTellsMode ==
  current /\ state \notin Safety!FlashStates => (status = "online" <=> ~emergency)

=============================================================================
