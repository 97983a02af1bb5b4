--------------------------- MODULE VideoPipeline ---------------------------
(***************************************************************************)
(* The capture hand-off of edge/src/pipeline.cpp between the control loop, *)
(* which reads frames and triggers reconnections, and the reconnect        *)
(* thread, which opens a capture of its own and swaps it in.  Every step   *)
(* is one critical section, one atomic store or one call into OpenCV.      *)
(***************************************************************************)
EXTENDS Naturals, FiniteSets

CONSTANTS
  Captures,   \* cv::VideoCapture objects; one is free again when nobody holds it
  None

ASSUME VideoPipelineAssumption ==
  /\ None \notin Captures
  /\ IsFiniteSet(Captures)
  /\ Cardinality(Captures) >= 3    \* live, being read, and freshly opened

VARIABLES
  \* shared
  live,              \* capture
  opened, is_reconnecting, stop,
  \* the reconnect thread
  worker,            \* "none" (not joinable), where it is, or "finished"
  fresh,             \* cap: the capture it has opened
  \* the control loop, and the teardown after it
  main,
  reader,            \* the reference read_frame() or release() holds
  timed_out,         \* no frame for more than 3 s
  \* external: the camera
  source_up,
  broken,            \* captures whose stream has ended
  closed             \* captures release() was called on

sharedVars == <<live, opened, is_reconnecting, stop>>
workerVars == <<worker, fresh>>
mainVars   == <<main, reader, timed_out>>
cameraVars == <<source_up, broken, closed>>
vars == <<sharedVars, workerVars, mainVars, cameraVars>>

Held == {live, fresh, reader} \ {None}

TypeOK ==
  /\ {live, fresh, reader} \subseteq Captures \cup {None}
  /\ {opened, is_reconnecting, stop, timed_out, source_up} \subseteq BOOLEAN
  /\ worker \in {"none", "backoff", "opening", "install", "publish", "clear",
                 "finished"}
  /\ main \in {"grab", "check", "reading", "failed", "join",
               "detach", "unopen", "destroy", "reap", "gone"}
  /\ broken \subseteq Captures
  /\ closed \subseteq Captures

----------------------------------------------------------------------------
(* read_frame(), called by the control loop. *)

\* Take a reference under the lock.
Grab ==
  /\ main = "grab"
  /\ reader' = live
  /\ main' = "check"
  /\ UNCHANGED <<sharedVars, workerVars, timed_out, cameraVars>>

Check ==
  /\ main = "check"
  /\ IF opened /\ reader # None /\ reader \notin closed
       THEN main' = "reading" /\ UNCHANGED reader
       ELSE main' = "failed" /\ reader' = None
  /\ UNCHANGED <<sharedVars, workerVars, timed_out, cameraVars>>

\* cap->read(), without the lock; the reference drops.
ReadReturns ==
  /\ main = "reading"
  /\ reader' = None
  /\ IF reader \in broken
       THEN main' = "failed" /\ UNCHANGED timed_out
       ELSE main' = "grab" /\ timed_out' = FALSE
  /\ UNCHANGED <<sharedVars, workerVars, cameraVars>>

----------------------------------------------------------------------------
(* The camera watchdog of the control loop. *)

WatchdogExpires ==
  /\ main = "failed"
  /\ ~timed_out
  /\ timed_out' = TRUE
  /\ UNCHANGED <<sharedVars, workerVars, main, reader, cameraVars>>

\* The frame is missing, but there is nothing to trigger.
Continue ==
  /\ main = "failed"
  /\ ~timed_out \/ is_reconnecting
  /\ main' = "grab"
  /\ UNCHANGED <<sharedVars, workerVars, reader, timed_out, cameraVars>>

\* trigger_reconnect_async(): only the control loop sets the flag.
Trigger ==
  /\ main = "failed"
  /\ timed_out
  /\ ~is_reconnecting
  /\ is_reconnecting' = TRUE
  /\ main' = "join"
  /\ UNCHANGED <<live, opened, stop, workerVars, reader, timed_out, cameraVars>>

\* The previous thread, if any, is reaped; then a new one starts.
JoinAndSpawn ==
  /\ main = "join"
  /\ worker \in {"none", "finished"}
  /\ worker' = "backoff"
  /\ main' = "grab"
  /\ UNCHANGED <<sharedVars, fresh, reader, timed_out, cameraVars>>

----------------------------------------------------------------------------
(* The reconnect thread. *)

BackedOff ==
  /\ worker = "backoff"
  /\ IF stop
       THEN worker' = "finished" /\ is_reconnecting' = FALSE
       ELSE worker' = "opening" /\ UNCHANGED is_reconnecting
  /\ UNCHANGED <<live, opened, stop, fresh, mainVars, cameraVars>>

Opened ==
  /\ worker = "opening"
  /\ source_up
  /\ \E c \in Captures \ Held :
       /\ fresh' = c
       /\ broken' = broken \ {c}
       /\ closed' = closed \ {c}
  /\ worker' = "install"
  /\ UNCHANGED <<sharedVars, mainVars, source_up>>

\* MUTANT: the failure path returns without clearing the flag.
OpenFailedForgetful ==
  /\ worker = "opening"
  /\ ~source_up
  /\ worker' = "finished"
  /\ UNCHANGED <<sharedVars, fresh, mainVars, cameraVars>>
OpenFailed ==
  /\ worker = "opening"
  /\ ~source_up
  /\ worker' = "clear"
  /\ UNCHANGED <<sharedVars, fresh, mainVars, cameraVars>>

\* MUTANT: the thread releases the capture it replaces.
InstallReleasing ==
  /\ worker = "install"
  /\ live' = fresh
  /\ closed' = closed \cup ({live} \ {None})
  /\ fresh' = None
  /\ worker' = "publish"
  /\ UNCHANGED <<opened, is_reconnecting, stop, mainVars, source_up, broken>>
\* install(): swap under the lock; the old capture goes when its last reader does.
Install ==
  /\ worker = "install"
  /\ live' = fresh
  /\ fresh' = None
  /\ worker' = "publish"
  /\ UNCHANGED <<opened, is_reconnecting, stop, mainVars, cameraVars>>

\* MUTANT: the flag is cleared before the thread is through.
PublishAndClear ==
  /\ worker = "publish"
  /\ opened' = TRUE
  /\ is_reconnecting' = FALSE
  /\ worker' = "clear"
  /\ UNCHANGED <<live, stop, fresh, mainVars, cameraVars>>
Publish ==
  /\ worker = "publish"
  /\ opened' = TRUE
  /\ worker' = "clear"
  /\ UNCHANGED <<live, is_reconnecting, stop, fresh, mainVars, cameraVars>>

Clear ==
  /\ worker = "clear"
  /\ is_reconnecting' = FALSE
  /\ worker' = "finished"
  /\ UNCHANGED <<live, opened, stop, fresh, mainVars, cameraVars>>

----------------------------------------------------------------------------
(* Shutdown: release() from the end of main(), then the destructor, which  *)
(* stops and joins the thread and releases once more.                      *)

Shutdown ==
  /\ main = "grab"
  /\ main' = "detach"
  /\ UNCHANGED <<sharedVars, workerVars, reader, timed_out, cameraVars>>

Detach ==
  /\ main = "detach"
  /\ reader' = live
  /\ live' = None
  /\ main' = "unopen"
  /\ UNCHANGED <<opened, is_reconnecting, stop, workerVars, timed_out, cameraVars>>

Unopen ==
  /\ main = "unopen"
  /\ opened' = FALSE
  /\ closed' = closed \cup ({reader} \ {None})
  /\ reader' = None
  /\ main' = IF stop THEN "gone" ELSE "destroy"
  /\ UNCHANGED <<live, is_reconnecting, stop, workerVars, timed_out, source_up, broken>>

Destroy ==
  /\ main = "destroy"
  /\ stop' = TRUE
  /\ main' = "reap"
  /\ UNCHANGED <<live, opened, is_reconnecting, workerVars, reader, timed_out, cameraVars>>

\* MUTANT: the destructor detaches the thread instead of joining it.
ReapWithoutJoin ==
  /\ main = "reap"
  /\ main' = "detach"
  /\ UNCHANGED <<sharedVars, workerVars, reader, timed_out, cameraVars>>
Reap ==
  /\ main = "reap"
  /\ worker \in {"none", "finished"}
  /\ worker' = "none"
  /\ main' = "detach"
  /\ UNCHANGED <<sharedVars, fresh, reader, timed_out, cameraVars>>

----------------------------------------------------------------------------
(* The camera. *)

\* Every open stream ends, and stays ended: only a new capture sees the camera.
SourceDrops ==
  /\ source_up
  /\ source_up' = FALSE
  /\ broken' = broken \cup Held
  /\ UNCHANGED <<sharedVars, workerVars, mainVars, closed>>

SourceReturns ==
  /\ ~source_up
  /\ source_up' = TRUE
  /\ UNCHANGED <<sharedVars, workerVars, mainVars, broken, closed>>

----------------------------------------------------------------------------

\* After a successful init(): a node whose first open fails does not start.
Init ==
  /\ live \in Captures
  /\ opened = TRUE
  /\ is_reconnecting = FALSE
  /\ stop = FALSE
  /\ worker = "none"
  /\ fresh = None
  /\ main = "grab"
  /\ reader = None
  /\ timed_out = FALSE
  /\ source_up = TRUE
  /\ broken = {}
  /\ closed = {}

Reading   == Grab \/ Check \/ ReadReturns \/ Continue
Reconnect == Trigger \/ JoinAndSpawn
Teardown  == Detach \/ Unopen \/ Destroy \/ Reap
Worker == BackedOff \/ Opened \/ OpenFailed \/ Install \/ Publish \/ Clear

Next ==
  \/ Reading \/ WatchdogExpires \/ Reconnect \/ Worker
  \/ Shutdown \/ Teardown
  \/ SourceDrops \/ SourceReturns

\* Both threads are scheduled, calls into OpenCV return, and time passes.
Fairness ==
  /\ WF_vars(Reading \/ Reconnect \/ Teardown)
  /\ SF_vars(WatchdogExpires)
  /\ WF_vars(Worker)

Spec == Init /\ [][Next]_vars
FairSpec == Spec /\ Fairness

----------------------------------------------------------------------------

\* A-5: no thread pulls the capture out from under a read in flight, and
\* release() is only called on a capture that exists (TypeOK of closed).
ReadsOpenCapture ==
  /\ TypeOK
  /\ main = "reading" => reader \notin closed

\* trigger_reconnect_async() runs on the control loop: its join never waits for a
\* slow open, because the flag is cleared last.
TriggerNeverWaits == main = "join" => worker \in {"none", "finished"}

\* Nothing survives the destructor, although a reconnection may install a capture
\* after main() has already released the pipeline.
NothingSurvives ==
  main = "gone" => live = None /\ fresh = None /\ worker = "none" /\ ~opened

\* A camera that stays up is seen again, however often it failed before, unless
\* the node shuts down.
CameraComesBack ==
  <>[]source_up
    => <>[](live # None /\ opened /\ live \notin broken) \/ <>(main = "gone")

=============================================================================
