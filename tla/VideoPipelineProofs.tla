-------------------------- MODULE VideoPipelineProofs --------------------------
(***************************************************************************)
(* Proofs about the capture hand-off of VideoPipeline, for any number of   *)
(* captures and any interleaving of loop, reconnect thread and camera.     *)
(***************************************************************************)
EXTENDS VideoPipeline, TLAPS

-----------------------------------------------------------------------------
(* The inductive invariant.                                                *)

Busy == {"backoff", "opening", "install", "publish", "clear"}

(* The flag covers the thread: it is set before the thread starts and      *)
(* cleared by its last step, so whoever sees it clear joins no one at work. *)
FlagCovers ==
  /\ worker \in Busy => is_reconnecting /\ main # "join"
  /\ main = "join" => is_reconnecting

(* Only a thread about to install holds a capture of its own.              *)
FreshIsInstalled == fresh # None => worker = "install"

(* After the flag that ends the reconnections the loop never returns, and   *)
(* behind the join the thread is gone and what it has installed goes too.   *)
Dismantled ==
  /\ stop => main \in {"reap", "detach", "unopen", "gone"}
  /\ stop /\ main # "reap" => worker = "none"
  /\ stop /\ main \in {"unopen", "gone"} => live = None
  /\ main = "gone" => stop /\ ~opened

PipelineInv ==
  TypeOK /\ ReadsOpenCapture /\ FlagCovers /\ FreshIsInstalled /\ Dismantled

-----------------------------------------------------------------------------
(* The initial states.                                                     *)
LEMMA PipelineInit == ASSUME Init PROVE PipelineInv
  <1>1. TypeOK
    BY VideoPipelineAssumption DEF Init, TypeOK
  <1>2. ReadsOpenCapture /\ FlagCovers /\ FreshIsInstalled /\ Dismantled
    BY <1>1 DEF Init, ReadsOpenCapture, FlagCovers, Busy, FreshIsInstalled, Dismantled
  <1>. QED  BY <1>1, <1>2 DEF PipelineInv

(* Steps that leave the thread, the flags and what was closed alone.       *)
LEMMA ReadingKeeps == ASSUME PipelineInv, Reading \/ WatchdogExpires PROVE PipelineInv'
  <1>1. /\ UNCHANGED <<sharedVars, workerVars, cameraVars>>
        /\ main \in {"grab", "check", "reading", "failed"}
        /\ main' \in {"grab", "check", "reading", "failed"}
    BY DEF Reading, Grab, Check, ReadReturns, Continue, WatchdogExpires
  <1>2. reader' \in Captures \cup {None} /\ timed_out' \in BOOLEAN
    BY DEF PipelineInv, TypeOK, sharedVars, Reading, Grab, Check, ReadReturns, Continue,
           WatchdogExpires
  <1>3. main' = "reading" => reader' \notin closed
    BY DEF PipelineInv, ReadsOpenCapture, Reading, Grab, Check, ReadReturns, Continue,
           WatchdogExpires
  <1>4. TypeOK'
    BY <1>1, <1>2 DEF PipelineInv, TypeOK, sharedVars, workerVars, cameraVars
  <1>5. ~stop
    BY <1>1 DEF PipelineInv, Dismantled
  <1>. QED
    BY <1>1, <1>3, <1>4, <1>5 DEF PipelineInv, ReadsOpenCapture, FlagCovers, Busy,
       FreshIsInstalled, Dismantled, sharedVars, workerVars, cameraVars

LEMMA TriggerKeeps == ASSUME PipelineInv, Trigger PROVE PipelineInv'
  BY DEF Trigger, PipelineInv, TypeOK, ReadsOpenCapture, FlagCovers, Busy, FreshIsInstalled,
         Dismantled, workerVars, cameraVars

LEMMA SpawnKeeps == ASSUME PipelineInv, JoinAndSpawn PROVE PipelineInv'
  BY DEF JoinAndSpawn, PipelineInv, TypeOK, ReadsOpenCapture, FlagCovers, Busy,
         FreshIsInstalled, Dismantled, sharedVars, cameraVars

(* The reconnect thread.                                                   *)
LEMMA WorkerKeeps == ASSUME PipelineInv, Worker PROVE PipelineInv'
  <1>1. CASE BackedOff
    BY <1>1 DEF BackedOff, PipelineInv, TypeOK, ReadsOpenCapture, FlagCovers, Busy,
                FreshIsInstalled, Dismantled, mainVars, cameraVars
  <1>2. CASE Opened
    <2>1. PICK c \in Captures \ Held :
            fresh' = c /\ broken' = broken \ {c} /\ closed' = closed \ {c}
      BY <1>2 DEF Opened
    <2>. QED
      BY <1>2, <2>1 DEF Opened, PipelineInv, TypeOK, ReadsOpenCapture, FlagCovers, Busy,
                        FreshIsInstalled, Dismantled, sharedVars, mainVars
  <1>3. CASE OpenFailed
    BY <1>3 DEF OpenFailed, PipelineInv, TypeOK, ReadsOpenCapture, FlagCovers, Busy,
                FreshIsInstalled, Dismantled, sharedVars, mainVars, cameraVars
  <1>4. CASE Install
    BY <1>4 DEF Install, PipelineInv, TypeOK, ReadsOpenCapture, FlagCovers, Busy,
                FreshIsInstalled, Dismantled, mainVars, cameraVars
  <1>5. CASE Publish
    BY <1>5 DEF Publish, PipelineInv, TypeOK, ReadsOpenCapture, FlagCovers, Busy,
                FreshIsInstalled, Dismantled, mainVars, cameraVars
  <1>6. CASE Clear
    BY <1>6 DEF Clear, PipelineInv, TypeOK, ReadsOpenCapture, FlagCovers, Busy,
                FreshIsInstalled, Dismantled, mainVars, cameraVars
  <1>. QED  BY <1>1, <1>2, <1>3, <1>4, <1>5, <1>6 DEF Worker

(* The teardown: a capture is closed only where no read is in flight.      *)
LEMMA TeardownKeeps == ASSUME PipelineInv, Shutdown \/ Teardown PROVE PipelineInv'
  <1>1. CASE Shutdown
    BY <1>1 DEF Shutdown, PipelineInv, TypeOK, ReadsOpenCapture, FlagCovers, Busy,
                FreshIsInstalled, Dismantled, sharedVars, workerVars, cameraVars
  <1>2. CASE Detach
    BY <1>2 DEF Detach, PipelineInv, TypeOK, ReadsOpenCapture, FlagCovers, Busy,
                FreshIsInstalled, Dismantled, workerVars, cameraVars
  <1>3. CASE Unopen
    BY <1>3 DEF Unopen, PipelineInv, TypeOK, ReadsOpenCapture, FlagCovers, Busy,
                FreshIsInstalled, Dismantled, workerVars
  <1>4. CASE Destroy
    BY <1>4 DEF Destroy, PipelineInv, TypeOK, ReadsOpenCapture, FlagCovers, Busy,
                FreshIsInstalled, Dismantled, workerVars, cameraVars
  <1>5. CASE Reap
    BY <1>5 DEF Reap, PipelineInv, TypeOK, ReadsOpenCapture, FlagCovers, Busy,
                FreshIsInstalled, Dismantled, sharedVars, cameraVars
  <1>. QED  BY <1>1, <1>2, <1>3, <1>4, <1>5 DEF Teardown

(* The camera.                                                             *)
LEMMA CameraKeeps == ASSUME PipelineInv, SourceDrops \/ SourceReturns PROVE PipelineInv'
  <1>1. UNCHANGED <<sharedVars, workerVars, mainVars, closed>>
    BY DEF SourceDrops, SourceReturns
  <1>2. source_up' \in BOOLEAN /\ broken' \subseteq Captures
    BY DEF SourceDrops, SourceReturns, Held, PipelineInv, TypeOK
  <1>. QED
    BY <1>1, <1>2 DEF PipelineInv, TypeOK, ReadsOpenCapture, FlagCovers, Busy,
                      FreshIsInstalled, Dismantled, sharedVars, workerVars, mainVars

LEMMA StutterKeeps == ASSUME PipelineInv, UNCHANGED vars PROVE PipelineInv'
  BY DEF PipelineInv, TypeOK, ReadsOpenCapture, FlagCovers, Busy, FreshIsInstalled,
         Dismantled, vars, sharedVars, workerVars, mainVars, cameraVars

(* The invariant holds in every reachable state.                           *)
THEOREM PipelineInvariance == Spec => []PipelineInv
  <1>1. PipelineInv /\ [Next]_vars => PipelineInv'
    BY ReadingKeeps, TriggerKeeps, SpawnKeeps, WorkerKeeps, TeardownKeeps, CameraKeeps,
       StutterKeeps, Zenon DEF Next, Reconnect
  <1>. QED  BY PipelineInit, <1>1, PTL DEF Spec

-----------------------------------------------------------------------------
(* Results.                                                                *)

(* No capture is closed under a read in flight: only release() closes one,  *)
(* on the thread that reads.                                               *)
THEOREM NoReadOfClosed == Spec => []ReadsOpenCapture
  <1>1. PipelineInv => ReadsOpenCapture
    BY DEF PipelineInv
  <1>. QED  BY <1>1, PipelineInvariance, PTL

(* The join on the control loop finds no thread or a finished one.         *)
THEOREM JoinIsShort == Spec => []TriggerNeverWaits
  <1>1. PipelineInv => TriggerNeverWaits
    BY DEF PipelineInv, TypeOK, FlagCovers, Busy, TriggerNeverWaits
  <1>. QED  BY <1>1, PipelineInvariance, PTL

(* After the destructor there is no capture, no thread and no open flag,   *)
(* although a reconnection may have installed a capture during it.         *)
THEOREM TeardownIsFinal == Spec => []NothingSurvives
  <1>1. PipelineInv => NothingSurvives
    BY DEF PipelineInv, FreshIsInstalled, Dismantled, NothingSurvives
  <1>. QED  BY <1>1, PipelineInvariance, PTL
=============================================================================
