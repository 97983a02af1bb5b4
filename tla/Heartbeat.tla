----------------------------- MODULE Heartbeat -----------------------------
(***************************************************************************)
(* The hardware dead-man of edge/include/semaforo/heartbeat.hpp: a square  *)
(* wave on a GPIO pin, kicked by the control loop and watched by the       *)
(* cabinet's Malfunction Management Unit, which is no part of this code.   *)
(* A write to the pin may fail, and the code ignores its result.           *)
(***************************************************************************)
EXTENDS Integers

CONSTANTS
  period,       \* toggle half-period
  MaxBlock,     \* bound: most time one iteration of a live control loop takes
  MmuTimeout    \* external: silence of the pin after which the MMU opens the relay

ASSUME HeartbeatAssumption ==
  /\ {period, MaxBlock} \subseteq Nat \ {0}
  /\ MmuTimeout \in Nat
  /\ MmuTimeout > period + MaxBlock

VARIABLES
  armed, level,       \* armed_, level_
  since_toggle,       \* now - last_toggle_
  pin,                \* the level the MMU sees
  line_ok,            \* writes to the pin succeed
  quiet,              \* time since the pin last changed
  alive,              \* the predicate of the last tick: inference_online
  running,            \* the control loop iterates
  gap                 \* time since the control loop last called tick()

waveVars == <<armed, level, since_toggle, pin>>
vars == <<waveVars, line_ok, quiet, alive, running, gap>>

TypeOK ==
  /\ {armed, level, pin, line_ok, alive, running} \subseteq BOOLEAN
  /\ since_toggle \in 0..(period + MaxBlock)
  /\ quiet \in 0..MmuTimeout
  /\ gap \in 0..MaxBlock

RelayClosed == quiet < MmuTimeout

\* Drive the pin; the MMU sees an edge only if the level changes.
Write(value) ==
  /\ pin' = IF line_ok THEN value ELSE pin
  /\ quiet' = IF pin' # pin THEN 0 ELSE quiet

NoWrite == UNCHANGED <<pin, quiet>>

\* MUTANT: re-arming waits a period for its first edge.
RearmSilently ==
  /\ armed' = TRUE
  /\ level' = level
  /\ since_toggle' = 0
  /\ NoWrite
\* Liveness is (re)established: assert at once.
Rearm ==
  /\ armed' = TRUE
  /\ level' = TRUE
  /\ since_toggle' = 0
  /\ Write(TRUE)

\* The free-running square wave.
Toggle ==
  IF since_toggle >= period
    THEN /\ level' = ~level
         /\ since_toggle' = 0
         /\ Write(level')
         /\ UNCHANGED armed
    ELSE UNCHANGED <<armed, level, since_toggle>> /\ NoWrite

\* MUTANT: the pulse does not depend on the inference.
DisarmNever == Toggle
\* De-assert once, then stay silent.
Disarm ==
  IF armed
    THEN /\ armed' = FALSE
         /\ level' = FALSE
         /\ Write(FALSE)
         /\ UNCHANGED since_toggle
    ELSE UNCHANGED waveVars /\ NoWrite

\* tick(inference_online), once per iteration of the control loop.
KickAlive ==
  /\ running
  /\ alive' = TRUE
  /\ gap' = 0
  /\ IF armed THEN Toggle ELSE Rearm
  /\ UNCHANGED <<line_ok, running>>

KickDead ==
  /\ running
  /\ alive' = FALSE
  /\ gap' = 0
  /\ Disarm
  /\ UNCHANGED <<line_ok, running>>

\* stop(), on a graceful shutdown.
Stop ==
  /\ running
  /\ running' = FALSE
  /\ armed' = FALSE
  /\ level' = FALSE
  /\ Write(FALSE)
  /\ UNCHANGED <<since_toggle, line_ok, alive, gap>>

\* The loop freezes, dead-locks or dies: nothing of stop() happens.
Crash ==
  /\ running
  /\ running' = FALSE
  /\ UNCHANGED <<waveVars, line_ok, quiet, alive, gap>>

LineFails ==
  /\ line_ok
  /\ line_ok' = FALSE
  /\ UNCHANGED <<waveVars, quiet, alive, running, gap>>

Upto(limit, n) == IF n < limit THEN n ELSE limit

\* Only the loop writes the pin, so time passes without an edge.
TimePasses ==
  /\ since_toggle' = Upto(period + MaxBlock, since_toggle + 1)
  /\ quiet' = Upto(MmuTimeout, quiet + 1)
  /\ gap' = IF running THEN gap + 1 ELSE gap
  /\ UNCHANGED pin

Tick ==
  /\ running => gap < MaxBlock
  /\ TimePasses
  /\ UNCHANGED <<armed, level, line_ok, alive, running>>

Init ==
  /\ armed = FALSE
  /\ level = FALSE
  /\ since_toggle = 0
  /\ pin = FALSE
  /\ line_ok \in BOOLEAN
  /\ quiet = MmuTimeout
  /\ alive = FALSE
  /\ running = TRUE
  /\ gap = 0

Next == KickAlive \/ KickDead \/ Stop \/ Crash \/ LineFails \/ Tick

Spec == Init /\ [][Next]_vars

----------------------------------------------------------------------------

\* The dead-man never cries wolf: while the loop runs, the last kick was alive
\* and the line works, edges come fast enough to keep the relay closed, whatever
\* pattern of faults and recoveries came before; and its timers keep to their bounds.
NoNuisanceTrip ==
  /\ TypeOK
  /\ running /\ armed /\ line_ok => RelayClosed

\* heartbeat.hpp:123-135: a loop that is gone, an inference that stays down or a
\* line that is lost ends the pulse train, and the MMU takes the intersection.
DeadTrainOpensRelay ==
  <>[](~running \/ ~alive \/ ~line_ok) => <>[]~RelayClosed

=============================================================================
