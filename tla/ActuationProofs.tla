-------------------------- MODULE ActuationProofs --------------------------
(***************************************************************************)
(* What the street is promised by the heads and the dead-man together, for *)
(* every toggle period, blocking time and MMU that satisfy the             *)
(* assumptions: the lamps never conflict, whatever was shown before, and   *)
(* the MMU is never tripped by a loop that kicks.                          *)
(***************************************************************************)
EXTENDS Actuation, TLAPS

----------------------------------------------------------------------------
(* The heads. *)

\* The lamps are those of the phase, with none left over.
LampsMatch ==
  /\ current_phase \in Signals!Phase
  /\ north_south = [l \in Signals!Lamps |-> l \in Signals!NSLamps(current_phase)]
  /\ east_west = [l \in Signals!Lamps |-> l \in Signals!EWLamps(current_phase)]

\* Rewriting a head leaves nothing of what it held.
LEMMA LitForgets ==
  ASSUME NEW lamps, NEW old
  PROVE  Signals!Lit(lamps, [l \in Signals!Lamps |-> l \in old])
           = [l \in Signals!Lamps |-> l \in lamps]
BY DEF Signals!Lit

\* The boot flash and the shutdown flash show the lamps of FLASH_ALL_RED.
LEMMA FlashAllRedLamps ==
  /\ "FLASH_ALL_RED" \in Signals!Phase
  /\ Signals!NSLamps("FLASH_ALL_RED") = {"red", "flashing"}
  /\ Signals!EWLamps("FLASH_ALL_RED") = {"red", "flashing"}
BY DEF Signals!Phase, Signals!Flashes, Signals!NSLamps, Signals!EWLamps, Signals!IsFlash

\* Showing a phase from scratch makes the lamps match it.
LEMMA ShownMatches ==
  ASSUME LampsMatch, NEW p \in Signals!Phase,
         current_phase' = p,
         north_south' = Signals!Lit(Signals!NSLamps(p), north_south),
         east_west' = Signals!Lit(Signals!EWLamps(p), east_west)
  PROVE  LampsMatch'
<1>1. /\ north_south' = [l \in Signals!Lamps |-> l \in Signals!NSLamps(p)]
      /\ east_west' = [l \in Signals!Lamps |-> l \in Signals!EWLamps(p)]
  BY LitForgets, Zenon DEF LampsMatch
<1> QED
  BY <1>1 DEF LampsMatch

\* The lamps match after every step of the loop.
LEMMA LampsStayMatched ==
  ASSUME LampsMatch, [StreetNext]_streetVars
  PROVE  LampsMatch'
<1>1. CASE UNCHANGED <<current_phase, north_south, east_west>>
  BY <1>1 DEF LampsMatch
<1>2. ASSUME NEW p \in Phase, Signals!SetPhase(p) PROVE LampsMatch'
  <2>1. p \in Signals!Phase
    BY <1>2 DEF Phase, OperationalPhases, Greens, Yellows, Flashes, Signals!Phase,
                Signals!OperationalPhases, Signals!Greens, Signals!Yellows, Signals!Flashes
  <2> QED
    BY <1>1, <1>2, <2>1, ShownMatches, Zenon
       DEF Signals!SetPhase, Signals!vars
<1>3. CASE Signals!SetEmergencyFlash
  BY <1>3, ShownMatches, FlashAllRedLamps, Zenon DEF Signals!SetEmergencyFlash
<1>4. CASE Kick \/ DropPulse \/ Die \/ BreakLine \/ Pass \/ UNCHANGED streetVars
  BY <1>1, <1>4, Zenon
     DEF Kick, DropPulse, Die, BreakLine, Pass, streetVars, lampVars,
         Signals!Frame, Signals!lampVars
<1> QED
  BY <1>2, <1>3, <1>4, Zenon DEF StreetNext, ApplyPhase, FlashHeads

\* Of the two heads at most one lets its axis through, warns it or flashes it
\* yellow, and then the other is red.
LEMMA MatchedDoNotConflict ==
  ASSUME LampsMatch
  PROVE  NoConflictingIndication
<1> DEFINE NSActive == {"GREEN_NS", "GREEN_NS_LEFT", "YELLOW_NS", "FLASH_YELLOW_NS"}
           EWActive == {"GREEN_EW", "GREEN_EW_LEFT", "YELLOW_EW", "FLASH_YELLOW_EW"}
<1>1. /\ north_south["green"] \/ north_south["left_arrow"] \/ north_south["yellow"]
           => current_phase \in NSActive
      /\ east_west["green"] \/ east_west["left_arrow"] \/ east_west["yellow"]
           => current_phase \in EWActive
  BY DEF LampsMatch, Signals!Lamps, Signals!NSLamps, Signals!EWLamps
<1>2. current_phase \in NSActive
        => /\ east_west["red"] /\ ~east_west["green"]
           /\ ~east_west["left_arrow"] /\ ~east_west["yellow"]
  BY DEF LampsMatch, Signals!Lamps, Signals!EWLamps, Signals!IsFlash, Signals!Flashes
<1>3. current_phase \in EWActive
        => /\ north_south["red"] /\ ~north_south["green"]
           /\ ~north_south["left_arrow"] /\ ~north_south["yellow"]
  BY DEF LampsMatch, Signals!Lamps, Signals!NSLamps, Signals!IsFlash, Signals!Flashes
<1>4. Signals!Permissive(north_south) \/ north_south["yellow"]
        => Signals!Restrictive(east_west)
  BY <1>1, <1>2 DEF Signals!Permissive, Signals!Restrictive
<1>5. Signals!Permissive(east_west) \/ east_west["yellow"]
        => Signals!Restrictive(north_south)
  BY <1>1, <1>3 DEF Signals!Permissive, Signals!Restrictive
<1> QED
  BY <1>4, <1>5 DEF NoConflictingIndication, Signals!NoConflictingIndication

\* No history of phases, deaths of the loop and shutdowns lights conflicting lamps.
THEOREM LampsNeverConflict == StreetSpec => []NoConflictingIndication
<1>1. StreetInit => LampsMatch
  BY FlashAllRedLamps, Zenon DEF StreetInit, Signals!Init, LampsMatch
<1>2. LampsMatch /\ [StreetNext]_streetVars => LampsMatch'
  BY LampsStayMatched
<1>3. LampsMatch => NoConflictingIndication
  BY MatchedDoNotConflict
<1> QED
  BY <1>1, <1>2, <1>3, PTL DEF StreetSpec

----------------------------------------------------------------------------
(* The dead-man. *)

\* The pin follows the level while the line works, and the level is low while
\* disarmed: re-arming is always an edge.
PinFollows ==
  /\ line_ok => pin = level
  /\ ~armed => ~level

\* While the loop runs, an armed wave is at most one iteration late, and the MMU
\* has seen each of its edges.
WaveInTime ==
  running /\ armed =>
    /\ since_toggle < period + gap
    /\ line_ok => quiet <= since_toggle

WaveInv == TypeOK /\ PinFollows /\ WaveInTime

\* A write of another level over a working line is an edge, and any write keeps
\* the pin Boolean, never later and equal to what was written if the line works.
LEMMA WriteIsSeen ==
  ASSUME TypeOK, NEW value \in BOOLEAN, Write(value)
  PROVE  /\ pin' \in BOOLEAN
         /\ quiet' \in 0..MmuTimeout
         /\ line_ok => pin' = value
         /\ line_ok /\ pin # value => quiet' = 0
<1>1. pin \in BOOLEAN /\ quiet \in 0..MmuTimeout /\ 0 \in 0..MmuTimeout
  <2>1. pin \in BOOLEAN /\ quiet \in 0..MmuTimeout
    BY Zenon DEF TypeOK
  <2>2. 0 \in 0..MmuTimeout
    BY HeartbeatAssumption
  <2> QED
    BY <2>1, <2>2
<1>2. /\ pin' = IF line_ok THEN value ELSE pin
      /\ quiet' = IF pin' # pin THEN 0 ELSE quiet
  BY DEF Write
<1>3. pin' \in BOOLEAN
  BY <1>1, <1>2, Zenon
<1>4. quiet' \in 0..MmuTimeout
  BY <1>1, <1>2, Zenon
<1>5. line_ok => pin' = value
  BY <1>2, Zenon
<1>6. line_ok /\ pin # value => quiet' = 0
  BY <1>2, <1>5, Zenon
<1> QED
  BY <1>3, <1>4, <1>5, <1>6

\* The numbers of the type invariant.
LEMMA WaveNumbers ==
  ASSUME TypeOK
  PROVE  /\ since_toggle \in Int /\ 0 <= since_toggle /\ since_toggle <= period + MaxBlock
         /\ quiet \in Int /\ 0 <= quiet /\ quiet <= MmuTimeout
         /\ gap \in Int /\ 0 <= gap /\ gap <= MaxBlock
         /\ 0 \in 0..(period + MaxBlock) /\ 0 \in 0..MaxBlock /\ 0 < period
BY HeartbeatAssumption DEF TypeOK

\* Every edge of the wave starts its clock anew, and the MMU's with it.
LEMMA EdgeKeepsWave ==
  ASSUME TypeOK, PinFollows,
         NEW value \in BOOLEAN, line_ok' = line_ok, running' \in BOOLEAN,
         alive' \in BOOLEAN, armed' = TRUE, level' = value, value # level,
         since_toggle' = 0, gap' = 0, Write(value)
  PROVE  WaveInv'
<1>1. /\ pin' \in BOOLEAN /\ quiet' \in 0..MmuTimeout
      /\ line_ok => pin' = value
      /\ line_ok /\ pin # value => quiet' = 0
  BY WriteIsSeen, Zenon
<1>2. TypeOK'
  <2>1. {armed', level', pin', line_ok', alive', running'} \subseteq BOOLEAN
    BY <1>1, Zenon DEF TypeOK
  <2>2. since_toggle' \in 0..(period + MaxBlock) /\ gap' \in 0..MaxBlock
    BY WaveNumbers
  <2> QED
    BY <1>1, <2>1, <2>2 DEF TypeOK
<1>3. PinFollows'
  BY <1>1, Zenon DEF PinFollows
<1>4. line_ok' => quiet' = 0
  BY <1>1, Zenon DEF PinFollows
<1>5. WaveInTime'
  BY <1>4, WaveNumbers, HeartbeatAssumption DEF WaveInTime
<1> QED
  BY <1>2, <1>3, <1>5 DEF WaveInv

\* Going silent drops the level with the arming.
LEMMA SilenceKeepsWave ==
  ASSUME TypeOK, PinFollows,
         line_ok' = line_ok, running' \in BOOLEAN, alive' \in BOOLEAN,
         armed' = FALSE, level' = FALSE, since_toggle' = since_toggle,
         gap' \in 0..MaxBlock, Write(FALSE)
  PROVE  WaveInv'
<1>1. /\ pin' \in BOOLEAN /\ quiet' \in 0..MmuTimeout
      /\ line_ok => pin' = FALSE
  BY WriteIsSeen, Zenon
<1>2. TypeOK'
  <2>1. {armed', level', pin', line_ok', alive', running'} \subseteq BOOLEAN
    BY <1>1, Zenon DEF TypeOK
  <2> QED
    BY <1>1, <2>1 DEF TypeOK
<1>3. PinFollows' /\ WaveInTime'
  BY <1>1, Zenon DEF PinFollows, WaveInTime
<1> QED
  BY <1>2, <1>3 DEF WaveInv

\* tick() finds the inference alive: the wave rises, turns over or is not due yet.
LEMMA KickAliveKeepsWave ==
  ASSUME WaveInv, KickAlive
  PROVE  WaveInv'
<1>1. TypeOK /\ PinFollows /\ WaveInTime
  BY DEF WaveInv
<1>2. /\ running' = running /\ line_ok' = line_ok
      /\ alive' = TRUE /\ gap' = 0 /\ running
  BY DEF KickAlive
<1>3. /\ running' \in BOOLEAN /\ alive' \in BOOLEAN
      /\ armed \in BOOLEAN /\ level \in BOOLEAN
  BY <1>1, <1>2, Zenon DEF TypeOK
<1>4. CASE ~armed /\ Rearm
  <2>1. level # TRUE
    BY <1>1, <1>4, Zenon DEF PinFollows
  <2>2. armed' = TRUE /\ level' = TRUE /\ since_toggle' = 0 /\ Write(TRUE)
    BY <1>4, Zenon DEF Rearm
  <2> QED
    BY <1>1, <1>2, <1>3, <2>1, <2>2, EdgeKeepsWave, Zenon
<1>5. CASE armed /\ since_toggle >= period /\ Toggle
  <2>1. /\ level' = ~level /\ since_toggle' = 0
        /\ Write(level') /\ armed' = armed
    BY <1>5, Zenon DEF Toggle
  <2>2. (~level) \in BOOLEAN /\ (~level) # level
    BY <1>3, Zenon
  <2>3. Write(~level) /\ armed' = TRUE
    BY <1>3, <1>5, <2>1, Zenon
  <2> QED
    BY <1>1, <1>2, <1>3, <2>1, <2>2, <2>3, EdgeKeepsWave, Zenon
<1>6. CASE armed /\ ~(since_toggle >= period) /\ Toggle
  <2>1. UNCHANGED <<armed, level, since_toggle, pin, quiet>>
    BY <1>6, Zenon DEF Toggle, NoWrite
  <2>2. TypeOK'
    <3>1. {armed', level', pin', line_ok', alive', running'} \subseteq BOOLEAN
      BY <1>1, <1>2, <1>3, <2>1, Zenon DEF TypeOK
    <3> QED
      BY <1>1, <1>2, <2>1, <3>1, WaveNumbers DEF TypeOK
  <2>3. PinFollows'
    BY <1>1, <1>2, <2>1, Zenon DEF PinFollows
  <2>4. since_toggle' < period + gap'
    BY <1>1, <1>2, <1>6, <2>1, WaveNumbers, HeartbeatAssumption
  <2>5. line_ok' => quiet' <= since_toggle'
    BY <1>1, <1>2, <1>6, <2>1, Zenon DEF WaveInTime
  <2> QED
    BY <2>2, <2>3, <2>4, <2>5, Zenon DEF WaveInv, WaveInTime
<1> QED
  BY <1>4, <1>5, <1>6, Zenon DEF KickAlive

\* tick() finds the inference down: the pulse is dropped once.
LEMMA KickDeadKeepsWave ==
  ASSUME WaveInv, KickDead
  PROVE  WaveInv'
<1>1. TypeOK /\ PinFollows /\ WaveInTime
  BY DEF WaveInv
<1>2. /\ running' = running /\ line_ok' = line_ok
      /\ alive' = FALSE /\ gap' = 0
  BY DEF KickDead
<1>3. running' \in BOOLEAN /\ alive' \in BOOLEAN /\ gap' \in 0..MaxBlock
  <2>1. running' \in BOOLEAN /\ alive' \in BOOLEAN
    BY <1>1, <1>2, Zenon DEF TypeOK
  <2> QED
    BY <1>1, <1>2, <2>1, WaveNumbers
<1>4. CASE armed /\ Disarm
  <2>1. /\ armed' = FALSE /\ level' = FALSE
        /\ Write(FALSE) /\ since_toggle' = since_toggle
    BY <1>4, Zenon DEF Disarm
  <2> QED
    BY <1>1, <1>2, <1>3, <2>1, SilenceKeepsWave, Zenon
<1>5. CASE ~armed /\ Disarm
  <2>1. UNCHANGED <<armed, level, since_toggle, pin, quiet>>
    BY <1>5, Zenon DEF Disarm, waveVars, NoWrite
  <2>2. {armed', level', pin', line_ok', alive', running'} \subseteq BOOLEAN
    BY <1>1, <1>2, <1>3, <2>1, Zenon DEF TypeOK
  <2>3. TypeOK'
    BY <1>1, <1>3, <2>1, <2>2 DEF TypeOK
  <2>4. PinFollows' /\ WaveInTime'
    BY <1>1, <1>2, <1>5, <2>1, Zenon DEF PinFollows, WaveInTime
  <2> QED
    BY <2>3, <2>4 DEF WaveInv
<1> QED
  BY <1>4, <1>5, Zenon DEF KickDead

\* A graceful shutdown, a death and a lost line leave nothing to keep in time.
LEMMA EndingsKeepWave ==
  ASSUME WaveInv, Stop \/ Crash \/ LineFails
  PROVE  WaveInv'
<1>1. TypeOK /\ PinFollows /\ WaveInTime
  BY DEF WaveInv
<1>2. CASE Stop
  <2>1. /\ running' = FALSE /\ armed' = FALSE /\ level' = FALSE /\ Write(FALSE)
        /\ since_toggle' = since_toggle /\ line_ok' = line_ok
        /\ alive' = alive /\ gap' = gap
    BY <1>2, Zenon DEF Stop
  <2>2. running' \in BOOLEAN /\ alive' \in BOOLEAN /\ gap' \in 0..MaxBlock
    BY <1>1, <2>1, Zenon DEF TypeOK
  <2> QED
    BY <1>1, <2>1, <2>2, SilenceKeepsWave, Zenon
<1>3. CASE Crash
  <2>1. /\ running' = FALSE
        /\ UNCHANGED <<armed, level, since_toggle, pin, line_ok, quiet, alive, gap>>
    BY <1>3, Zenon DEF Crash, waveVars
  <2>2. {armed', level', pin', line_ok', alive', running'} \subseteq BOOLEAN
    BY <1>1, <2>1, Zenon DEF TypeOK
  <2>3. TypeOK'
    BY <1>1, <2>1, <2>2 DEF TypeOK
  <2>4. PinFollows' /\ WaveInTime'
    BY <1>1, <2>1, Zenon DEF PinFollows, WaveInTime
  <2> QED
    BY <2>3, <2>4 DEF WaveInv
<1>4. CASE LineFails
  <2>1. /\ line_ok' = FALSE
        /\ UNCHANGED <<armed, level, since_toggle, pin, quiet, alive, running, gap>>
    BY <1>4, Zenon DEF LineFails, waveVars
  <2>2. {armed', level', pin', line_ok', alive', running'} \subseteq BOOLEAN
    BY <1>1, <2>1, Zenon DEF TypeOK
  <2>3. TypeOK'
    BY <1>1, <2>1, <2>2 DEF TypeOK
  <2>4. PinFollows' /\ WaveInTime'
    BY <1>1, <2>1, Zenon DEF PinFollows, WaveInTime
  <2> QED
    BY <2>3, <2>4 DEF WaveInv
<1> QED
  BY <1>2, <1>3, <1>4

\* Time adds to the age of the wave, to the gap and to the MMU's silence alike.
LEMMA TickKeepsWave ==
  ASSUME WaveInv, Tick
  PROVE  WaveInv'
<1>1. TypeOK /\ PinFollows /\ WaveInTime
  BY DEF WaveInv
<1>2. /\ UNCHANGED <<armed, level, line_ok, alive, running, pin>>
      /\ running => gap < MaxBlock
      /\ since_toggle' = Upto(period + MaxBlock, since_toggle + 1)
      /\ quiet' = Upto(MmuTimeout, quiet + 1)
      /\ gap' = IF running THEN gap + 1 ELSE gap
  BY DEF Tick, TimePasses
<1>3. {armed', level', pin', line_ok', alive', running'} \subseteq BOOLEAN
  BY <1>1, <1>2, Zenon DEF TypeOK
<1>4. /\ since_toggle' \in 0..(period + MaxBlock)
      /\ quiet' \in 0..MmuTimeout /\ gap' \in 0..MaxBlock
  BY <1>1, <1>2, WaveNumbers, HeartbeatAssumption DEF Upto
<1>5. TypeOK'
  BY <1>3, <1>4 DEF TypeOK
<1>6. PinFollows'
  BY <1>1, <1>2, Zenon DEF PinFollows
<1>7. ASSUME running, since_toggle < period + gap
      PROVE  /\ since_toggle' = since_toggle + 1
             /\ since_toggle' < period + gap'
             /\ quiet <= since_toggle => quiet' <= since_toggle'
  BY <1>1, <1>2, <1>7, WaveNumbers, HeartbeatAssumption DEF Upto
<1>8. WaveInTime'
  BY <1>1, <1>2, <1>7, Zenon DEF WaveInTime
<1> QED
  BY <1>5, <1>6, <1>8 DEF WaveInv

\* Every step of the street keeps the wave, for the heads share no state with it.
LEMMA StreetKeepsWave ==
  ASSUME WaveInv, [StreetNext]_streetVars
  PROVE  WaveInv'
<1>1. CASE UNCHANGED vars
  BY <1>1, Zenon
     DEF vars, waveVars, WaveInv, TypeOK, PinFollows, WaveInTime
<1>2. CASE KickAlive \/ KickDead
  BY <1>2, KickAliveKeepsWave, KickDeadKeepsWave
<1>3. CASE Stop \/ Crash \/ LineFails
  BY <1>3, EndingsKeepWave
<1>4. CASE Tick
  BY <1>4, TickKeepsWave
<1> QED
  BY <1>1, <1>2, <1>3, <1>4, Zenon
     DEF StreetNext, ApplyPhase, Kick, DropPulse, FlashHeads, Die, BreakLine, Pass,
         streetVars

\* An edge at most one iteration late is in time for the MMU.
LEMMA WaveClosesRelay ==
  ASSUME WaveInv
  PROVE  NoNuisanceTrip
<1>1. TypeOK /\ WaveInTime
  BY DEF WaveInv
<1>2. ASSUME running, armed, line_ok PROVE RelayClosed
  <2>1. since_toggle < period + gap /\ quiet <= since_toggle
    BY <1>1, <1>2, Zenon DEF WaveInTime
  <2> QED
    BY <1>1, <2>1, WaveNumbers, HeartbeatAssumption DEF RelayClosed
<1> QED
  BY <1>1, <1>2 DEF NoNuisanceTrip

\* The wave starts disarmed, low and silent.
LEMMA WaveStarts == StreetInit => WaveInv
<1> SUFFICES ASSUME Init PROVE WaveInv
  BY DEF StreetInit
<1>1. {armed, level, pin, line_ok, alive, running} \subseteq BOOLEAN
  BY Zenon DEF Init
<1>2. TypeOK
  BY <1>1, HeartbeatAssumption DEF Init, TypeOK
<1>3. PinFollows /\ WaveInTime
  BY Zenon DEF Init, PinFollows, WaveInTime
<1> QED
  BY <1>2, <1>3 DEF WaveInv

\* Whatever pattern of faults and recoveries came before, a running loop whose last
\* kick was alive keeps the MMU from tripping as long as the line works.
THEOREM DeadManNeverCriesWolf == StreetSpec => []NoNuisanceTrip
<1>1. WaveInv /\ [StreetNext]_streetVars => WaveInv'
  BY StreetKeepsWave
<1> QED
  BY <1>1, WaveStarts, WaveClosesRelay, PTL DEF StreetSpec

=============================================================================
