----------------------------- MODULE JunctionEnvs -----------------------------
(***************************************************************************)
(* The environments a controller is evaluated in: one junction             *)
(* (brain/src/environments/single_intersection.py) or a corridor           *)
(* (corridor_env.py), driven by the fixed-time baseline                    *)
(* (agents/fixed_time_baseline.py, scripts/evaluate.py), by the fixed or   *)
(* shifted plans of scripts/evaluate_corridor.py, or, at one junction with *)
(* the composite reward, by a policy that answers anything.                *)
(*                                                                         *)
(* sumo_rl is external: a signal ignores a change of phase asked before    *)
(* its yellow and minimum green are over, otherwise the phase changes; it  *)
(* is reset to the first phase.  Time is in seconds, a decision takes      *)
(* DeltaTime.                                                              *)
(***************************************************************************)
EXTENDS Rewards, SignalTiming

CONSTANTS
  EvalPlans,       \* what is checked: a controller, "baseline", "fixed", "wave" or
                   \* "policy", or "score", the rewards of a situation
  EpisodeLengths,  \* decisions in an episode, chosen in EvalInit
  EvalEpisodes,    \* episodes of an evaluation
  ScenePool        \* the traffic situations rewards are computed in

ASSUME EvalAssumption ==
  /\ EvalPlans \subseteq {"baseline", "fixed", "wave", "policy", "score"}
  /\ EpisodeLengths \subseteq Nat

(* Shares of queues and densities, seconds that waited and were held (-1  *)
(* when unknown), and the flow ratios of the phases.                       *)
ASSUME SceneAssumption ==
  \A s \in ScenePool :
    /\ s.lanes \in Seq(Nat) /\ s.ratios \in Seq(Nat)
    /\ s.queue \in [1 .. 4 -> 0 .. 20] /\ s.density \in [1 .. 4 -> 0 .. 20]
    /\ s.waiting \in Nat /\ s.held \in Nat \cup {-1}
    /\ \A lane \in DOMAIN s.outs : s.outs[lane] \in 0 .. 20

DeltaTime  == 5
YellowTime == 3
Settled    == YellowTime + 5  \* yellow_time + min_green
HeldBound  == 15              \* longer phases look the same, to the rewards too
PhaseGreen == 30              \* of the baseline

(* The green wave of the corridor, its signals in metres and its speed.    *)
Positions   == <<0, 350, 700>>
TargetSpeed == 50
WaveOffsets == compute_offsets(Positions, TargetSpeed)

VARIABLES
  evalPlan,   \* the controller
  length,     \* decisions per episode
  episodes,   \* episodes completed
  clock,      \* decisions taken in this episode
  lights,     \* lights[i]: phase shown by signal i and for how long
  asked,      \* asked[i]: the last phase asked of signal i, -1 before any; the
              \* _last_action of the single junction
  trail,      \* under the green wave, the phases signal 1 has shown
  baseline,   \* phase and elapsed seconds of the fixed-time controller
  bill,       \* an observer's account of what switching has cost, see NoBill
  scene,      \* traffic the rewards are computed in
  reward      \* the last reward, with the function that gave it

evalVars == <<evalPlan, length, episodes, clock, lights, asked, trail, baseline,
              bill, scene, reward>>

Lights == 1 .. IF evalPlan \in {"baseline", "policy"} THEN 1 ELSE 3

(* The observer notes the highest charge since the light last changed, the *)
(* changes of this episode and those that came for less than half of the   *)
(* full penalty.                                                           *)
NoBill == [charged |-> 0, changes |-> 0, unpaid |-> {}]
FullPenalty == 1200
NoScene  == <<>>
NoReward == [fn |-> "none", value |-> 0]
FullReward == 12000

EvalTypeOK ==
  /\ clock \in 0 .. length
  /\ lights \in [Lights -> [phase : {0, 1}, held : 0 .. HeldBound]]
  /\ asked \in [Lights -> -1 .. 1]
  /\ Len(trail) <= clock
  /\ baseline \in [phase : {0, 1}, elapsed : 0 .. PhaseGreen - DeltaTime]
  /\ bill.charged \in 0 .. FullPenalty
  /\ bill.changes \in 0 .. clock
  /\ bill.unpaid \subseteq 1 .. bill.changes
  /\ reward.value \in -FullReward .. 0

FreshLights == [i \in Lights |-> [phase |-> 0, held |-> 0]]
FreshBaseline == [phase |-> 0, elapsed |-> 0]

EvalInit ==
  /\ evalPlan \in EvalPlans
  /\ length \in EpisodeLengths
  /\ episodes = 0 /\ clock = 0
  /\ lights = FreshLights
  /\ asked = [i \in Lights |-> -1]
  /\ trail = <<>>
  /\ baseline = FreshBaseline
  /\ bill = NoBill
  /\ scene \in IF evalPlan = "score" THEN ScenePool ELSE {NoScene}
  /\ reward = NoReward

-----------------------------------------------------------------------------
(* The fixed-time controller: the phase of this decision, then its clock.  *)
Advance(b) ==
  IF b.elapsed + DeltaTime >= PhaseGreen THEN [phase |-> (b.phase + 1) % 2, elapsed |-> 0]
  ELSE [b EXCEPT !.elapsed = @ + DeltaTime]

(* What the corridor's plans ask of signal i now.                          *)
Planned(i) ==
  PlanPhase(100 * DeltaTime * clock, IF evalPlan = "wave" THEN WaveOffsets[i] ELSE 0)

Decision(i) == IF evalPlan = "baseline" THEN baseline.phase ELSE Planned(i)

(* Both environments correct an action before sumo_rl sees it: an unknown  *)
(* phase keeps the current one, any other must be the next.                *)
Corrected(action, current) ==
  LET known == IF action >= 2 THEN current ELSE action
  IN  IF known # current /\ known # (current + 1) % 2 THEN (current + 1) % 2 ELSE known

Obey(light, action) ==
  IF action = light.phase \/ light.held < Settled
  THEN [light EXCEPT !.held = Within(@ + DeltaTime, 0, HeldBound)]
  ELSE [phase |-> action, held |-> DeltaTime]

\* MUTANT: the controller is not reset with the environment.
StartAgainRunning ==
  /\ episodes' = episodes + 1
  /\ clock' = 0
  /\ lights' = FreshLights
  /\ asked' = [i \in Lights |-> -1]
  /\ trail' = <<>>
  /\ baseline' = Advance(baseline)
  /\ bill' = NoBill
(* The episode is over: the vector environment resets itself and returns   *)
(* the new beginning, the evaluation of the baseline resets both the       *)
(* environment and the controller before it decides again, a library's     *)
(* training or evaluation of a policy the single junction, which forgets   *)
(* its last action.                                                        *)
StartAgain ==
  /\ episodes' = episodes + 1
  /\ clock' = 0
  /\ lights' = FreshLights
  /\ asked' = [i \in Lights |-> -1]
  /\ trail' = <<>>
  /\ baseline' = FreshBaseline
  /\ bill' = NoBill

(* A controller that follows a plan decides for every signal.              *)
Decide ==
  /\ evalPlan \in {"baseline", "fixed", "wave"}
  /\ episodes < EvalEpisodes
  /\ LET corrected == [i \in Lights |-> Corrected(Decision(i), lights[i].phase)]
         shown     == [i \in Lights |-> Obey(lights[i], corrected[i])]
     IN  IF clock + 1 < length
         THEN /\ clock' = clock + 1
              /\ lights' = shown
              /\ asked' = corrected
              /\ trail' = IF evalPlan = "wave" THEN Append(trail, shown[1].phase) ELSE trail
              /\ baseline' = IF evalPlan = "baseline" THEN Advance(baseline) ELSE baseline
              /\ UNCHANGED <<episodes, bill>>
         ELSE StartAgain
  /\ UNCHANGED <<evalPlan, length, scene, reward>>

\* MUTANT: the action is remembered before its reward is computed.
ChargeRemembered(last, action, held) == -flicker_penalty(action, action, held)
(* What a decision of the policy costs for switching: without a decision    *)
(* before it, the action is compared with itself.                          *)
Charge(last, action, held) ==
  -flicker_penalty(IF last = -1 THEN action ELSE last, action, held)

Billed(due, changed) ==
  IF ~changed THEN [bill EXCEPT !.charged = due]
  ELSE [charged |-> 0, changes |-> bill.changes + 1,
        unpaid  |-> IF 2 * due >= FullPenalty THEN bill.unpaid
                    ELSE bill.unpaid \cup {bill.changes + 1}]

(* step() under a policy: the simulator moves first, the reward reads how   *)
(* long the phase it finds has been held, and only then is the action       *)
(* remembered.                                                              *)
PolicyStep ==
  /\ evalPlan = "policy"
  /\ episodes < EvalEpisodes
  /\ \E action \in 0 .. 3 :
       LET asks  == Corrected(action, lights[1].phase)
           shown == Obey(lights[1], asks)
           cost  == Charge(asked[1], asks, shown.held)
           due   == IF cost > bill.charged THEN cost ELSE bill.charged
       IN  IF clock + 1 < length
           THEN /\ clock' = clock + 1
                /\ lights' = [i \in Lights |-> shown]
                /\ asked' = [i \in Lights |-> asks]
                /\ bill' = Billed(due, shown.phase # lights[1].phase)
                /\ UNCHANGED <<episodes, trail, baseline>>
           ELSE StartAgain
  /\ UNCHANGED <<evalPlan, length, scene, reward>>

(* The reward of a decision in the scene, by the function configured.      *)
compute_reward(fn, s, phase, last) ==
  CASE fn = "pressure"    -> 10 * pressure(s.queue, s.density)
    [] fn = "queue"       -> 10 * queue_length(s.queue)
    [] fn = "delay"       -> 10 * delay(s.waiting)
    [] fn = "smart_delay" -> smart_delay(s.queue, s.waiting, phase)
    [] fn = "composite"   ->
         composite(s.queue, s.density, last, phase, s.held,
                   served_downstream_occupancies(s.signals, s.links, s.outs))

RewardFns == {"pressure", "queue", "delay", "smart_delay", "composite"}

Reward ==
  /\ evalPlan = "score"
  /\ reward = NoReward
  /\ \E fn \in RewardFns :
       reward' = [fn |-> fn, value |-> compute_reward(fn, scene, 0, 1)]
  /\ UNCHANGED <<evalPlan, length, episodes, clock, lights, asked, trail, baseline,
                 bill, scene>>

EvalNext == Decide \/ PolicyStep \/ Reward

-----------------------------------------------------------------------------
(* A controller that only knows its own clock stays in step with the       *)
(* signal: after every decision of every episode the junction shows what   *)
(* the fixed-time baseline asked for, so its score is that of its plan.    *)
BaselineInControl ==
  evalPlan \in {"baseline", "fixed"} =>
    \A i \in Lights : asked[i] # -1 => lights[i].phase = asked[i]

(* The decision in force at a time of the episode, in hundredths of a       *)
(* second.                                                                  *)
DecisionAt(time) == time \div (100 * DeltaTime) + 1

(* Signal 1 shows phase 0 and has been given it a yellow and a decision ago *)
(* or longer: its green has been lit for five seconds.                      *)
GreenIsLit(time) ==
  LET since == time - 100 * (YellowTime + DeltaTime)
  IN  since >= 0 /\ \A k \in DecisionAt(since) .. DecisionAt(time) : trail[k] = 0

(* Whoever leaves signal 1 at any moment after the first five seconds of    *)
(* its green and drives at the speed of the plan passes every signal on     *)
(* green, not on the yellow before it: rounding the offsets to decisions    *)
(* costs the head of a platoon five seconds at most, and no more at the     *)
(* signals further down.                                                    *)
PlatoonMeetsGreen ==
  evalPlan = "wave" =>
    \A i \in Lights \ {1}, into \in 0 .. 100 * DeltaTime - 1 :
      LET now  == 100 * DeltaTime * (clock - 1) + into
          left == now - (360 * (Positions[i] - Positions[1])) \div TargetSpeed
      IN  GreenIsLit(left) =>
            /\ lights[i].phase = 0
            /\ lights[i].held > DeltaTime \/ into >= 100 * YellowTime

(* Ping-pong is never free: of the changes of the light in an episode only  *)
(* the first may come without a charge of half the full penalty at least,   *)
(* made for it or for asking for it since the change before, although a     *)
(* request is ignored until the minimum green is over, the time held is     *)
(* read after the simulator has switched, and a repeated request is free.   *)
SwitchesAreCharged == bill.unpaid \subseteq {1}

(* Green for an empty axis while anybody waits at the other scores worse    *)
(* than green for the one that waits, a switch never better than no switch  *)
(* and less badly the longer the phase was held; a green link into a block  *)
(* that is filling up costs something and a block fed by none costs         *)
(* nothing, however full; emptying the avenue at night is never punished    *)
(* and no lane is lost in the buckets while none is full.                   *)
RewardsPreferService(s) ==
  LET q   == s.queue
      fed == served_downstream_occupancies(s.signals, s.links, s.outs)
      spills == \E k \in DOMAIN s.links, lane \in DOMAIN s.outs :
                  s.signals[k] \in {"G", "g"} /\ s.links[k] = lane /\ s.outs[lane] > 17
      wasted(phase, axis, other) ==
        Waiting(q, axis) = 0 /\ Waiting(q, other) > 0 =>
          smart_delay(q, s.waiting, phase) < smart_delay(q, s.waiting, 1 - phase)
  IN  /\ wasted(0, NorthSouth, EastWest) /\ wasted(1, EastWest, NorthSouth)
      /\ \A h1, h2 \in {s.held, 4, 5, 12, 15} :
           /\ flicker_penalty(0, 1, h1) <= flicker_penalty(1, 1, h1)
           /\ 0 <= h1 /\ h1 <= h2 => flicker_penalty(0, 1, h1) <= flicker_penalty(0, 1, h2)
      /\ IF spills
         THEN composite(q, s.density, 0, 0, -1, fed) < composite(q, s.density, 0, 0, -1, {})
         ELSE composite(q, s.density, 0, 0, -1, fed) = composite(q, s.density, 0, 0, -1, {})
      /\ night_mode([i \in 1 .. 4 |-> 0], q, EastWest) >= 0
      /\ (\A i \in 1 .. 4 : aggregate_directions(s.lanes, 20)[i] < 20) =>
           Total(aggregate_directions(s.lanes, 20)) = Total(s.lanes)

(* Short of saturation, Webster's cycle, split by the critical flow ratios, *)
(* gives each of them at least its share of the time, and with the lost     *)
(* time it is not exceeded; the delay grows with the saturation; the M/D/1  *)
(* queue obeys Little's law, up to rounding.                                *)
GreensServeDemand(ratios) ==
  LET y     == Total(ratios)
      cycle == webster_optimal_cycle(y, LostTimePerPhase * Len(ratios))
      green == allocate_green_times(cycle, ratios)
      rate  == 1800
  IN  y \in 1 .. 99 =>
        /\ \A i \in DOMAIN ratios : 100 * (green[i] + 1) >= ratios[i] * cycle
        /\ Total(green) + LostTimePerPhase * Len(ratios) <= cycle
        /\ webster_delay(cycle, 40, y \div 2, rate) <= webster_delay(cycle, 40, y, rate)
        /\ (y * rate * avg_delay(y, rate)) \div 36000 \in
             avg_queue_length(y) - 6 .. avg_queue_length(y) + 1

(* The formulas of the brain ask for what a traffic engineer would, in      *)
(* every situation of ScenePool.                                            *)
FormulasServeDemand ==
  evalPlan = "score" => RewardsPreferService(scene) /\ GreensServeDemand(scene.ratios)
=============================================================================
