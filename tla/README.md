# semaforo: a verification project

TLA+ models of the *semáforo inteligente* control plane, the TLC configurations
that check them and the theorems TLAPS proves about them. Paths are relative to
the repository root.

## 1. The system

| part | state it keeps | operations | what makes it correct |
|---|---|---|---|
| **Interlock** `edge/src/safety_layer.cpp` | the timing budget, `state_`, the phase on the heads, the locked target, the ring index, the start of the phase | `validate` (every iteration), `set_emergency_mode`, `reset` | an axis gets green only after a full all-red (C-3); nothing freezes whatever the durations (A-1, E-5); the ring serves everybody (C-4); the terminal flash is never a false alarm and has no exit but a technician (F-1) |
| **Signal controller** `edge/src/signal_controller.cpp` | the lamps of two heads, the start of the phase | `set_phase`, `set_emergency_flash`, `get_signal_state` | no conflicting lamps; a flash that keeps its rhythm although its phase is re-applied every iteration |
| **Heartbeat** `edge/include/semaforo/heartbeat.hpp` | armed, level, last toggle | `tick`, `stop` | the cabinet's MMU takes over when the loop is gone, and only then |
| **Control loop** `edge/src/main.cpp` | three sources of the fixed cycle: command guard, camera, inference | one iteration: drain commands, read, detect, track, decide, validate, apply, kick, telemetry | the fixed cycle is engaged exactly while some source asks for it |
| **Command path** `edge/include/semaforo/command_{parser,queue,latch}.hpp` | a bounded queue between the Paho thread and the loop, the guard's counters, the latched directive | parse, push, pop, `on_command`, `tick`, `accept_sequence`, `update`, `get` | no stale, replayed or distrusted directive steers the heads; hysteresis |
| **MQTT client** `edge/src/mqtt_client.cpp`, `telemetry_outbox.hpp` | connection flag, outbox | connect, callbacks, publish, flush, last will | the link comes back with its subscription; telemetry keeps its order |
| **Video pipeline** `edge/src/pipeline.cpp` | the live capture, `opened`, `is_reconnecting`, the reconnect thread | `read_frame`, `trigger_reconnect_async`, `release`, destructor | no capture is closed under a read; the camera comes back; the loop never waits |
| **Policy, detector, tracker, queue estimator, object pool** `edge/src/*.cpp` | tracks, recycled buffers, counters | per frame | bounds of the pool, life cycle of a track |
| **Coordinator** `network/coordinator/src/coordinator.py` with `emergency.py`, `sync_service.py`, `graph_manager.py` | telemetry by node (Paho thread), plans, sequence counter, active emergencies | message callback, periodic plan publication, emergency overrides | commands the edge accepts, consistent plans per zone, overrides that end |
| **Brain: traffic worlds** `brain/sumo_networks/network_generator.py`, `brain/src/training/scenarios.py`, `brain/scripts/{generate_corridor,process_video,generate_sumo_traffic}.py` | network and demand files, tracks of filmed vehicles | generate a network, draw a scenario, write its demand, track, write departures | the simulator accepts what it is given |
| **Brain: training** `brain/scripts/train_mappo.py`, `brain/src/environments/multi_intersection.py`, `brain/src/export/onnx_exporter.py` | curriculum stage of the callback and of each worker, observation caches, checkpoints, the exported actor | iteration, callback, checkpoint, export; `reset`, `step` in each worker | stages that were earned, little lost in a crash |
| **Brain: evaluation** `brain/src/environments/{single_intersection,corridor_env}.py`, `brain/src/agents/fixed_time_baseline.py`, `brain/src/rewards/`, `brain/scripts/{evaluate,evaluate_corridor}.py` | lights, decision clock, the controller's own clock | `reset`, `step`, `decide`, rewards | a controller is scored by its own plan; rewards prefer the axis that waits and make ping-pong expensive |
| **Brain: timing and routing** `brain/src/coordination/`, `brain/src/queue_theory/` | a road graph | offsets, cycle and splits, delays, shortest path | a platoon meets green; the route is the quickest |
| **Brain: shadow pilot** `brain/scripts/yolo_inference.py`, `brain/src/vision/` | frame counters, its phase on paper, the decision log | read, count, recommend, follow | the log replays the pilot |
| **Scripts, dashboard, broker configuration** | -- | test tooling, generated runners, static files | -- |

Interaction. The coordinator publishes retained plans and commands over MQTT. On
the node the Paho thread parses and pushes into the queue; the loop thread is the
only one that touches the guard, the latch, the interlock and the heads. The
reconnect thread shares only the capture slot with the loop. The heartbeat is
kicked by the loop and watched by hardware outside. The brain's programs are processes
of their own, run one after the other by an operator; they share files (networks,
demand, checkpoints, the exported actor, the decision log) and no memory. Only the
shadow auditor runs inside the coordinator.

Hard behaviours: blocking calls in the middle of an iteration, three independent
reasons for the fixed cycle that come and go in any order, corrupt durations,
lossy and duplicating delivery, a clean MQTT session that reconnects by itself,
a capture swapped while it is read, threads that outlive their purpose at
shutdown; in the brain, workers that die or miss a broadcast, environments that reset
themselves, interruptions between two checkpoints, programs restarted on the same log.
`PROJECT.json` lists every hazard at its line with the properties that
watch over it.

## 2. The modules

| module | models | state, actions |
|---|---|---|
| `Phases` | `enum Phase` and the static classifiers of `SafetyLayer` | operators only |
| `Intersection` | abstract: what the drivers of two crossing axes are promised | the aspect of each axis, how long both have been red; `Serve`, `Amber`, `Clear`, `Flash`, `Resume`, `Wait` |
| `SafetyLayer` | `safety_layer.cpp` | one variable per member; `Validate`, `SetEmergencyMode`, `Reset`, and `Tick` for the steady clock. A call is atomic: the class holds its mutex throughout |
| `SafetyLayerProofs`, `EdgeNodeProofs`, `ActuationProofs`, `CommandIngestionProofs`, `VideoPipelineProofs`, `CoordinatorProofs`, `BrainProofs` | -- | the theorems of section 5; `NaturalFacts` holds what several of them need of the natural numbers: remainders and quotients, the least number, induction over the naturals and the smallest member of a family of finite sets, and sums over a finite set |
| `MCSafetyLayer`, `MCSafetyClaims` | -- | budgets for TLC; an observer of the phases between two greens |
| `SignalController` | `signal_controller.cpp` | lamps of both heads; `SetPhase`, `SetEmergencyFlash`, `Frame` |
| `Heartbeat` | `heartbeat.hpp` and, external, the pin and the MMU | `KickAlive`, `KickDead`, `Stop`, `Crash`, `LineFails`, `Tick` |
| `Actuation` | steps 7 and 7b of the loop and its shutdown | composes `SignalController` and `Heartbeat`; the loop may die between any two steps |
| `EdgeNode` | the iteration of `main.cpp` | composes `SafetyLayer` and `SignalController`; one action per step and outcome, `Tick` while a call blocks |
| `NodeStatus`, `MCNodeStatus` | `publish_alert` and its seven callers in `main.cpp` | `EdgeNode` with the retained message of the status topic: each of its steps with the alert it sends, which arrives or is lost |
| `CommandIngestion`, `MCCommandIngestion` | parser verdict, queue, guard, latch, the link | `Arrive` on the Paho thread; `HandleValid`, `HandleRejected`, `Watch`, `Iterate` on the loop; an observer that counts independently of the guard |
| `VideoPipeline` | `pipeline.cpp` | two threads and the camera; one action per critical section, atomic store or call |
| `RoadNetwork` | `graph_manager.py` | pure: the graph a topology file yields, shortest paths, corridors. Where networkx leaves an order or a tie open, the operators return every possible answer |
| `Coordinator`, `MCCoordinator` | `coordinator.py`, `emergency.py`, `sync_service.py` | the main loop (`Check` ... `Sleep`, `Shutdown`, `Join`), the Paho thread (`ReceiveTelemetry`, `Decide`, `PublishCommand`, `ReceiveEmergency`, `PublishOverride`), signals, crashes, the link; what the broker last saw on each topic |
| `SumoNetwork` | `network_generator.py`, `generate_corridor.py` | pure: edges of the two networks, routes |
| `Scenarios` | `scenarios.py` | pure: the table of scenarios, curriculum, draw, demand of an episode |
| `TrafficWorld` | how a simulation gets its network and demand, in four ways | `Compile`, `WriteFlows`, `TrackFrame`, `FilmEnds`, `WriteVehicles` |
| `MappoTraining` | `train_mappo.py`, `multi_intersection.py`, `onnx_exporter.py` | the driver (`TrainReturns`, `on_train_result`, `Save`, `SaveFinally`, `export_to_onnx`, ...), each worker (`EnvReset`, `EnvStep`, `RunnerRestarts`), `TrainRaises` and `Killed` at any point |
| `Rewards`, `SignalTiming` | `brain/src/rewards/`; `green_wave.py`, `brain/src/queue_theory/`, the plans of `evaluate_corridor.py` | pure, one operator per function, fractions as integers |
| `JunctionEnvs` | the environments under an evaluation, the baseline, the plans, a policy that answers anything, reward dispatch | `Decide` for one call of `step` in every signal with the reset that follows the last one, `PolicyStep` the same for a policy at one junction with its penalty for switching; `Reward` |
| `RoadSearch` | `graph_model.py` | `add_road`, `shortest_path` and the loop of Dijkstra's search: `Visit`, `HeapEmpty`, `WalkBack` |
| `ShadowPilot` | `yolo_inference.py`, `obs_builder.py`, `vehicle_detector.py` | `ReadFrames`, `Recommend`, `Follow`, `VideosEnd`, `PilotRestarts` |
| `BrainJobs`, `MCBrain` | -- | the brain's programs side by side; `job` says which one a behaviour is about |

Abstractions. Time is discrete. Durations are integers or `Never`, which stands
for NaN and infinity (no elapsed time reaches it); the float rounding of
`elapsed_s` is not modelled. Strings in logs, reasons and alerts are left out. A
command is known by its sequence number and its age; everything the parser can
find wrong with a payload is one verdict. A guard that recovers in `EdgeNode`
does so at any time; `CommandIngestion` says when it can. The clock of
`CommandIngestion` does not jump, nor does that of `Coordinator`; there time passes
only while the main loop sleeps, and a restart takes some. The policy's inference is
not modelled: the phase it recommends matters to no property of the coordinator.
`time.time()` in milliseconds is `NumbersPerTick` numbers per second.

In the brain, SUMO, sumo_rl, netconvert, RLlib, the tracker, the detector and the policy
networks are external. netconvert may fail; sumo_rl reports any set of signals, and
ignores a change asked during yellow or minimum green; RLlib resets and steps
environments in any order, may raise, replaces workers, and is taken to write a
checkpoint whole or not at all; a camera shows anything, and the policy answers
anything. Queues and rewards are integer multiples of a common fraction, fine enough
that every threshold of the code falls between two of them or on one. Random draws are
a choice among the middle and the ends of their range. `inf`, the distance of an
intersection the search has not reached, is the constant `Infinity`; vehicles that depart
at the same time may be written in any order.

A mutant operator (comment `MUTANT`) stands
before the definition it damages: it is a plausible bug that the named property
must catch, and is used nowhere else.

## 3. The runs

| run | shows | bounds |
|---|---|---|
| `interlock` | the interlock implements `Intersection` (`KeepsPromise`), freezes nothing, flashes only on corruption, locks its targets; the ring serves both axes, committed greens come, a corrupt ring ends in flash | three sane budgets (default, the tests' short one, all zero) and each of five durations NaN/infinite, negative and above the ceiling; three major approaches; a poll at least every second. Durations are scaled down with the order of all thresholds kept; counters saturate beyond the last threshold, so nothing is lost |
| `actuation` | no conflicting lamps, the flash blinks, the dead-man neither cries wolf nor keeps a dead loop in charge | half-periods of 3 ticks, an iteration of at most 2, MMU timeout 7; all ten phases in any order |
| `node` | the mode agrees with its three sources; the retained status with the mode (`StatusTellsMode`), as long as no alert was lost since the last that arrived; the heads hold no amber, and no green while iterations are short, beyond the ceiling and one iteration (`HeadsNotFrozen`); they keep the promise with one iteration less of clearance (`HeadsKeepPromise`); outages serve everybody | two sane budgets: a clearance longer than an iteration, and a clearance no longer than one together with an amber as long as the ceiling, for which the bound of the amber is reached; iteration of at most 1 s, camera watchdog 3 s; every alert may be lost, and any message may be retained from before |
| `commands` | age of a directive in force, replays, hysteresis against an independent count, silence ends in distrust, health in trust | capacity 2, thresholds 2, two sequence numbers, ages on both sides of each limit, two arrivals a second: enough for overflow, duplicates, reordering and replay after recovery |
| `pipeline` | no read of a closed capture, no waiting join, nothing survives the destructor, the camera comes back | three captures: the live one, the one being read, the fresh one; more can never be held |
| `coordinator` | numbers increase on every topic, over both threads and restarts; planned corridors that are routes keep the green wave to the second; overrides follow the route at the vehicle's pace; a signal ends the process | a one-way network with a side street and a road listed twice, and one of two components without primary roads; one node, one message a second, two emergencies under one name, three seconds with a restart in any of them. Two plans and a command fit in a second, and no more numbers than its milliseconds: the least slack the seed may have |
| `brain` | the demand of every world fits its network (`SimulationAccepts`); no worker rehearses a stage that is not unlocked, and stages are earned (`UnlockedEpisodes`); a failure costs at most one checkpoint interval (`CheckpointsKeepUp`); the fixed plans stay in control of their lights over episodes (`BaselineInControl`), and all of a platoon but those that leave in the first five seconds of a green pass every signal on green (`PlatoonMeetsGreen`); a policy does not switch to and fro for free (`SwitchesAreCharged`); rewards and green splits prefer who waits (`FormulasServeDemand`); the search finds the quickest route or none (`ShortestFound`, against all routes); the decision log replays the pilot over restarts (`LogCoherent`) | every scenario at the middle and both ends of each jitter, corridor and junction as generated, two cameras with two vehicles and two frames of different length; two workers, two signals, three stages, six iterations, a checkpoint every two, promotion after two: a promotion to the last stage, a lost broadcast after it and a restart all fit; two episodes of 20 and of 31 decisions, so that the second begins in the middle of a cycle of the controller and, with 31, past the green of the corridor's plan; 648 situations with empty, waiting and full lanes on either side of each threshold; five places and every subset of ten roads; three records, five frames, 150 seconds |
| `claim_amber` | **violated**: entering the ring blanks a green without amber, C-3 as written (`safety_layer.hpp:50-53`) | |
| `node_stall` | **violated**: an iteration that blocks for the clearance lets the heads jump from green to green | iteration of up to 3 s, clearance 2 s |
| `claim_outage` | **violated**: with the broker down the silence watchdog does not run (`main.cpp:283`) | |
| `claim_reconnect` | **violated**: after an automatic reconnect nobody subscribes (`mqtt_client.cpp:145`) | |
| `claim_corridor` | **violated**: a two-way avenue yields a corridor in the order of the names (`graph_manager.py:263`, against `test_graph_manager.py:426`) | the two networks above and an avenue 1 - 3 - 2 |

One more divergence was seen and has no run: past `max_green` the watchdog follows
the request if there is one, the left turn of the same axis included
(`safety_layer.cpp:318`), where `safety_layer.hpp:60-63` speaks of "the opposing
green, independent of the AI".

A second one is in the brain: `composite.py:24-31` scores a switch by "how long the
previous phase was held", and "mature switches ... are free". `step()` computes the
reward after the simulator has switched, with the elapsed time read from the new
phase (`single_intersection.py:260-266`, 487), which is one decision: a switch obeyed when
it is asked for is fully penalised however mature it is, and a request the minimum green
made ignored becomes the last action, so repeating it is free. `PolicyStep` passes the time
as `step()` does. What survives of the intent is `SwitchesAreCharged`: of the changes of the
light in an episode all but the first were charged, at the latest for the request before.

Two bounds are as tight as they look. `PlatoonMeetsGreen` is about whoever leaves signal 1
five seconds of green after its yellow: the plans are followed in decisions of five seconds,
each change begins with three seconds of yellow, and for somewhat shorter a wait TLC finds the
vehicle that meets the yellow or the red of the decision before. `HeadsNotFrozen` and
`HeadsKeepPromise` speak of greens while iterations are shorter than the clearance
(`IterationsAreShort`, a condition on the budget and the length of an iteration): with longer
ones TLC finds a green that stays beyond the ceiling, since a toggle of the mode and the whole
all-red pass unseen between two applications. An amber is safe from that: after the toggle the
interlock must pass a green, and the heads follow it, before an amber can come back.

More about what a node publishes. `telemetry_outbox.hpp:7-14` buffers what "the main loop
keeps producing" while the link is down and says "the messages retained are always the
freshest"; but the loop publishes only while the link is up (`main.cpp:446`), so an outage
leaves a gap, and a record whose publication fails returns behind younger ones
(`mqtt_client.cpp:109`), which a later overflow then drops first. `mqtt_client.hpp:99-103`
promises a last will, which `connect()` overwrites (`mqtt_client.cpp:161`). And no alert is
sent at boot, so a node that was shut down and started again stays "offline" on its retained
topic until a source fails and recovers; nor does an alert tell of the terminal flash.
`NodeStatus` has the last two, no module the others.

The type invariant of a module that is checked on its own is the first conjunct of one
of its invariants (`NoFrozenPhase`, `NoNuisanceTrip`, `HeadsNotFrozen`, `DirectiveAgeBounded`,
`ReadsOpenCapture`, `GreenWaveHolds`).

The clause `Resting` of `NoFrozenPhase` is worth a remark: it excludes an interlock
that boots, or leaves the ring, and is asked for no green. A Brain that latches
`ALL_RED`, or a loaded policy model whose best action is index 0 or 2
(`policy_engine.cpp:137-144` casts it to `ALL_RED` or `YELLOW_NS`), can keep it there.

## 4. Fairness

* `SafetyLayer`: weak fairness of `Validate` and of the clock -- the loop of
  `main.cpp:236` calls `validate` unconditionally in every iteration. Toggles and
  resets are not fair.
* `EdgeNode`, `NodeStatus`: each step of the iteration is weakly fair (a blocked call returns);
  time strongly, since the loop disables it between blocking calls. No source is
  obliged to fail or recover, no alert to arrive.
* `CommandIngestion`: the loop and time only; neither link nor Brain owe anything.
* `VideoPipeline`: both threads run, OpenCV calls return, and three seconds without
  a frame pass.
* `Coordinator`: both threads run; the link, messages, signals and crashes owe nothing.
  The clock stops at its bound, the loop does not. A coordinator that has stopped may
  stay so, hence no deadlock check.
* `BrainJobs`: none. Its properties are safety; its programs really end, hence no
  deadlock check.
* `Actuation`: a live loop takes its next step, or dies; time goes on.

What fairness assumes away -- a `read_frame` that never returns -- is the case
`Heartbeat` covers: the pulse stops.

## 5. What is proved

`SafetyLayerProofs`, for every set of budgets, ceilings, sanity timeouts and polling
gaps that satisfies `SafetyLayerAssumption` (the static asserts of
`safety_layer.cpp:59-82`, a default clearance within the ceiling, and counters that
saturate beyond the thresholds):

* `TypeCorrect`, `Invariance`: `TypeOK` and the inductive invariant `IInv`.
* `NothingFreezes`: `[]NoFrozenPhase`. It is not inductive: that an age is below
  the ceiling plus the gap needs to know that at the last poll it was below the
  ceiling (`FreshAtLastPoll`, with the time since that poll), and what `state_`
  says of the lit phase (`Shape`), for the sanity timeout depends on the phase.
* `NoFalseFlash`: `[]FlashOnlyIfCorrupt`, part of `IInv`.
* `TargetIsLocked`: the action property, from `Shape` (amber implies a committed
  target).
* `ImplementsPromise`: the refinement `Spec => Intersection!Spec`, one lemma per
  kind of step (`ServeStep`, `AmberStep`, `ClearStep`, `FlashStep`, `WaitStep`) and
  `Shape` to know which aspects the axes show.

`EdgeNodeProofs`, from `EdgeNodeAssumption` (the interlock's assumption at a polling
gap of one iteration):

* The lemma `NodeUsesInterlock`: each step of the node is, for the interlock, one of its own;
  by it the interlock's safety theorems hold of the interlock inside the node.
* `ModeAgrees`: `[]ModeAgreement`, inductive once the four flags are known Boolean. Every
  call of `set_emergency_mode` sets the mode to what the sources say after the step,
  unless the terminal flash outranks it, and that flash never ends (`PollKeepsMode`).

* `StatusIsTrue`: `[]StatusTellsMode`. Inductive is that the status follows the *sources*
  (`StatusInv`): an alert is sent by every failure not yet known and by the one recovery
  after which no source is left. `ModeAgrees` then carries it over to the interlock.

`ActuationProofs`, from `HeartbeatAssumption` (the MMU waits longer than a half-period and
an iteration):

* `LampsNeverConflict`: `[]NoConflictingIndication`, from the invariant that each head
  shows exactly the lamps of its phase (`LampsMatch`), which every rewriting restores.
* `DeadManNeverCriesWolf`: `[]NoNuisanceTrip`. The MMU's silence alone is not inductive: the
  wave must be at most one iteration late (`WaveInTime`), and each of its steps an edge,
  which needs the pin to follow the level and a disarmed wave to be low (`PinFollows`), or
  re-arming would show the MMU nothing.

`CommandIngestionProofs`, from `CommandIngestionAssumption`, for every capacity, threshold,
time-out and length of an iteration:

* `DirectivesAreYoung`: `[]DirectiveAgeBounded`, from `AgeInv`. The loop empties the queue
  before it acts and time passes only while it acts, so a command ages in the queue by one
  iteration at most (`Young`, `Draining`); once latched, its age and the latch's grow
  together until `get()` refuses it (`AgesTogether`).
* `OnlyNewerRenews`: the action property `ReplayNeverRenews`.
* `GuardHasHysteresis`: the action property `Hysteresis` of `ObservedSpec`, from `Counted`:
  the guard's run of failures and its silence equal the observer's, and its run of successes
  is at most the observer's: a rejection and a trip by silence start both anew, a recovery the
  guard's alone.

`VideoPipelineProofs`, from `VideoPipelineAssumption`, for any captures:

* `NoReadOfClosed`, `JoinIsShort`, `TeardownIsFinal`: `[]ReadsOpenCapture`,
  `[]TriggerNeverWaits`, `[]NothingSurvives`, from `PipelineInv`: `is_reconnecting` is set
  as long as the thread has anything left to do (`FlagCovers`), a fresh capture exists only
  until it is installed (`FreshIsInstalled`), and what each step of the teardown has already
  undone stays undone (`Dismantled`).

`CoordinatorProofs`, from `CoordinatorAssumption` (positive intervals, roads between known
intersections with lengths and limits that are not negative), for any topologies,
intersections, corridors and emergencies:

* `CoordinatorInvariance`: the inductive invariant. `NetworkInv` says that the graph is one a
  topology file yields, `LoopInv` where a plan and its round are at each step of the main
  loop, `NumberInv` what the sequence counter has in hand.
* `OverridesFollow`: `[]OverridesFollowRoute`, from `EmergencyInv`. While a path is cleared
  the overrides so far follow it, each at least a travel time after the one before. Time may
  pass between two of them: inductive is that none is timed later than a vehicle that left now
  with the delay accumulated (`Following`).
* `NumbersDoIncrease`: the action property `NumbersIncrease`, from `SeedAssumption`: a second
  of the seed, which is milliseconds in the code, covers the messages and the corridors of that
  second. That the last number on each topic is below the counter is not inductive over a
  restart: `NumberInv` keeps the counter behind the seed of the current second and what was
  drawn in it, counting the numbers that are as good as drawn (`Pending`, `Undrawn`).
* `OffsetsMakeAWave`: `[]GreenWaveHolds`. That the offsets of consecutive signals differ by the
  travel time, modulo the cycle, is arithmetic of floors and remainders for any lengths,
  speed and cycle.

`EdgeNodeProofs` again, for the heads. What is said of greens is conditional on
`IterationsAreShort`: the clearance the node was built with, if it ends at all, is longer than
an iteration. The code does not enforce it, and `node_stall` shows what happens otherwise;
with the clearance of 2 s an iteration that reads a frame and runs the detector keeps it unless
a call blocks.

* `HeadsInvariance`: the interlock's `IInv`, the loop's types and, on that condition,
  `HeadsInv`: the heads show the interlock's phase, for as long as it knows except of a red
  (`InStep`); or a toggle of the mode or the boot made it clear the junction and the heads do
  not show that yet (`Behind`); or the poll of this iteration decided on another phase, which is
  about to be applied (`Decided`).
* `HeadsDoNotFreeze`: `[]HeadsNotFrozen`. For the amber `HeadsInv` is of no use, since it falls
  with the condition. Inductive without it is `AmberInv`: an amber on the heads is as old as the
  interlock knows until a toggle ends it there, and the next phase the heads are given is not
  that amber again.
* `HeadsPromised`: the property `HeadsKeepPromise`, steps of `Intersection` with a clearance
  shorter by one iteration. `NoJumpWithoutStall`: a node that starts on the condition satisfies
  `HeadsNeverJump`, which `node_stall` refutes for slow iterations.
* `StatusLoopIsLoop`: `StatusSpec => Spec`, so all of this holds of the loop that also
  announces its status.

`BrainProofs`. `JobsApart` splits a behaviour of `BrainSpec` into one of each program; the
invariants are those of the programs.

Training, from `TrainingAssumption` (at least one stage, iteration, good iteration for a
promotion, and iteration between checkpoints), for any set of workers and signals:

* `TrainInvariance`, `TrainingTyped`: the inductive invariant `TrainInv` and the types.
* `StagesAreEarned`: `[]UnlockedEpisodes`. The episodes alone are not inductive, since
  the next one is drawn from the worker's own stage: `Behind` bounds that stage too.
  A lost broadcast and a restart only lower it.
* `CheckpointsAreRecent`: `[]CheckpointsKeepUp`. `Saved` says how far the checkpoint may
  be behind at each place of the driver: inside the loop by `iteration %
  CheckpointEvery`, which grows by one or falls to zero with each iteration
  (`NextRemainder` of `NaturalFacts`) and in the latter case leads to a save.

Shadow pilot, from `PilotAssumption` (a positive decision interval, frames that are lists of
classes):

* `LogReplaysPilot`: `[]LogCoherent`. What the log says of the past does not tell what the
  next record will say: `PilotInv` relates the latest record to the pilot's own phase and
  frame counter, before a decision (`Starting` or `Going`) and between a decision and its
  execution (`Recorded`), where the process may die.

Evaluation, for episodes of any number and length:

* `BaselineKeepsControl`, `PlatoonsRideTheWave`: `[]BaselineInControl` and
  `[]PlatoonMeetsGreen`, from `PlansInv`. That a light obeys depends on how long it has shown
  its phase, hence `BaselineInStep` (light and controller have counted the same seconds) and
  `InStep` (a light has shown its phase for ten seconds unless the plan has just
  changed it, and is in step with the plan from the third decision on), for the three offsets
  of the corridor. The trail of signal 1 is then its plan (`PlansInv`), and whoever left it
  after five seconds of its green is at signal i, 25.2 or 50.4 s later, in the same half
  of a plan shifted by as much and past its yellow (`PassesOnGreen`).
* `EverySwitchIsCharged`: `[]SwitchesAreCharged`, from `BillInv`. The account alone is not
  inductive, since a change may have been charged for long before: whenever the charges since
  the last change do not make half the full penalty, the last action is the phase that is
  shown, so that asking for the other one is charged.

Worlds, from `WorldAssumption` (the cameras film arms of the crossing, the tracker's ids are
finitely many):

* `WorldsAreSound`: `[]SimulationAccepts`. Needed are the streets the network has when demand
  is written (`StreetsOf`), that each route of the generators is a line of neighbouring streets
  (`CorridorDrivable`, `CrossingDrives`), that a flow left in the file prints a probability
  above zero for every draw of every scenario (`FlowDrives`, `DrawKnobs`), and that a filmed
  vehicle is determined by its id (`VehiclesAre`).

Routing, from `SearchAssumption`: finitely many intersections, lengths that are not negative,
and `Infinity`, the code's `inf`, longer than any route without a repeated intersection:

* `SearchFindsShortest`: `[]ShortestFound`, against all routes of the network, by `SearchInv`:
  the distances are those of the tree of predecessors (`Tree`), every road out of an
  intersection the heap has given up is relaxed (`DuringSearch`), and no entry of the heap is
  below the distance of such an intersection (`Ordered`). Roads that take no time (lengths are
  rounded down) make the distances alone too weak to exclude a cycle of predecessors: `Ranked`
  gives the tree a rank of its own, so that the walk back ends. The comparison with an
  arbitrary route is an induction along it (`AlongRoute`), by the least counterexample.

Rewards and formulas, from `SceneAssumption` (queues, densities and occupancies are shares,
seconds and flow ratios are natural numbers; lanes and phases may be any number):

* `RewardsAreSound`: `[]FormulasServeDemand`. A scene never changes (`SceneInv`), so the
  rest is about the formulas. `ServicePreferred` is the rewards, each of them first without
  its maximum (`FlickerIs`, `SpillbackIs`, `CompositeIs`); that no lane is lost in the four
  buckets (`LanesAreKept`) divides the lanes among them by `SumSplit`. `GreensAre` is
  Webster's cycle and its split, with the quotients rounded down as the code rounds them
  (`CycleIs`, `ShareIs`), `DelayGrows` the delay under a growing saturation, and
  `LittlesLaw` the queue against the delay.

Types of all the programs:

* `BrainTyped`: `[]BrainTypeOK`, from the assumptions above and `EvalAssumption`, one program
  after the other. Some ranges say more than that a variable has a type. The route is no
  longer than the network has intersections, because no intersection is twice on it
  (`PathVisitsOnce`, from `SearchInv`); no reward is positive or worse than the worst of its
  formula (`CompositeRange`, `SmartDelayRange`); a flow that is printed has a probability of at
  most one (`FlowsDrive`); the vehicles filmed are no more than cameras times tracks; and what
  the pilot follows is one of its two phases even of a policy with three actions
  (`PilotTyped`).

How induction is done. The library's induction theorems take an operator as a parameter and
cannot be used; `LeastNatural` and `SetInduction` of `NaturalFacts` state the same for a set,
and a recursive function is unfolded from its fixpoint equation. A sum is the fold of a
function over a finite set, which the community modules define by a function on the subsets
of that set: `AdderExists` shows that this function exists, `AddersAgree` that two of them
agree where both are defined. What a sum does (`SumRemove`, `SumOrder`, `SumSplit`) follows
from `SmallestSet`: there would be a smallest set for which it does not.

Only model-checked is liveness, which under fairness and with `ENABLED` is beyond the prover:
`RingServesEveryApproach`, `CommittedGreenServed`, `CorruptRingEndsInFlash`,
`FlashKeepsBlinking`, `DeadTrainOpensRelay`, `OutageServesEveryApproach`,
`SilentBrainDistrusted`, `HealthyBrainTrusted`, `CameraComesBack` and `SignalStops`; and the
runs that expect a violation, which are counterexamples.

## 6. Not modelled, and the plan

In the order intended:

1. `MqttLink`: last will, connect options, telemetry outbox and its flush order, restarts
   of the process behind the retained status.
2. The parser field by field against a reference verdict; clock steps of the wall
   clock in guard and latch; `System`, the node with its real guard instead of free
   verdicts (`CommandIngestion` implementing the guard interface of `EdgeNode`).
3. The coordinator composed with the command path: what a node makes of its emergency
   overrides (an action the parser does not know, no sequence number). `clear_emergency()` and
   `force_pulse()` have no caller in the source and are left out.

The observation caches of the multi-agent environment are modelled (`Forget`, `Absorb`), but no
property is about them: which signals report in a step is SUMO's choice, and one that is not
eligible keeps an older observation by design (`multi_intersection.py:409-413`).

Of the brain: loading and saving the road graph, the import from OpenStreetMap, weather,
the auditor's totals, the features of an observation and the
fallback for observations of another shape, the corridor's dropped remainder lanes, the
numerical comparison of an exported network, the PPO and MAPPO wrappers, single-agent
training, benchmarks, metrics and plots. They are numerical, call no other modelled
part, or only wrap a library.

Out of scope: the detector's numerics, learning itself, generated dashboard runners,
the text of YAML and XML files, test tooling (`chaos_tester.py` and the stubs; the faults it
injects are steps of `CommandIngestion`'s environment), the broker itself (it is that
environment too). `PROJECT.json` names every part with its status.
