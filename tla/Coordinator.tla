---------------------------- MODULE Coordinator ----------------------------
(***************************************************************************)
(* The green wave coordinator of network/coordinator/src: the main loop    *)
(* (plans, synchronisation pulses, shutdown), the Paho thread (telemetry   *)
(* with the shadow auditor, emergencies), the sequence counter they share, *)
(* and what the broker has seen of it.  The process may die at any moment  *)
(* and is started again (docker-compose.yml: restart: unless-stopped).     *)
(* Time passes while the main loop sleeps, in seconds.                     *)
(***************************************************************************)
EXTENDS RoadNetwork

CONSTANTS
  Intersections,    \* of the road network, a set of numbers
  Nodes,            \* edge nodes, which name the topics
  IntersectionOf,   \* the intersection a node reports in its telemetry
  Topologies,       \* sequences of roads, one of which is in the file
  Emergencies,      \* requests: [id, origin, destination]
  Timing,           \* the topic of the plans: every plan is for "zone-default"
  Nobody,
  PlanInterval, SyncInterval, CycleLength, DesignSpeed,
  NumbersPerTick,   \* milliseconds in a second: what the counter is seeded from
  MessagesPerTick,  \* bound: messages that arrive in a second
  MaxClock          \* bound: the clock stops there

Roads == [source : Intersections, target : Intersections, distance : Nat, speed : Nat,
          one_way : BOOLEAN, primary : BOOLEAN]

ASSUME CoordinatorAssumption ==
  /\ {PlanInterval, SyncInterval, CycleLength, DesignSpeed} \subseteq Nat \ {0}
  /\ {NumbersPerTick, MessagesPerTick, MaxClock} \subseteq Nat \ {0}
  /\ DefaultSpeed \in Nat
  /\ Timing \notin Nodes /\ Nobody \notin Nodes
  /\ IsFiniteSet(Intersections) /\ Intersections \subseteq Int
  /\ Topologies \subseteq Seq(Roads)
  /\ \A e \in Emergencies : {e.origin, e.destination} \subseteq Intersections

\* The clock gains on the counter: in a second a coordinator draws a number for each
\* message that arrives and for each corridor, and no more than the second has
\* milliseconds.
ASSUME SeedAssumption ==
  \A roads \in Topologies :
    MessagesPerTick + Cardinality(Components(PrimaryEdges(LoadTopology(roads))))
      <= NumbersPerTick

VARIABLES
  clock, arrived,
  graph,                       \* NetworkGraphManager._graph
  main, running,               \* where the main loop is; _running
  sequence,                    \* SequenceCounter._next
  todo, plan,                  \* corridors of this round; the plan to be published
  last_plan_time, last_pulse_time,
  telemetry,                   \* intersections with an entry in _telemetry
  paho, node, number,          \* where the Paho thread is, and what it works on
  active_emergencies,          \* emergency_id -> path
  emergency, delay,            \* the request whose path is being cleared
  overrides,                   \* published for it: [at, timestamp]
  link,                        \* "down", or "up" with the subscriptions made
  sent, retained               \* broker: last number on a topic; the retained plan

networkVars   == <<clock, arrived, graph>>
loopVars      == <<main, todo, plan, last_plan_time, last_pulse_time>>
emergencyVars == <<active_emergencies, emergency, delay, overrides>>
telemetryVars == <<telemetry, node, number>>
brokerVars    == <<sent, retained>>
vars == <<networkVars, loopVars, running, sequence, telemetryVars, paho,
          emergencyVars, link, brokerVars>>

\* _last_plan_time and _last_pulse_time start at 0.0, long before any clock reading.
Epoch == 0 - (PlanInterval + SyncInterval)

TypeOK ==
  /\ clock \in 0..MaxClock
  /\ arrived \in 0..MessagesPerTick
  /\ DOMAIN graph \subseteq Intersections \X Intersections
  /\ main \in {"boot", "check", "plan", "publish", "pulse", "sleep",
               "shutdown", "join", "stopped"}
  /\ running \in BOOLEAN
  /\ sequence \in Nat
  /\ \A corridor \in todo : Len(corridor) >= 2 /\ ToSet(corridor) \subseteq Intersections
  /\ plan = Nobody \/ plan.corridor \in todo
  /\ {last_plan_time, last_pulse_time} \subseteq {Epoch} \cup 0..clock
  /\ telemetry \subseteq {IntersectionOf[n] : n \in Nodes}
  /\ paho \in {"idle", "audit", "reply", "clear"}
  /\ node \in Nodes \cup {Nobody}
  /\ {number} \cup {sent[t] : t \in DOMAIN sent} \subseteq Nat
  /\ DOMAIN active_emergencies \subseteq {e.id : e \in Emergencies}
  /\ emergency \in Emergencies \cup {Nobody}
  /\ delay \in Nat
  /\ Len(overrides) <= Cardinality(Intersections)
  /\ link \in {"down", "up"}
  /\ DOMAIN sent = Nodes \cup {Timing}

----------------------------------------------------------------------------
(* A process starts with the wall clock in milliseconds as first number. *)

\* MUTANT: the counter starts at one.
SeedOne(now) == 1
Seed(now) == now * NumbersPerTick

Init ==
  /\ clock = 1 /\ arrived = 0
  /\ \E roads \in Topologies : graph = LoadTopology(roads)
  /\ main = "boot" /\ running = FALSE
  /\ sequence = Seed(clock)
  /\ todo = {} /\ plan = Nobody
  /\ last_plan_time = Epoch /\ last_pulse_time = Epoch
  /\ telemetry = {}
  /\ paho = "idle" /\ node = Nobody /\ number = 0
  /\ active_emergencies = <<>> /\ emergency = Nobody /\ delay = 0 /\ overrides = <<>>
  /\ link = "down"
  /\ sent = [t \in Nodes \cup {Timing} |-> 0] /\ retained = Nobody

\* The process dies and is started again, which takes a while.
Restart ==
  /\ clock < MaxClock
  /\ clock' = clock + 1 /\ arrived' = 0
  /\ main' = "boot" /\ running' = FALSE
  /\ sequence' = Seed(clock')
  /\ todo' = {} /\ plan' = Nobody
  /\ last_plan_time' = Epoch /\ last_pulse_time' = Epoch
  /\ telemetry' = {}
  /\ paho' = "idle" /\ node' = Nobody /\ number' = 0
  /\ active_emergencies' = <<>> /\ emergency' = Nobody /\ delay' = 0 /\ overrides' = <<>>
  /\ link' = "down"
  /\ UNCHANGED <<graph, brokerVars>>

----------------------------------------------------------------------------
(* run(), on the main thread. *)

\* connect() precedes the try block: when it fails the process ends.
Start ==
  /\ main = "boot"
  /\ running' = TRUE
  /\ main' \in {"check", "stopped"}
  /\ UNCHANGED <<networkVars, sequence, todo, plan, last_plan_time, last_pulse_time,
                 telemetryVars, paho, emergencyVars, link, brokerVars>>

PlanDue == clock - last_plan_time >= PlanInterval

\* while self._running, and the corridors of a round of plans.
Check ==
  /\ main = "check"
  /\ IF ~running THEN main' = "shutdown" /\ UNCHANGED todo
     ELSE IF PlanDue /\ telemetry # {}
       THEN /\ main' = "plan"
            /\ \E corridors \in IdentifyCorridors(graph) :
                 todo' = {corridors[C] : C \in {D \in DOMAIN corridors :
                                                  Len(corridors[D]) >= 2}}
       ELSE main' = "pulse" /\ UNCHANGED todo
  /\ UNCHANGED <<networkVars, running, sequence, plan, last_plan_time, last_pulse_time,
                 telemetryVars, paho, emergencyVars, link, brokerVars>>

\* MUTANT: every leg is rounded to seconds before it is added.
OffsetsByLeg(corridor) ==
  LET leg(i) == GetEdgeDistance(graph, corridor[i-1], corridor[i]) \div DesignSpeed
      seconds[i \in DOMAIN corridor] == IF i = 1 THEN 0 ELSE seconds[i-1] + leg(i)
  IN  [i \in DOMAIN corridor |-> seconds[i] % CycleLength]
Offsets(corridor) ==
  [i \in DOMAIN corridor |->
     (Travelled(graph, corridor)[i] \div DesignSpeed) % CycleLength]

\* _compute_corridor_plan(), and the number _publish_json() draws for it.
ComputePlan ==
  /\ main = "plan"
  /\ \E corridor \in todo :
       plan' = [corridor |-> corridor, offsets |-> Offsets(corridor), number |-> sequence]
  /\ sequence' = sequence + 1
  /\ main' = "publish"
  /\ UNCHANGED <<networkVars, running, todo, last_plan_time, last_pulse_time,
                 telemetryVars, paho, emergencyVars, link, brokerVars>>

\* The publication itself is outside the lock of the counter.
PublishPlan ==
  /\ main = "publish"
  /\ sent' = [sent EXCEPT ![Timing] = plan.number]
  /\ retained' = plan
  /\ todo' = todo \ {plan.corridor}
  /\ plan' = Nobody
  /\ main' = "plan"
  /\ UNCHANGED <<networkVars, running, sequence, last_plan_time, last_pulse_time,
                 telemetryVars, paho, emergencyVars, link>>

PlansDone ==
  /\ main = "plan" /\ todo = {}
  /\ last_plan_time' = clock
  /\ main' = "pulse"
  /\ UNCHANGED <<networkVars, running, sequence, todo, plan, last_pulse_time,
                 telemetryVars, paho, emergencyVars, link, brokerVars>>

PulseDue == clock - last_pulse_time >= SyncInterval

\* SyncService.tick(); pulses carry no sequence number.
Pulse ==
  /\ main = "pulse"
  /\ last_pulse_time' = IF PulseDue THEN clock ELSE last_pulse_time
  /\ main' = "sleep"
  /\ UNCHANGED <<networkVars, running, sequence, todo, plan, last_plan_time,
                 telemetryVars, paho, emergencyVars, link, brokerVars>>

\* time.sleep(1.0); at the bound the loop goes on but time does not.
Sleep ==
  /\ main = "sleep"
  /\ IF clock < MaxClock THEN clock' = clock + 1 /\ arrived' = 0
                         ELSE UNCHANGED <<clock, arrived>>
  /\ main' = "check"
  /\ UNCHANGED <<graph, running, sequence, todo, plan, last_plan_time, last_pulse_time,
                 telemetryVars, paho, emergencyVars, link, brokerVars>>

\* shutdown(): the auditor, then loop_stop() asks the Paho thread to end ...
Shutdown ==
  /\ main = "shutdown"
  /\ running' = FALSE
  /\ main' = "join"
  /\ UNCHANGED <<networkVars, sequence, todo, plan, last_plan_time, last_pulse_time,
                 telemetryVars, paho, emergencyVars, link, brokerVars>>

\* ... and waits for the callback it is in; then disconnect().
Join ==
  /\ main = "join" /\ paho = "idle"
  /\ link' = "down"
  /\ main' = "stopped"
  /\ UNCHANGED <<networkVars, running, sequence, todo, plan, last_plan_time,
                 last_pulse_time, telemetryVars, paho, emergencyVars, brokerVars>>

\* handle_signal() runs on the main thread, between any two of its steps.  Before run()
\* sets the flag a signal leaves no trace.
Signal ==
  /\ running /\ main # "stopped"
  /\ running' = FALSE
  /\ UNCHANGED <<networkVars, loopVars, sequence, telemetryVars, paho, emergencyVars,
                 link, brokerVars>>

----------------------------------------------------------------------------
(* The Paho thread: connection, telemetry, emergencies.                    *)

ThreadRuns == main \in {"check", "plan", "publish", "pulse", "sleep", "shutdown"}

\* External: the broker is reached, at first or again; _on_connect() subscribes.
Connect ==
  /\ ThreadRuns /\ paho = "idle" /\ link = "down"
  /\ link' = "up"
  /\ UNCHANGED <<networkVars, loopVars, running, sequence, telemetryVars, paho,
                 emergencyVars, brokerVars>>

\* External.
Disconnect ==
  /\ link = "up"
  /\ link' = "down"
  /\ UNCHANGED <<networkVars, loopVars, running, sequence, telemetryVars, paho,
                 emergencyVars, brokerVars>>

\* MUTANT: messages are taken in although the thread was told to end.
ReceiveToTheEnd ==
  /\ ThreadRuns \/ main = "join"
  /\ paho = "idle" /\ link = "up"
  /\ arrived' = IF clock = MaxClock THEN arrived ELSE arrived + 1
  /\ arrived' <= MessagesPerTick
Receive ==
  /\ ThreadRuns /\ paho = "idle" /\ link = "up"
  /\ arrived < MessagesPerTick
  /\ arrived' = arrived + 1

Key(n) == IntersectionOf[n]

\* _handle_telemetry() up to the cache; a payload that is no object stops before it.
ReceiveTelemetry ==
  /\ Receive
  /\ \E n \in Nodes, valid \in BOOLEAN :
       IF valid
         THEN /\ telemetry' = telemetry \cup {Key(n)}
              /\ node' = n
              /\ paho' = "audit"
         ELSE UNCHANGED <<telemetry, node, paho>>
  /\ UNCHANGED <<clock, graph, loopVars, running, sequence, number, emergencyVars,
                 link, brokerVars>>

\* The auditor cannot write its file, or it or the policy chokes on the count:
\* the exception is logged and there is no command.
HandlingFails ==
  /\ paho = "audit"
  /\ paho' = "idle" /\ node' = Nobody
  /\ UNCHANGED <<networkVars, loopVars, running, sequence, telemetry, number,
                 emergencyVars, link, brokerVars>>

\* Audited, a phase predicted, a number drawn.
Decide ==
  /\ paho = "audit"
  /\ number' = sequence
  /\ sequence' = sequence + 1
  /\ paho' = "reply"
  /\ UNCHANGED <<networkVars, loopVars, running, telemetry, node, emergencyVars,
                 link, brokerVars>>

PublishCommand ==
  /\ paho = "reply"
  /\ sent' = [sent EXCEPT ![node] = number]
  /\ paho' = "idle" /\ node' = Nobody /\ number' = 0
  /\ UNCHANGED <<networkVars, loopVars, running, sequence, telemetry, emergencyVars,
                 link, retained>>

\* The path is filed under the request, over an older one of that name.
Filed(id, path) ==
  [i \in DOMAIN active_emergencies \cup {id} |->
     IF i = id THEN path ELSE active_emergencies[i]]

\* _process_emergency(): without a path nothing happens.
ReceiveEmergency ==
  /\ Receive
  /\ \E e \in Emergencies :
       LET paths == ShortestPaths(graph, DOMAIN graph, e.origin, e.destination)
       IN  IF paths = {} THEN UNCHANGED <<active_emergencies, emergency, delay, overrides, paho>>
           ELSE /\ \E path \in paths :
                     active_emergencies' = Filed(e.id, path)
                /\ emergency' = e
                /\ delay' = 0 /\ overrides' = <<>>
                /\ paho' = "clear"
  /\ UNCHANGED <<clock, graph, loopVars, running, sequence, telemetryVars, link, brokerVars>>

Route == active_emergencies[emergency.id]

\* Seconds between two neighbours at the speed limit of the road.
TravelTime(u, v) ==
  LET speed == GetEdgeSpeedLimit(graph, u, v)
  IN  IF speed > 0 THEN GetEdgeDistance(graph, u, v) \div speed ELSE 0

\* MUTANT: the delay is that of the last leg alone.
DelayOfLeg(i) == IF i = 1 THEN delay ELSE TravelTime(Route[i-1], Route[i])
DelayAt(i) == IF i = 1 THEN delay ELSE delay + TravelTime(Route[i-1], Route[i])

\* One round of the loop of _clear_path() ...
PublishOverride ==
  /\ paho = "clear"
  /\ Len(overrides) < Len(Route)
  /\ LET i == Len(overrides) + 1
     IN  /\ delay' = DelayAt(i)
         /\ overrides' = Append(overrides, [at |-> Route[i], timestamp |-> clock + delay'])
  /\ UNCHANGED <<networkVars, loopVars, running, sequence, telemetryVars, paho,
                 active_emergencies, emergency, link, brokerVars>>

\* ... and its end.  The emergency stays active: nothing calls clear_emergency().
PathCleared ==
  /\ paho = "clear"
  /\ Len(overrides) = Len(Route)
  /\ emergency' = Nobody /\ delay' = 0 /\ overrides' = <<>>
  /\ paho' = "idle"
  /\ UNCHANGED <<networkVars, loopVars, running, sequence, telemetryVars,
                 active_emergencies, link, brokerVars>>

----------------------------------------------------------------------------
MainStep == \/ Start \/ Check \/ ComputePlan \/ PublishPlan \/ PlansDone
            \/ Pulse \/ Sleep \/ Shutdown \/ Join
PahoStep == HandlingFails \/ Decide \/ PublishCommand \/ PublishOverride \/ PathCleared
Environment == \/ Restart \/ Signal \/ Connect \/ Disconnect
               \/ ReceiveTelemetry \/ ReceiveEmergency

Next == MainStep \/ PahoStep \/ Environment

Spec == Init /\ [][Next]_vars
FairSpec == Spec /\ WF_vars(MainStep) /\ WF_vars(PahoStep)

----------------------------------------------------------------------------
\* On each topic the numbers of successive messages increase, whatever the two
\* threads do between drawing a number and publishing it, and over restarts:
\* the edge nodes drop anything else (coordinator.py:198-204, 228-230).
NumbersIncrease == [][\A t \in DOMAIN sent : sent'[t] # sent[t] => sent'[t] > sent[t]]_vars

IsRoute(route) == \A i \in 2..Len(route) : <<route[i-1], route[i]>> \in DOMAIN graph

\* A car that leaves the first intersection of a planned corridor at its green and
\* keeps the design speed meets each later green at its start, to less than a second
\* and modulo the cycle (coordinator.py:433-440), wherever the corridor is a route; the
\* coordinator's tables are well typed throughout.
GreenWaveHolds ==
  /\ TypeOK
  /\ plan # Nobody /\ IsRoute(plan.corridor) =>
       \A i \in DOMAIN plan.corridor :
         LET arrival == Travelled(graph, plan.corridor)[i]    \* scaled by the speed
             cycle   == DesignSpeed * CycleLength
         IN  (arrival - DesignSpeed * plan.offsets[i]) % cycle < DesignSpeed

\* Each corridor is a valid ordered path through the graph
\* (network/coordinator/tests/test_graph_manager.py:425-432).
CorridorsAreRoutes == plan # Nobody => IsRoute(plan.corridor)

\* The overrides of an emergency go to a prefix of its path, from the origin on, and no
\* intersection is given a time at which the vehicle, at the speed limit, could not be
\* there (emergency.py:147-195).
OverridesFollowRoute ==
  emergency # Nobody =>
    /\ IsPrefix([i \in DOMAIN overrides |-> overrides[i].at], Route)
    /\ overrides # <<>> => overrides[1].at = emergency.origin
    /\ \A i \in 2..Len(overrides) :
         overrides[i].timestamp - overrides[i-1].timestamp
           >= TravelTime(overrides[i-1].at, overrides[i].at)

\* A signal that arrives once the loop runs ends the process, whatever the Paho
\* thread is doing and however many messages come in (coordinator.py:540-544).
SignalStops == (ThreadRuns /\ ~running) ~> main \in {"stopped", "boot"}
=============================================================================
