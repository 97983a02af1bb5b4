-------------------------- MODULE CoordinatorProofs --------------------------
(***************************************************************************)
(* Theorems about the coordinator, for every road network, every set of    *)
(* nodes and emergencies, and every interval CoordinatorAssumption allows, *)
(* through any number of deaths and restarts.                              *)
(***************************************************************************)
EXTENDS Coordinator, NaturalFacts, FiniteSetTheorems

----------------------------------------------------------------------------
(* The road network. *)

\* The graphs a topology can yield.
RoadGraph ==
  UNION {[E -> [distance : Nat, speed : Nat, primary : BOOLEAN]] :
           E \in SUBSET (Intersections \X Intersections)}

\* A finite inhabited set of line numbers has a last one.
LEMMA LastLine ==
  ASSUME NEW n \in Nat, NEW S, S \subseteq 1..n, S # {}
  PROVE  Max(S) \in S
<1> DEFINE T == {n - i : i \in S}
<1>1. T \subseteq Nat /\ T # {}
  <2>1. \A i \in S : n - i \in Nat
    OBVIOUS
  <2> QED
    BY <2>1
<1>2. PICK m \in T : \A k \in T : m <= k
  BY <1>1, LeastNatural
<1>3. PICK i \in S : m = n - i
  BY <1>2
<1>4. \A j \in S : i >= j
  <2> TAKE j \in S
  <2>1. n - j \in T
    OBVIOUS
  <2>2. m <= n - j
    BY <1>2, <2>1
  <2>3. i \in Int /\ j \in Int /\ m = n - i
    BY <1>3
  <2> QED
    BY <2>2, <2>3
<1>5. \E x \in S : \A y \in S : x >= y
  BY <1>4
<1> QED
  BY <1>5, Zenon DEF Max

\* The loader builds such a graph.
LEMMA LoadedGraph ==
  ASSUME NEW roads \in Topologies
  PROVE  LoadTopology(roads) \in RoadGraph
<1> DEFINE E == UNION {EdgesOf(roads[i]) : i \in DOMAIN roads}
           Naming(e) == {i \in DOMAIN roads : e \in EdgesOf(roads[i])}
<1>1. roads \in Seq(Roads)
  BY CoordinatorAssumption DEF CoordinatorAssumption
<1>2. DOMAIN roads = 1..Len(roads) /\ Len(roads) \in Nat /\ \A i \in DOMAIN roads : roads[i] \in Roads
  BY <1>1
<1>3. \A i \in DOMAIN roads : EdgesOf(roads[i]) \subseteq Intersections \X Intersections
  BY <1>2 DEF EdgesOf, Roads
<1>4. E \in SUBSET (Intersections \X Intersections)
  BY <1>3
<1>5. ASSUME NEW e \in E
      PROVE  Attributes(roads[Max(Naming(e))])
               \in [distance : Nat, speed : Nat, primary : BOOLEAN]
  <2>1. Naming(e) \subseteq 1..Len(roads) /\ Naming(e) # {}
    BY <1>2
  <2>2. Max(Naming(e)) \in DOMAIN roads
    BY <1>2, <2>1, LastLine
  <2> HIDE DEF Naming
  <2> QED
    BY <1>2, <2>2 DEF Attributes, Roads
<1>6. LoadTopology(roads) = [e \in E |-> Attributes(roads[Max(Naming(e))])]
  BY DEF LoadTopology
<1> HIDE DEF E, Naming
<1>7. LoadTopology(roads) \in [E -> [distance : Nat, speed : Nat, primary : BOOLEAN]]
  BY <1>5, <1>6
<1> QED
  BY <1>4, <1>7 DEF RoadGraph

\* What the queries return.
LEMMA EdgeAttributes ==
  ASSUME NEW g \in RoadGraph
  PROVE  /\ DOMAIN g \subseteq Intersections \X Intersections
         /\ \A u, v : GetEdgeDistance(g, u, v) \in Nat
         /\ \A u, v : GetEdgeSpeedLimit(g, u, v) \in Nat
<1>1. PICK E \in SUBSET (Intersections \X Intersections) :
        g \in [E -> [distance : Nat, speed : Nat, primary : BOOLEAN]]
  BY DEF RoadGraph
<1>2. DOMAIN g = E
  BY <1>1
<1>3. ASSUME NEW u, NEW v, <<u, v>> \in DOMAIN g
      PROVE  g[<<u, v>>].distance \in Nat /\ g[<<u, v>>].speed \in Nat
  <2>1. g[<<u, v>>] \in [distance : Nat, speed : Nat, primary : BOOLEAN]
    BY <1>1, <1>2, <1>3, Zenon
  <2> QED
    BY <2>1
<1> QED
  BY <1>2, <1>3, CoordinatorAssumption
     DEF CoordinatorAssumption, GetEdgeDistance, GetEdgeSpeedLimit

\* The way travelled along a route is the recursion it is written as, and is a number
\* at every stop.
LEMMA TravelledSum ==
  ASSUME NEW g \in RoadGraph, NEW n \in Nat, NEW route, DOMAIN route = 1..n
  PROVE  /\ DOMAIN Travelled(g, route) = 1..n
         /\ \A i \in 1..n : Travelled(g, route)[i] \in Nat
<1> DEFINE metre(i) == GetEdgeDistance(g, route[i-1], route[i])
           Sum(f, k) == f = [i \in 1..k |-> IF i = 1 THEN 0 ELSE f[i-1] + metre(i)]
           S == {k \in Nat : \E f : Sum(f, k) /\ \A i \in 1..k : f[i] \in Nat}
<1>1. \A i : metre(i) \in Nat
  BY EdgeAttributes
<1> HIDE DEF metre
<1>2. 0 \in S
  <2>1. Sum(<<>>, 0) /\ \A i \in 1..0 : <<>>[i] \in Nat
    OBVIOUS
  <2> QED
    BY <2>1
<1>3. ASSUME NEW k \in Nat, k \in S PROVE k + 1 \in S
  <2>1. PICK f : Sum(f, k) /\ \A i \in 1..k : f[i] \in Nat
    BY <1>3
  <2> DEFINE h == [i \in 1..(k+1) |->
                     IF i <= k THEN f[i] ELSE IF i = 1 THEN 0 ELSE f[k] + metre(i)]
  <2>2. \A i \in 1..(k+1) : h[i] \in Nat
    BY <1>1, <2>1
  <2>3. \A i \in 1..(k+1) : h[i] = IF i = 1 THEN 0 ELSE h[i-1] + metre(i)
    <3> TAKE i \in 1..(k+1)
    <3>1. CASE i <= k
      <4>1. f[i] = IF i = 1 THEN 0 ELSE f[i-1] + metre(i)
        BY <2>1, <3>1
      <4> QED
        BY <3>1, <4>1
    <3>2. CASE i = k + 1
      BY <3>2
    <3> QED
      BY <3>1, <3>2
  <2>4. Sum(h, k + 1)
    BY <2>3
  <2> HIDE DEF h
  <2> QED
    BY <2>2, <2>4
<1>4. n \in S
  <2> HIDE DEF S
  <2> QED
    BY <1>2, <1>3, SetInduction
<1>5. PICK f : Sum(f, n) /\ \A i \in 1..n : f[i] \in Nat
  BY <1>4
<1> DEFINE t == Travelled(g, route)
<1>6. Sum(t, n)
  <2>1. f = [i \in DOMAIN route |->
               IF i = 1 THEN 0 ELSE f[i-1] + GetEdgeDistance(g, route[i-1], route[i])]
    BY <1>5 DEF metre
  <2>2. t = [i \in DOMAIN route |->
               IF i = 1 THEN 0 ELSE t[i-1] + GetEdgeDistance(g, route[i-1], route[i])]
    BY <2>1, Zenon DEF Travelled
  <2> QED
    BY <2>2 DEF metre
<1> HIDE DEF t
<1>7. ASSUME NEW k \in Nat, k \in 1..n => t[k] \in Nat
      PROVE  k + 1 \in 1..n => t[k+1] \in Nat
  <2> SUFFICES ASSUME k + 1 \in 1..n PROVE t[k+1] \in Nat
    OBVIOUS
  <2>1. t[k+1] = IF k + 1 = 1 THEN 0 ELSE t[k+1-1] + metre(k+1)
    BY <1>6
  <2> QED
    BY <1>1, <1>7, <2>1
<1> DEFINE T == {k \in Nat : k \in 1..n => t[k] \in Nat}
<1>8. Nat \subseteq T
  <2>1. 0 \in T
    OBVIOUS
  <2>2. \A k \in Nat : k \in T => k + 1 \in T
    BY <1>7
  <2> HIDE DEF T
  <2> QED
    BY <2>1, <2>2, SetInduction
<1>9. DOMAIN t = 1..n
  BY <1>6
<1> QED
  BY <1>8, <1>9 DEF t

\* A sequence of at most n members of a set is a sequence over it.
LEMMA SeqOfSeq ==
  ASSUME NEW S, NEW n \in Nat, NEW p \in SeqOf(S, n)
  PROVE  p \in Seq(S) /\ Len(p) <= n /\ DOMAIN p = 1..Len(p)
<1>1. PICK m \in 0..n : p \in [1..m -> S]
  BY DEF SeqOf
<1>2. p \in Seq(S)
  BY <1>1
<1> QED
  BY <1>1, <1>2

\* A shortest path starts at its origin and visits no more intersections than there are.
LEMMA PathShape ==
  ASSUME NEW g, NEW edges \in SUBSET (Intersections \X Intersections),
         NEW from \in Intersections, NEW to, NEW p \in ShortestPaths(g, edges, from, to)
  PROVE  /\ p \in Seq(Intersections) /\ DOMAIN p = 1..Len(p)
         /\ Len(p) \in 1..Cardinality(Intersections)
         /\ p[1] = from
<1> DEFINE stops == Ends(edges) \cup {from}
<1>1. stops \subseteq Intersections
  BY DEF Ends
<1>2. Cardinality(stops) \in Nat /\ Cardinality(stops) <= Cardinality(Intersections)
      /\ Cardinality(Intersections) \in Nat
  BY <1>1, FS_Subset, FS_CardinalityType, CoordinatorAssumption DEF CoordinatorAssumption
<1>3. p \in SeqOf(stops, Cardinality(stops)) /\ p # <<>> /\ Head(p) = from
  BY Zenon DEF ShortestPaths
<1> HIDE DEF stops
<1>4. p \in Seq(stops) /\ Len(p) <= Cardinality(stops) /\ DOMAIN p = 1..Len(p)
  BY <1>2, <1>3, SeqOfSeq
<1>5. p \in Seq(Intersections)
  BY <1>1, <1>4
<1>6. Len(p) \in Nat /\ Len(p) # 0
  BY <1>3, <1>4
<1>7. p[1] = from
  BY <1>3, <1>4, <1>6
<1> QED
  BY <1>2, <1>4, <1>5, <1>6, <1>7

\* Primary or not, the streets of a graph join intersections.
LEMMA PrimaryStreets ==
  ASSUME NEW g \in RoadGraph
  PROVE  PrimaryEdges(g) \in SUBSET (Intersections \X Intersections)
BY EdgeAttributes DEF PrimaryEdges

\* There are finitely many components, each a set of intersections.
LEMMA ComponentShape ==
  ASSUME NEW g \in RoadGraph
  PROVE  /\ Components(PrimaryEdges(g)) \subseteq SUBSET Intersections
         /\ IsFiniteSet(Components(PrimaryEdges(g)))
<1>1. Ends(PrimaryEdges(g)) \subseteq Intersections
  BY PrimaryStreets DEF Ends
<1>2. Components(PrimaryEdges(g)) \subseteq SUBSET Intersections
  BY <1>1 DEF Components
<1>3. IsFiniteSet(SUBSET Intersections)
  BY FS_SUBSET, CoordinatorAssumption DEF CoordinatorAssumption
<1> QED
  BY <1>2, <1>3, FS_Subset

\* A corridor is a sequence of intersections, be it a path or the order of the names.
LEMMA CorridorShape ==
  ASSUME NEW g \in RoadGraph, NEW C \in SUBSET Intersections, NEW s \in CorridorsOf(g, C)
  PROVE  s \in Seq(Intersections)
<1> DEFINE edges     == {e \in PrimaryEdges(g) : e[1] \in C}
           streets   == [node |-> C, edge |-> edges]
           endpoints == Roots(streets) \cup Leaves(streets)
           ByName    == {q \in [1..Cardinality(C) -> C] :
                           \A i, j \in DOMAIN q : i < j => q[i] < q[j]}
           paths(a, b) == ShortestPaths(g, edges, a, b)
           Between(a, b) == IF paths(a, b) = {} THEN ByName ELSE paths(a, b)
<1>1. \/ s \in ByName
      \/ s \in UNION {Between(p[1], p[2]) : p \in {q \in endpoints \X endpoints : q[1] # q[2]}}
  BY Zenon DEF CorridorsOf
<1>2. edges \in SUBSET (Intersections \X Intersections)
  BY PrimaryStreets
<1>3. endpoints \subseteq Intersections
  BY DEF Roots, Leaves
<1>4. Cardinality(C) \in Nat
  BY FS_Subset, FS_CardinalityType, CoordinatorAssumption DEF CoordinatorAssumption
<1> HIDE DEF edges, endpoints
<1>5. ASSUME s \in ByName PROVE s \in Seq(Intersections)
  BY <1>4, <1>5
<1>6. ASSUME NEW p \in endpoints \X endpoints, s \in Between(p[1], p[2])
      PROVE  s \in Seq(Intersections)
  <2>1. p[1] \in Intersections
    BY <1>3
  <2>2. s \in ByName \/ s \in paths(p[1], p[2])
    BY <1>6, Zenon
  <2>3. s \in paths(p[1], p[2]) => s \in Seq(Intersections)
    BY <1>2, <2>1, PathShape
  <2> QED
    BY <1>5, <2>2, <2>3
<1>7. CASE s \in UNION {Between(p[1], p[2]) :
                          p \in {q \in endpoints \X endpoints : q[1] # q[2]}}
  BY <1>6, <1>7, Zenon
<1> QED
  BY <1>1, <1>5, <1>7, Zenon

\* The corridors of a round: no more than there are components.
LEMMA RoundShape ==
  ASSUME NEW g \in RoadGraph, NEW corridors \in IdentifyCorridors(g),
         NEW round, round = {corridors[C] : C \in {D \in DOMAIN corridors :
                                                    Len(corridors[D]) >= 2}}
  PROVE  /\ \A corridor \in round : corridor \in Seq(Intersections) /\ Len(corridor) >= 2
         /\ IsFiniteSet(round)
         /\ Cardinality(round) <= Cardinality(Components(PrimaryEdges(g)))
<1> DEFINE components == Components(PrimaryEdges(g))
           long == {D \in components : Len(corridors[D]) >= 2}
           f == [C \in long |-> corridors[C]]
<1>1. DOMAIN corridors = components
      /\ \A C \in components : corridors[C] \in CorridorsOf(g, C)
  BY DEF IdentifyCorridors
<1>2. \A C \in components : corridors[C] \in Seq(Intersections)
  BY <1>1, ComponentShape, CorridorShape
<1>3. IsFiniteSet(long) /\ Cardinality(long) <= Cardinality(components)
      /\ Cardinality(long) \in Nat /\ Cardinality(components) \in Nat
  BY ComponentShape, FS_Subset, FS_CardinalityType
<1> HIDE DEF components
<1>4. round = {corridors[C] : C \in long}
  BY <1>1
<1>5. f \in Surjection(long, round)
  BY <1>4 DEF Surjection
<1>6. IsFiniteSet(round) /\ Cardinality(round) <= Cardinality(long)
  BY <1>3, <1>5, FS_Surjection
<1>7. Cardinality(round) \in Nat
  BY <1>6, FS_CardinalityType
<1>8. \A corridor \in round : corridor \in Seq(Intersections) /\ Len(corridor) >= 2
  BY <1>2, <1>4
<1> QED
  BY <1>3, <1>6, <1>7, <1>8 DEF components

----------------------------------------------------------------------------
(* The tables. *)

LEMMA CoordinatorConstants ==
  /\ PlanInterval \in Nat /\ SyncInterval \in Nat /\ MaxClock \in Nat /\ MaxClock > 0
  /\ CycleLength \in Nat /\ CycleLength > 0 /\ DesignSpeed \in Nat /\ DesignSpeed > 0
  /\ NumbersPerTick \in Nat /\ NumbersPerTick > 0 /\ MessagesPerTick \in Nat
  /\ Timing \notin Nodes /\ Nobody \notin Nodes
BY CoordinatorAssumption DEF CoordinatorAssumption

\* Time goes forward, the network stays as it was loaded.
NetworkInv ==
  /\ clock \in 1..MaxClock
  /\ arrived \in 0..MessagesPerTick
  /\ \E roads \in Topologies : graph = LoadTopology(roads)

LEMMA NetworkStep ==
  ASSUME NetworkInv, [Next]_vars
  PROVE  /\ NetworkInv'
         /\ graph' = graph
         /\ clock' = clock \/ clock' = clock + 1
<1> USE CoordinatorConstants DEF NetworkInv, networkVars
<1>1. CASE MainStep
  BY <1>1 DEF MainStep, Start, Check, ComputePlan, PublishPlan, PlansDone, Pulse, Sleep,
              Shutdown, Join
<1>2. CASE PahoStep
  BY <1>2, Zenon DEF PahoStep, HandlingFails, Decide, PublishCommand, PublishOverride,
                     PathCleared
<1>3. CASE Restart
  BY <1>3 DEF Restart
<1>4. CASE Signal \/ Connect \/ Disconnect
  BY <1>4, Zenon DEF Signal, Connect, Disconnect
<1>5. CASE ReceiveTelemetry \/ ReceiveEmergency
  <2>1. Receive /\ clock' = clock /\ graph' = graph
    BY <1>5, Zenon DEF ReceiveTelemetry, ReceiveEmergency
  <2> QED
    BY <2>1 DEF Receive
<1>6. CASE UNCHANGED vars
  BY <1>6, Zenon DEF vars
<1> QED
  BY <1>1, <1>2, <1>3, <1>4, <1>5, <1>6, Zenon DEF Next, Environment

LEMMA NetworkGraph == ASSUME NetworkInv PROVE graph \in RoadGraph
BY LoadedGraph DEF NetworkInv

\* The main loop and what it works on: a plan is in hand only between its computation
\* and its publication, and is for a corridor of the round.
LoopInv ==
  /\ main \in {"boot", "check", "plan", "publish", "pulse", "sleep",
               "shutdown", "join", "stopped"}
  /\ running \in BOOLEAN
  /\ IsFiniteSet(todo)
  /\ \A corridor \in todo : corridor \in Seq(Intersections) /\ Len(corridor) >= 2
  /\ {last_plan_time, last_pulse_time} \subseteq {Epoch} \cup 0..clock
  /\ main # "publish" => plan = Nobody
  /\ main = "publish" => /\ plan.corridor \in todo
                         /\ plan.offsets = Offsets(plan.corridor)

LEMMA LoopStep ==
  ASSUME NetworkInv, LoopInv, [Next]_vars
  PROVE  LoopInv'
<1> DEFINE Times(c) == {Epoch} \cup 0..c
<1>1. clock \in Nat /\ clock' \in Nat /\ clock <= clock' /\ graph' = graph
  BY NetworkStep DEF NetworkInv
<1>2. Times(clock) \subseteq Times(clock') /\ clock \in Times(clock')
  BY <1>1
<1>3. \A corridor : Offsets(corridor)' = Offsets(corridor)
  BY <1>1, Zenon DEF Offsets
<1> HIDE DEF Times
<1>4. LoopInv => /\ {last_plan_time, last_pulse_time} \subseteq Times(clock')
  BY <1>2 DEF LoopInv, Times
<1>5. ASSUME main' \in {"boot", "check", "plan", "pulse", "sleep", "shutdown", "join",
                        "stopped"},
             running' \in BOOLEAN, todo' = todo, plan' = Nobody,
             last_plan_time' \in Times(clock'), last_pulse_time' \in Times(clock')
      PROVE  LoopInv'
  <2>1. {last_plan_time', last_pulse_time'} \subseteq {Epoch} \cup 0..clock'
    BY <1>5 DEF Times
  <2> QED
    BY <1>5, <2>1 DEF LoopInv, Epoch
<1>6. CASE Start \/ PlansDone \/ Pulse \/ Sleep \/ Shutdown \/ Join
  <2>1. main # "publish" /\ todo' = todo /\ plan' = plan
    BY <1>6 DEF Start, PlansDone, Pulse, Sleep, Shutdown, Join
  <2>2. main' \in {"check", "pulse", "sleep", "join", "stopped"} /\ running' \in BOOLEAN
    BY <1>6 DEF Start, PlansDone, Pulse, Sleep, Shutdown, Join, LoopInv
  <2>3. last_plan_time' \in Times(clock') /\ last_pulse_time' \in Times(clock')
    BY <1>2, <1>4, <1>6 DEF Start, PlansDone, Pulse, Sleep, Shutdown, Join
  <2> QED
    BY <1>5, <2>1, <2>2, <2>3 DEF LoopInv
<1>7. CASE Check
  <2>1. main = "check" /\ plan' = Nobody /\ UNCHANGED <<running, last_plan_time, last_pulse_time>>
    BY <1>7 DEF Check, LoopInv
  <2>2. CASE todo' = todo /\ main' \in {"shutdown", "pulse"}
    BY <1>4, <1>5, <2>1, <2>2 DEF LoopInv
  <2>3. CASE /\ main' = "plan"
             /\ \E corridors \in IdentifyCorridors(graph) :
                  todo' = {corridors[C] : C \in {D \in DOMAIN corridors :
                                                   Len(corridors[D]) >= 2}}
    <3>1. /\ IsFiniteSet(todo')
          /\ \A corridor \in todo' : corridor \in Seq(Intersections) /\ Len(corridor) >= 2
      BY <2>3, NetworkGraph, RoundShape, Zenon
    <3>2. {last_plan_time', last_pulse_time'} \subseteq {Epoch} \cup 0..clock'
      BY <1>4, <2>1 DEF Times
    <3> QED
      BY <2>1, <2>3, <3>1, <3>2 DEF LoopInv, Epoch
  <2> QED
    BY <1>7, <2>2, <2>3 DEF Check
<1>8. CASE ComputePlan
  <2>1. /\ plan'.corridor \in todo /\ plan'.offsets = Offsets(plan'.corridor)
        /\ todo' = todo /\ main' = "publish"
        /\ UNCHANGED <<running, last_plan_time, last_pulse_time>>
    BY <1>8 DEF ComputePlan
  <2>2. {last_plan_time', last_pulse_time'} \subseteq {Epoch} \cup 0..clock'
    BY <1>4, <2>1 DEF Times
  <2> QED
    BY <1>3, <2>1, <2>2 DEF LoopInv, Epoch
<1>9. CASE PublishPlan
  <2>1. /\ todo' = todo \ {plan.corridor} /\ main' = "plan" /\ plan' = Nobody
        /\ UNCHANGED <<running, last_plan_time, last_pulse_time>>
    BY <1>9 DEF PublishPlan
  <2>2. {last_plan_time', last_pulse_time'} \subseteq {Epoch} \cup 0..clock'
    BY <1>4, <2>1 DEF Times
  <2>3. IsFiniteSet(todo')
    BY <2>1, FS_RemoveElement DEF LoopInv
  <2> QED
    BY <2>1, <2>2, <2>3 DEF LoopInv, Epoch
<1>10. CASE Restart
  <2>1. /\ todo' = {} /\ main' = "boot" /\ plan' = Nobody /\ running' = FALSE
        /\ last_plan_time' = Epoch /\ last_pulse_time' = Epoch
    BY <1>10 DEF Restart
  <2> QED
    BY <2>1, FS_EmptySet DEF LoopInv, Epoch
<1>11. ASSUME UNCHANGED loopVars, running' \in BOOLEAN PROVE LoopInv'
  <2>1. {last_plan_time', last_pulse_time'} \subseteq {Epoch} \cup 0..clock'
    BY <1>4, <1>11 DEF loopVars, Times
  <2> QED
    BY <1>3, <1>11, <2>1 DEF LoopInv, Epoch, loopVars
<1>12. CASE \/ HandlingFails \/ Decide \/ PublishCommand \/ PublishOverride \/ PathCleared
            \/ Signal \/ Connect \/ Disconnect \/ ReceiveTelemetry \/ ReceiveEmergency
            \/ UNCHANGED vars
  <2>1. UNCHANGED loopVars /\ (running' = running \/ running' = FALSE)
    BY <1>12, Zenon DEF HandlingFails, Decide, PublishCommand, PublishOverride, PathCleared,
       Signal, Connect, Disconnect, ReceiveTelemetry, ReceiveEmergency, vars
  <2> QED
    BY <1>11, <2>1 DEF LoopInv
<1> QED
  BY <1>6, <1>7, <1>8, <1>9, <1>10, <1>12, Zenon
     DEF Next, MainStep, PahoStep, Environment

----------------------------------------------------------------------------
(* Emergencies. *)

\* The times of two neighbours are apart by a natural number of seconds.
LEMMA TravelTimeType ==
  ASSUME NetworkInv, NEW u, NEW v
  PROVE  TravelTime(u, v) \in Nat
<1>1. GetEdgeDistance(graph, u, v) \in Nat /\ GetEdgeSpeedLimit(graph, u, v) \in Nat
  BY NetworkGraph, EdgeAttributes
<1> QED
  BY <1>1 DEF TravelTime

\* While a path is being cleared, the overrides published so far follow it, none of them
\* timed later than the vehicle that left now with the delay reached.
Following(route) ==
  /\ route \in Seq(Intersections)
  /\ DOMAIN route = 1..Len(route)
  /\ Len(route) \in 1..Cardinality(Intersections)
  /\ route[1] = emergency.origin
  /\ Len(overrides) <= Len(route)
  /\ \A i \in 1..Len(overrides) :
       /\ overrides[i].at = route[i]
       /\ overrides[i].timestamp \in Nat
       /\ overrides[i].timestamp <= clock + delay
  /\ \A i \in 2..Len(overrides) :
       overrides[i].timestamp - overrides[i-1].timestamp >= TravelTime(route[i-1], route[i])

EmergencyInv ==
  /\ paho \in {"idle", "audit", "reply", "clear"}
  /\ delay \in Nat
  /\ \E S : overrides \in Seq(S)
  /\ DOMAIN active_emergencies \subseteq {e.id : e \in Emergencies}
  /\ paho # "clear" => emergency = Nobody /\ overrides = <<>>
  /\ paho = "clear" => /\ emergency \in Emergencies
                       /\ emergency.id \in DOMAIN active_emergencies
                       /\ Following(Route)

\* Steps that leave the emergency in hand alone, while time may pass.
LEMMA EmergencyRests ==
  ASSUME NetworkInv, EmergencyInv, [Next]_vars, UNCHANGED emergencyVars,
         paho' \in {"idle", "audit", "reply", "clear"}, paho' = "clear" <=> paho = "clear"
  PROVE  EmergencyInv'
<1>1. graph' = graph /\ clock \in Nat /\ clock' \in Nat /\ clock <= clock'
  BY NetworkStep DEF NetworkInv
<1>2. /\ active_emergencies' = active_emergencies /\ emergency' = emergency
      /\ delay' = delay /\ overrides' = overrides
  BY DEF emergencyVars
<1>3. \A u, v : TravelTime(u, v)' = TravelTime(u, v)
  BY <1>1, Zenon DEF TravelTime
<1>4. ASSUME NEW route, Following(route) PROVE Following(route)'
  <2>1. \A i \in 1..Len(overrides) : overrides[i].timestamp <= clock' + delay
    BY <1>1, <1>4 DEF Following, EmergencyInv
  <2> QED
    BY <1>2, <1>3, <1>4, <2>1, Zenon DEF Following
<1>5. Route' = Route
  BY <1>2, Zenon DEF Route
<1> QED
  BY <1>2, <1>4, <1>5, Zenon DEF EmergencyInv

\* An emergency with a path: nothing of it has been published yet.
LEMMA EmergencyStarts ==
  ASSUME NetworkInv, EmergencyInv, ReceiveEmergency
  PROVE  EmergencyInv'
<1>1. paho = "idle" /\ graph' = graph /\ clock' = clock
  BY DEF ReceiveEmergency, Receive
<1>2. PICK e \in Emergencies :
        LET paths == ShortestPaths(graph, DOMAIN graph, e.origin, e.destination)
        IN  IF paths = {} THEN UNCHANGED <<active_emergencies, emergency, delay, overrides, paho>>
            ELSE /\ \E path \in paths :
                      active_emergencies' = Filed(e.id, path)
                 /\ emergency' = e
                 /\ delay' = 0 /\ overrides' = <<>>
                 /\ paho' = "clear"
  BY Zenon DEF ReceiveEmergency
<1> DEFINE paths == ShortestPaths(graph, DOMAIN graph, e.origin, e.destination)
<1>3. CASE paths = {}
  <2>1. UNCHANGED <<active_emergencies, emergency, delay, overrides, paho>>
    BY <1>2, <1>3
  <2> QED
    BY <1>1, <2>1, Zenon DEF EmergencyInv
<1>4. CASE paths # {}
  <2>1. PICK path \in paths : active_emergencies' = Filed(e.id, path)
    BY <1>2, <1>4
  <2>2. emergency' = e /\ delay' = 0 /\ overrides' = <<>> /\ paho' = "clear"
    BY <1>2, <1>4
  <2>3. e.origin \in Intersections
    BY CoordinatorAssumption DEF CoordinatorAssumption
  <2>4. DOMAIN graph \in SUBSET (Intersections \X Intersections)
    BY NetworkGraph, EdgeAttributes
  <2>5. /\ path \in Seq(Intersections) /\ DOMAIN path = 1..Len(path)
        /\ Len(path) \in 1..Cardinality(Intersections) /\ path[1] = e.origin
    BY <2>3, <2>4, PathShape
  <2>6. DOMAIN active_emergencies' = DOMAIN active_emergencies \cup {e.id}
        /\ active_emergencies'[e.id] = path
    BY <2>1 DEF Filed
  <2>7. Route' = path
    BY <2>2, <2>6 DEF Route
  <2>8. Following(path)'
    BY <2>2, <2>5 DEF Following
  <2>9. overrides' \in Seq({})
    BY <2>2
  <2> QED
    BY <2>2, <2>6, <2>7, <2>8, <2>9 DEF EmergencyInv
<1> QED
  BY <1>3, <1>4

\* The next intersection of the path.
LEMMA EmergencyGoesOn ==
  ASSUME NetworkInv, EmergencyInv, PublishOverride
  PROVE  EmergencyInv'
<1> DEFINE n == Len(overrides)
           last == [at |-> Route[n+1], timestamp |-> clock + delay']
<1>1. /\ paho = "clear" /\ paho' = paho /\ n < Len(Route) /\ delay' = DelayAt(n + 1)
      /\ overrides' = Append(overrides, last)
      /\ UNCHANGED <<active_emergencies, emergency>> /\ clock' = clock /\ graph' = graph
  BY Zenon DEF PublishOverride, networkVars
<1>2. Following(Route) /\ delay \in Nat /\ clock \in Nat
  BY <1>1 DEF EmergencyInv, NetworkInv
<1>3. PICK S : overrides \in Seq(S)
  BY DEF EmergencyInv
<1>4. n \in Nat
  BY <1>3
<1>5. delay' \in Nat /\ delay' >= delay
      /\ (n # 0 => delay' = delay + TravelTime(Route[n], Route[n+1]))
  <2>1. TravelTime(Route[n+1-1], Route[n+1]) \in Nat
    BY TravelTimeType
  <2>2. n + 1 - 1 = n
    BY <1>4
  <2> QED
    BY <1>1, <1>2, <1>4, <2>1, <2>2 DEF DelayAt
<1> DEFINE T == S \cup {last}
<1>6. overrides \in Seq(T) /\ last \in T
  BY <1>3
<1>7. /\ overrides' \in Seq(T) /\ Len(overrides') = n + 1
      /\ \A i \in 1..n : overrides'[i] = overrides[i]
      /\ overrides'[n+1] = last
  <2> HIDE DEF last, T
  <2> QED
    BY <1>1, <1>6
<1>8. last.at = Route[n+1] /\ last.timestamp = clock + delay'
  OBVIOUS
<1> HIDE DEF last
<1>9. Route' = Route
  BY <1>1, Zenon DEF Route
<1>10. \A i \in 1..(n+1) : /\ overrides'[i].at = Route[i]
                           /\ overrides'[i].timestamp \in Nat
                           /\ overrides'[i].timestamp <= clock + delay'
  <2> TAKE i \in 1..(n+1)
  <2>1. CASE i \in 1..n
    <3>1. /\ overrides[i].at = Route[i] /\ overrides[i].timestamp \in Nat
          /\ overrides[i].timestamp <= clock + delay
      BY <1>2, <2>1 DEF Following
    <3> QED
      BY <1>2, <1>5, <1>7, <2>1, <3>1
  <2>2. CASE i = n + 1
    BY <1>2, <1>5, <1>7, <1>8, <2>2
  <2> QED
    BY <1>4, <2>1, <2>2
<1>11. \A i \in 2..(n+1) :
         overrides'[i].timestamp - overrides'[i-1].timestamp >= TravelTime(Route[i-1], Route[i])
  <2> TAKE i \in 2..(n+1)
  <2>1. CASE i \in 2..n
    <3>1. overrides[i].timestamp - overrides[i-1].timestamp >= TravelTime(Route[i-1], Route[i])
      BY <1>2, <2>1 DEF Following
    <3>2. overrides'[i] = overrides[i] /\ overrides'[i-1] = overrides[i-1]
      BY <1>4, <1>7, <2>1
    <3> QED
      BY <3>1, <3>2
  <2>2. CASE i = n + 1
    <3>1. n # 0 /\ i - 1 = n /\ n \in 1..n
      BY <1>4, <2>2
    <3>2. overrides[n].timestamp \in Nat /\ overrides[n].timestamp <= clock + delay
      BY <1>2, <3>1 DEF Following
    <3>3. overrides'[n] = overrides[n]
      BY <1>7, <3>1
    <3>4. TravelTime(Route[n], Route[n+1]) \in Nat
      BY TravelTimeType
    <3>5. overrides'[n+1].timestamp = clock + delay + TravelTime(Route[n], Route[n+1])
      BY <1>2, <1>5, <1>7, <1>8, <3>1, <3>4
    <3>6. overrides'[n+1].timestamp - overrides'[n].timestamp
            >= TravelTime(Route[n], Route[n+1])
      BY <1>2, <3>2, <3>3, <3>4, <3>5
    <3> QED
      BY <2>2, <3>1, <3>6
  <2> QED
    BY <1>4, <2>1, <2>2
<1>12. \A u, v : TravelTime(u, v)' = TravelTime(u, v)
  BY <1>1, Zenon DEF TravelTime
<1>13. n + 1 <= Len(Route)
  BY <1>1, <1>2, <1>4 DEF Following
<1> HIDE DEF n
<1>14. Following(Route)'
  BY <1>1, <1>2, <1>7, <1>9, <1>10, <1>11, <1>12, <1>13, Zenon DEF Following
<1> QED
  BY <1>1, <1>5, <1>7, <1>9, <1>14, Zenon DEF EmergencyInv

LEMMA EmergencyStep ==
  ASSUME NetworkInv, EmergencyInv, [Next]_vars
  PROVE  EmergencyInv'
<1>1. CASE \/ MainStep \/ HandlingFails \/ Decide \/ PublishCommand
           \/ Signal \/ Connect \/ Disconnect \/ ReceiveTelemetry \/ UNCHANGED vars
  <2>1. UNCHANGED emergencyVars
    BY <1>1, Zenon DEF MainStep, Start, Check, ComputePlan, PublishPlan, PlansDone, Pulse,
       Sleep, Shutdown, Join, HandlingFails, Decide, PublishCommand, Signal, Connect,
       Disconnect, ReceiveTelemetry, vars
  <2>2. CASE MainStep \/ Signal \/ Connect \/ Disconnect \/ UNCHANGED vars
    <3>1. paho' = paho
      BY <2>2, Zenon DEF MainStep, Start, Check, ComputePlan, PublishPlan, PlansDone, Pulse,
         Sleep, Shutdown, Join, Signal, Connect, Disconnect, vars
    <3> QED
      BY <2>1, <3>1, EmergencyRests DEF EmergencyInv
  <2>3. CASE HandlingFails \/ Decide \/ PublishCommand \/ ReceiveTelemetry
    <3>1. paho # "clear" /\ paho' \in {paho, "audit", "reply", "idle"}
      BY <2>3 DEF HandlingFails, Decide, PublishCommand, ReceiveTelemetry, Receive
    <3>2. paho' \in {"idle", "audit", "reply", "clear"} /\ paho' # "clear"
      BY <3>1 DEF EmergencyInv
    <3> QED
      BY <2>1, <3>1, <3>2, EmergencyRests
  <2> QED
    BY <1>1, <2>2, <2>3
<1>2. CASE Restart \/ PathCleared
  <2>1. /\ paho' = "idle" /\ emergency' = Nobody /\ delay' = 0 /\ overrides' = <<>>
        /\ active_emergencies' = <<>> \/ active_emergencies' = active_emergencies
    BY <1>2, Zenon DEF Restart, PathCleared
  <2>2. overrides' \in Seq({}) /\ DOMAIN active_emergencies' \subseteq {e.id : e \in Emergencies}
    BY <2>1 DEF EmergencyInv
  <2> QED
    BY <2>1, <2>2 DEF EmergencyInv
<1> QED
  BY <1>1, <1>2, EmergencyStarts, EmergencyGoesOn, Zenon DEF Next, PahoStep, Environment

\* No intersection of the path is skipped or asked for twice, and none is given a time
\* the vehicle could not make.
THEOREM OverridesFollow == Spec => []OverridesFollowRoute
<1>1. Init => NetworkInv /\ EmergencyInv
  <2> SUFFICES ASSUME Init PROVE NetworkInv /\ EmergencyInv
    OBVIOUS
  <2>1. NetworkInv
    BY CoordinatorConstants DEF Init, NetworkInv
  <2>2. /\ paho = "idle" /\ delay = 0 /\ overrides = <<>> /\ emergency = Nobody
        /\ active_emergencies = <<>>
    BY DEF Init
  <2>3. overrides \in Seq({}) /\ DOMAIN active_emergencies \subseteq {e.id : e \in Emergencies}
    BY <2>2
  <2> QED
    BY <2>1, <2>2, <2>3 DEF EmergencyInv
<1>2. NetworkInv /\ EmergencyInv /\ [Next]_vars => NetworkInv' /\ EmergencyInv'
  BY NetworkStep, EmergencyStep
<1>3. NetworkInv /\ EmergencyInv => OverridesFollowRoute
  <2> SUFFICES ASSUME NetworkInv, EmergencyInv, emergency # Nobody
               PROVE  /\ IsPrefix([i \in DOMAIN overrides |-> overrides[i].at], Route)
                      /\ overrides # <<>> => overrides[1].at = emergency.origin
                      /\ \A i \in 2..Len(overrides) :
                           overrides[i].timestamp - overrides[i-1].timestamp
                             >= TravelTime(overrides[i-1].at, overrides[i].at)
    BY DEF OverridesFollowRoute
  <2>1. Following(Route)
    BY DEF EmergencyInv
  <2>2. PICK S : overrides \in Seq(S)
    BY DEF EmergencyInv
  <2> DEFINE n == Len(overrides)
             at == [i \in DOMAIN overrides |-> overrides[i].at]
  <2>3. n \in Nat /\ DOMAIN overrides = 1..n /\ (overrides # <<>> => n # 0)
    BY <2>2
  <2>4. \A i \in 1..n : overrides[i].at = Route[i]
    BY <2>1 DEF Following
  <2>5. IsPrefix(at, Route)
    <3>1. at = [i \in 1..n |-> Route[i]]
      BY <2>3, <2>4
    <3>2. Route \in Seq(Intersections) /\ n <= Len(Route) /\ Len(Route) \in Nat
      BY <2>1 DEF Following
    <3> HIDE DEF n, at
    <3>3. at \in Seq(Intersections) /\ Len(at) = n
      BY <2>3, <3>1, <3>2
    <3>4. SubSeq(at, 1, n) = at
      BY <2>3, <3>3
    <3>5. SubSeq(Route, 1, n) = [i \in 1..n |-> Route[i]]
      BY <2>3, <3>2
    <3> QED
      BY <3>1, <3>2, <3>3, <3>4, <3>5, Zenon DEF IsPrefix
  <2>6. overrides # <<>> => overrides[1].at = emergency.origin
    BY <2>1, <2>3, <2>4 DEF Following
  <2>7. ASSUME NEW i \in 2..n
        PROVE  overrides[i].timestamp - overrides[i-1].timestamp
                 >= TravelTime(overrides[i-1].at, overrides[i].at)
    <3>1. overrides[i].at = Route[i] /\ overrides[i-1].at = Route[i-1]
      BY <2>3, <2>4, <2>7
    <3> QED
      BY <2>1, <2>7, <3>1 DEF Following
  <2> QED
    BY <2>5, <2>6, <2>7
<1> QED
  BY <1>1, <1>2, <1>3, PTL DEF Spec

----------------------------------------------------------------------------
(* The numbers. *)

\* How many numbers a round of plans may draw.
Corridors == Cardinality(Components(PrimaryEdges(graph)))

\* Numbers that are as good as drawn, and numbers drawn in this second for plans.
Pending == IF paho = "audit" THEN 1 ELSE 0
Undrawn == CASE main = "plan"    -> Cardinality(todo)
             [] main = "publish" -> Cardinality(todo) - 1
             [] OTHER            -> 0
Allowance == IF main \in {"plan", "publish", "pulse", "sleep"} THEN Corridors ELSE 0

\* A number that waits to be published is newer than the last on its topic, and while
\* the clock runs the counter stays behind the number a restart would begin with.
NumberInv ==
  /\ sequence \in Nat
  /\ number \in Nat
  /\ sent \in [Nodes \cup {Timing} -> Nat]
  /\ \A t \in Nodes \cup {Timing} : sent[t] < sequence
  /\ paho \in {"audit", "reply"} => node \in Nodes
  /\ paho = "reply" => sent[node] < number /\ number < sequence
  /\ main = "publish" => /\ plan.number \in Nat
                         /\ sent[Timing] < plan.number /\ plan.number < sequence
  /\ clock < MaxClock =>
       sequence + Pending + Undrawn <= Seed(clock) + arrived + Allowance

\* A second is worth NumbersPerTick numbers, which the corridors and messages of one
\* second do not use up.
LEMMA SecondsAreRich ==
  ASSUME NetworkInv
  PROVE  /\ Corridors \in Nat
         /\ arrived + Corridors <= NumbersPerTick
         /\ Seed(clock) \in Nat /\ Seed(clock) > 0
         /\ Seed(clock + 1) = Seed(clock) + NumbersPerTick
<1>1. Corridors \in Nat
  BY NetworkGraph, ComponentShape, FS_CardinalityType DEF Corridors
<1>2. MessagesPerTick + Corridors <= NumbersPerTick
  BY SeedAssumption DEF SeedAssumption, NetworkInv, Corridors
<1>3. arrived \in Nat /\ arrived <= MessagesPerTick /\ clock \in Nat /\ clock > 0
  BY CoordinatorConstants DEF NetworkInv
<1>4. clock * NumbersPerTick \in Nat /\ clock * NumbersPerTick > 0
      /\ (clock + 1) * NumbersPerTick = clock * NumbersPerTick + NumbersPerTick
  BY <1>3, CoordinatorConstants
<1> QED
  BY <1>1, <1>2, <1>3, <1>4, CoordinatorConstants DEF Seed

\* What a step draws.
LEMMA TodoCount ==
  ASSUME LoopInv
  PROVE  /\ Cardinality(todo) \in Nat
         /\ main = "publish" => Cardinality(todo) > 0
                                /\ Cardinality(todo \ {plan.corridor}) = Cardinality(todo) - 1
<1>1. IsFiniteSet(todo)
  BY DEF LoopInv
<1>2. Cardinality(todo) \in Nat
  BY <1>1, FS_CardinalityType
<1>3. ASSUME main = "publish"
      PROVE  Cardinality(todo) > 0
             /\ Cardinality(todo \ {plan.corridor}) = Cardinality(todo) - 1
  <2>1. plan.corridor \in todo
    BY <1>3 DEF LoopInv
  <2>2. Cardinality(todo) # 0
    BY <1>1, <2>1, FS_EmptySet
  <2> QED
    BY <1>1, <1>2, <2>1, <2>2, FS_RemoveElement
<1> QED
  BY <1>2, <1>3

\* The main loop.
LEMMA MainNumbers ==
  ASSUME NetworkInv, LoopInv, NumberInv, MainStep
  PROVE  NumberInv'
<1>1. /\ graph' = graph /\ Corridors' = Corridors
      /\ Corridors \in Nat /\ arrived + Corridors <= NumbersPerTick
      /\ Seed(clock) \in Nat /\ Seed(clock + 1) = Seed(clock) + NumbersPerTick
  BY NetworkStep, SecondsAreRich, Zenon DEF Corridors, Next
<1>2. clock \in Nat /\ arrived \in Nat /\ NumbersPerTick \in Nat /\ Cardinality(todo) \in Nat
  BY CoordinatorConstants, TodoCount DEF NetworkInv
<1>3. telemetryVars' = telemetryVars /\ paho' = paho /\ Pending' = Pending /\ Pending \in {0, 1}
  BY Zenon DEF MainStep, Start, Check, ComputePlan, PublishPlan, PlansDone, Pulse, Sleep,
     Shutdown, Join, Pending
<1>4. number' = number /\ node' = node
  BY <1>3 DEF telemetryVars
<1>5. CASE Start \/ PlansDone \/ Pulse \/ Shutdown \/ Join
  <2>1. /\ UNCHANGED <<clock, arrived, sequence, sent, todo>> /\ main # "publish"
        /\ main' \in {"check", "pulse", "sleep", "join", "stopped"}
    BY <1>5 DEF Start, PlansDone, Pulse, Shutdown, Join, networkVars, brokerVars
  <2>2. Undrawn' = 0 /\ Undrawn \in Nat
    BY <1>2, <2>1 DEF Undrawn
  <2>3. Allowance' >= Allowance /\ Allowance \in Nat /\ Allowance' \in Nat
    BY <1>1, <1>5 DEF Start, PlansDone, Pulse, Shutdown, Join, Allowance
  <2>4. clock' < MaxClock => sequence' + Pending' + Undrawn' <= Seed(clock') + arrived' + Allowance'
    BY <1>1, <1>2, <1>3, <2>1, <2>2, <2>3 DEF NumberInv
  <2> QED
    BY <1>3, <1>4, <2>1, <2>4 DEF NumberInv
<1>6. CASE Check
  <2>1. /\ UNCHANGED <<clock, arrived, sequence, sent>> /\ main = "check"
        /\ main' \in {"plan", "pulse", "shutdown"}
    BY <1>6 DEF Check, networkVars, brokerVars
  <2>2. Undrawn = 0 /\ Allowance = 0
    BY <2>1 DEF Undrawn, Allowance
  <2>3. Undrawn' <= Allowance' /\ Undrawn' \in Nat /\ Allowance' \in Nat
    <3>1. CASE main' = "plan"
      <4>1. \E corridors \in IdentifyCorridors(graph) :
              todo' = {corridors[C] : C \in {D \in DOMAIN corridors :
                                               Len(corridors[D]) >= 2}}
        BY <1>6, <3>1 DEF Check
      <4>2. IsFiniteSet(todo') /\ Cardinality(todo') <= Corridors
        BY <4>1, NetworkGraph, RoundShape, Zenon DEF Corridors
      <4>3. Cardinality(todo') \in Nat
        BY <4>2, FS_CardinalityType
      <4> QED
        BY <1>1, <3>1, <4>2, <4>3 DEF Undrawn, Allowance
    <3>2. CASE main' # "plan"
      BY <1>1, <2>1, <3>2 DEF Undrawn, Allowance
    <3> QED
      BY <3>1, <3>2
  <2>4. clock' < MaxClock => sequence' + Pending' + Undrawn' <= Seed(clock') + arrived' + Allowance'
    BY <1>1, <1>2, <1>3, <2>1, <2>2, <2>3 DEF NumberInv
  <2> QED
    BY <1>3, <1>4, <2>1, <2>4 DEF NumberInv
<1>7. CASE ComputePlan
  <2>1. /\ UNCHANGED <<clock, arrived, sent, todo>> /\ main = "plan" /\ main' = "publish"
        /\ sequence' = sequence + 1 /\ plan'.number = sequence
    BY <1>7 DEF ComputePlan, networkVars, brokerVars
  <2>2. Undrawn = Cardinality(todo) /\ Undrawn' = Cardinality(todo) - 1
    BY <2>1 DEF Undrawn
  <2>3. Allowance' = Allowance /\ Allowance \in Nat
    BY <1>1, <2>1 DEF Allowance
  <2>4. clock' < MaxClock => sequence' + Pending' + Undrawn' <= Seed(clock') + arrived' + Allowance'
    BY <1>1, <1>2, <1>3, <2>1, <2>2, <2>3 DEF NumberInv
  <2>5. sent[Timing] < sequence /\ sequence \in Nat
    BY DEF NumberInv
  <2>6. \A t \in Nodes \cup {Timing} : sent[t] \in Nat /\ sent[t] < sequence'
    BY <2>1 DEF NumberInv
  <2> QED
    BY <1>3, <1>4, <2>1, <2>4, <2>5, <2>6 DEF NumberInv
<1>8. CASE PublishPlan
  <2>1. /\ UNCHANGED <<clock, arrived, sequence>> /\ main = "publish" /\ main' = "plan"
        /\ sent' = [sent EXCEPT ![Timing] = plan.number] /\ todo' = todo \ {plan.corridor}
    BY <1>8 DEF PublishPlan, networkVars
  <2>2. Undrawn' = Cardinality(todo) - 1 /\ Undrawn = Cardinality(todo) - 1
    BY <2>1, TodoCount DEF Undrawn
  <2>3. Allowance' = Allowance /\ Allowance \in Nat
    BY <1>1, <2>1 DEF Allowance
  <2>4. clock' < MaxClock => sequence' + Pending' + Undrawn' <= Seed(clock') + arrived' + Allowance'
    BY <1>1, <1>2, <1>3, <2>1, <2>2, <2>3 DEF NumberInv
  <2>5. sent' \in [Nodes \cup {Timing} -> Nat]
        /\ (\A t \in Nodes \cup {Timing} : sent'[t] < sequence)
        /\ (\A n \in Nodes : sent'[n] = sent[n])
    BY <2>1, CoordinatorConstants DEF NumberInv
  <2> QED
    BY <1>3, <1>4, <2>1, <2>4, <2>5 DEF NumberInv
<1>9. CASE Sleep
  <2>1. /\ UNCHANGED <<sequence, sent, todo>> /\ main = "sleep" /\ main' = "check"
        /\ \/ clock < MaxClock /\ clock' = clock + 1 /\ arrived' = 0
           \/ clock >= MaxClock /\ clock' = clock
    BY <1>9, CoordinatorConstants DEF Sleep, brokerVars, NetworkInv
  <2>2. Undrawn = 0 /\ Undrawn' = 0 /\ Allowance = Corridors /\ Allowance' = 0
    BY <2>1 DEF Undrawn, Allowance
  <2>3. clock' < MaxClock => sequence' + Pending' + Undrawn' <= Seed(clock') + arrived' + Allowance'
    BY <1>1, <1>2, <1>3, <2>1, <2>2, CoordinatorConstants DEF NumberInv
  <2> QED
    BY <1>3, <1>4, <2>1, <2>3 DEF NumberInv
<1> QED
  BY <1>5, <1>6, <1>7, <1>8, <1>9, Zenon DEF MainStep

\* A message adds to the count of the second what its command may add to the counter.
LEMMA ChargedSecond ==
  ASSUME NEW s \in Int, NEW u \in Int, NEW base \in Int, NEW a \in Int, NEW b \in Int,
         NEW p \in Int, NEW q \in Int, NEW c \in Int,
         b + p <= a + q, s + q + u <= base + b + c
  PROVE  s + p + u <= base + a + c
OBVIOUS

\* The Paho thread and the environment.
LEMMA OtherNumbers ==
  ASSUME NetworkInv, LoopInv, NumberInv, PahoStep \/ Environment \/ UNCHANGED vars
  PROVE  NumberInv'
<1>1. /\ graph' = graph /\ Corridors' = Corridors
      /\ Corridors \in Nat /\ arrived + Corridors <= NumbersPerTick
      /\ Seed(clock) \in Nat /\ Seed(clock + 1) = Seed(clock) + NumbersPerTick
  BY NetworkStep, SecondsAreRich, Zenon DEF Corridors, Next
<1>2. clock \in Nat /\ arrived \in Nat /\ NumbersPerTick \in Nat /\ Cardinality(todo) \in Nat
      /\ MaxClock \in Nat
  BY CoordinatorConstants, TodoCount DEF NetworkInv
<1>3. Pending \in {0, 1} /\ Undrawn \in Nat /\ Allowance \in Nat
  <2>1. Undrawn \in Nat
    BY <1>2, TodoCount DEF Undrawn
  <2> QED
    BY <1>1, <2>1 DEF Pending, Allowance
<1>4. ASSUME UNCHANGED <<todo, main>>
      PROVE  Undrawn' = Undrawn /\ Allowance' = Allowance
  BY <1>1, <1>4, Zenon DEF Undrawn, Allowance
<1>5. ASSUME UNCHANGED loopVars, UNCHANGED <<sequence, number, sent>>, clock' = clock,
             \/ arrived' = arrived /\ (paho' # "audit" \/ paho = "audit")
             \/ arrived' = arrived + 1 /\ paho \notin {"audit", "reply"},
             paho' = "audit" => node' \in Nodes,
             paho' = "reply" => paho = "reply" /\ node' = node
      PROVE  NumberInv'
  <2>1. Pending' \in {0, 1} /\ arrived' \in Nat /\ arrived + Pending' <= arrived' + Pending
    BY <1>2, <1>5 DEF Pending
  <2>2. Undrawn' = Undrawn /\ Allowance' = Allowance /\ main' = main /\ plan' = plan
    BY <1>4, <1>5 DEF loopVars
  <2>3. clock' < MaxClock => sequence' + Pending' + Undrawn' <= Seed(clock') + arrived' + Allowance'
    <3>1. sequence' = sequence /\ clock' = clock /\ sequence \in Nat
      BY <1>5 DEF NumberInv
    <3>2. clock < MaxClock => sequence + Pending + Undrawn <= Seed(clock) + arrived + Allowance
      BY DEF NumberInv
    <3>3. Seed(clock') = Seed(clock) /\ Seed(clock) \in Nat
      BY <1>1, <3>1
    <3>4. sequence \in Int /\ arrived \in Int /\ arrived' \in Int /\ Undrawn \in Int
          /\ Allowance \in Int /\ Seed(clock) \in Int
      BY <1>2, <1>3, <2>1, <3>1, <3>3
    <3>5. Pending \in Int /\ Pending' \in Int
      BY <1>3, <2>1
    <3> QED
      BY <2>1, <2>2, <3>1, <3>2, <3>3, <3>4, <3>5, ChargedSecond, Zenon
  <2> QED
    BY <1>5, <2>2, <2>3 DEF NumberInv
<1>6. CASE HandlingFails \/ PublishOverride \/ PathCleared \/ Signal \/ Connect \/ Disconnect
           \/ UNCHANGED vars
  <2>1. /\ UNCHANGED loopVars /\ UNCHANGED <<sequence, number, sent>> /\ clock' = clock
        /\ arrived' = arrived
    BY <1>6 DEF HandlingFails, PublishOverride, PathCleared, Signal, Connect, Disconnect,
       networkVars, telemetryVars, brokerVars, vars
  <2>2. paho' = "idle" \/ (paho' = paho /\ node' = node)
    BY <1>6 DEF HandlingFails, PublishOverride, PathCleared, Signal, Connect, Disconnect,
       telemetryVars, vars
  <2> QED
    BY <1>5, <2>1, <2>2 DEF NumberInv
<1>7. CASE ReceiveTelemetry \/ ReceiveEmergency
  <2>1. /\ UNCHANGED loopVars /\ UNCHANGED <<sequence, number, sent>> /\ clock' = clock
        /\ arrived' = arrived + 1 /\ paho = "idle"
    BY <1>7 DEF ReceiveTelemetry, ReceiveEmergency, Receive, telemetryVars, brokerVars
  <2>2. paho' \in {"idle", "clear"} \/ (paho' = "audit" /\ node' \in Nodes)
    <3>1. CASE ReceiveTelemetry
      BY <2>1, <3>1 DEF ReceiveTelemetry
    <3>2. CASE ReceiveEmergency
      BY <2>1, <3>2 DEF ReceiveEmergency
    <3> QED
      BY <1>7, <3>1, <3>2
  <2> QED
    BY <1>5, <2>1, <2>2
<1>8. CASE Decide
  <2>1. /\ UNCHANGED loopVars /\ clock' = clock /\ arrived' = arrived /\ sent' = sent
        /\ number' = sequence /\ sequence' = sequence + 1 /\ node' = node
        /\ paho = "audit" /\ paho' = "reply"
    BY <1>8 DEF Decide, networkVars, brokerVars
  <2>2. Pending = 1 /\ Pending' = 0
    BY <2>1 DEF Pending
  <2>3. Undrawn' = Undrawn /\ Allowance' = Allowance /\ main' = main /\ plan' = plan
    BY <1>4, <2>1 DEF loopVars
  <2>4. clock' < MaxClock => sequence' + Pending' + Undrawn' <= Seed(clock') + arrived' + Allowance'
    BY <1>1, <1>2, <1>3, <2>1, <2>2, <2>3 DEF NumberInv
  <2>5. \A t \in Nodes \cup {Timing} : sent[t] \in Nat /\ sent[t] < sequence'
    BY <2>1 DEF NumberInv
  <2>6. node \in Nodes /\ sent[node] < sequence
    BY <2>1 DEF NumberInv
  <2>7. main = "publish" => /\ plan.number \in Nat /\ sent[Timing] < plan.number
                            /\ plan.number < sequence'
    BY <2>1 DEF NumberInv
  <2> QED
    BY <2>1, <2>3, <2>4, <2>5, <2>6, <2>7 DEF NumberInv
<1>9. CASE PublishCommand
  <2>1. /\ UNCHANGED loopVars /\ clock' = clock /\ arrived' = arrived
        /\ sent' = [sent EXCEPT ![node] = number] /\ sequence' = sequence
        /\ number' = 0 /\ paho = "reply" /\ paho' = "idle"
    BY <1>9 DEF PublishCommand, networkVars
  <2>2. Pending = 0 /\ Pending' = 0
    BY <2>1 DEF Pending
  <2>3. Undrawn' = Undrawn /\ Allowance' = Allowance /\ main' = main /\ plan' = plan
    BY <1>4, <2>1 DEF loopVars
  <2>4. clock' < MaxClock => sequence' + Pending' + Undrawn' <= Seed(clock') + arrived' + Allowance'
    BY <2>1, <2>2, <2>3 DEF NumberInv
  <2>5. sent' \in [Nodes \cup {Timing} -> Nat]
        /\ \A t \in Nodes \cup {Timing} : sent'[t] < sequence
        /\ sent'[Timing] = sent[Timing]
    BY <2>1, CoordinatorConstants DEF NumberInv
  <2> QED
    BY <2>1, <2>3, <2>4, <2>5 DEF NumberInv
<1>10. CASE Restart
  <2>1. /\ clock < MaxClock /\ clock' = clock + 1 /\ arrived' = 0 /\ main' = "boot"
        /\ sequence' = Seed(clock') /\ paho' = "idle" /\ number' = 0 /\ sent' = sent
    BY <1>10 DEF Restart, brokerVars
  <2>2. Pending' = 0 /\ Undrawn' = 0 /\ Allowance' = 0
    BY <2>1 DEF Pending, Undrawn, Allowance
  <2>3. Allowance <= Corridors
    BY <1>1 DEF Allowance
  <2>4. sequence <= sequence' /\ sequence' \in Nat /\ sequence' = Seed(clock')
        /\ Seed(clock') \in Nat
    BY <1>1, <1>2, <1>3, <2>1, <2>3 DEF NumberInv
  <2>5. \A t \in Nodes \cup {Timing} : sent[t] < sequence'
    BY <2>4 DEF NumberInv
  <2>6. clock' < MaxClock => sequence' + Pending' + Undrawn' <= Seed(clock') + arrived' + Allowance'
    BY <2>1, <2>2, <2>4
  <2> QED
    BY <2>1, <2>4, <2>5, <2>6 DEF NumberInv
<1> QED
  BY <1>6, <1>7, <1>8, <1>9, <1>10, Zenon DEF PahoStep, Environment

\* All of the coordinator starts as the invariants have it.
LEMMA Boot == ASSUME Init PROVE NetworkInv /\ LoopInv /\ NumberInv
<1>1. NetworkInv
  BY CoordinatorConstants DEF Init, NetworkInv
<1>2. LoopInv
  <2>1. /\ main = "boot" /\ running = FALSE /\ todo = {} /\ plan = Nobody
        /\ last_plan_time = Epoch /\ last_pulse_time = Epoch
    BY DEF Init
  <2> QED
    BY <2>1, FS_EmptySet DEF LoopInv, Epoch
<1>3. NumberInv
  <2>1. /\ sequence = Seed(clock) /\ number = 0 /\ paho = "idle" /\ main = "boot"
        /\ sent = [t \in Nodes \cup {Timing} |-> 0]
    BY DEF Init
  <2>2. Seed(clock) \in Nat /\ Seed(clock) > 0 /\ arrived \in Nat
    BY <1>1, SecondsAreRich DEF NetworkInv
  <2>3. Pending = 0 /\ Undrawn = 0 /\ Allowance = 0
    BY <2>1 DEF Pending, Undrawn, Allowance
  <2>4. sequence + Pending + Undrawn <= Seed(clock) + arrived + Allowance
    BY <2>1, <2>2, <2>3
  <2> QED
    BY <2>1, <2>2, <2>4 DEF NumberInv
<1> QED
  BY <1>1, <1>2, <1>3

\* The three together are inductive.
THEOREM CoordinatorInvariance == Spec => [](NetworkInv /\ LoopInv /\ NumberInv)
<1>1. Init => NetworkInv /\ LoopInv /\ NumberInv
  BY Boot
<1>2. NetworkInv /\ LoopInv /\ NumberInv /\ [Next]_vars => NetworkInv' /\ LoopInv' /\ NumberInv'
  BY NetworkStep, LoopStep, MainNumbers, OtherNumbers, Zenon DEF Next
<1> QED
  BY <1>1, <1>2, PTL DEF Spec

\* On every topic the numbers increase, through any interleaving of the two threads and
\* any number of restarts: an edge node never drops a message as a repeat.
THEOREM NumbersDoIncrease == Spec => NumbersIncrease
<1>1. /\ NetworkInv /\ LoopInv /\ NumberInv /\ [Next]_vars
      => \A t \in DOMAIN sent : sent'[t] # sent[t] => sent'[t] > sent[t]
  <2> SUFFICES ASSUME NumberInv, [Next]_vars, NEW t \in DOMAIN sent, sent'[t] # sent[t]
               PROVE  sent'[t] > sent[t]
    OBVIOUS
  <2>1. sent \in [Nodes \cup {Timing} -> Nat] /\ t \in Nodes \cup {Timing}
    BY DEF NumberInv
  <2>2. CASE PublishPlan
    <3>1. main = "publish" /\ sent' = [sent EXCEPT ![Timing] = plan.number]
      BY <2>2 DEF PublishPlan
    <3> QED
      BY <2>1, <3>1 DEF NumberInv
  <2>3. CASE PublishCommand
    <3>1. paho = "reply" /\ sent' = [sent EXCEPT ![node] = number]
      BY <2>3 DEF PublishCommand
    <3> QED
      BY <2>1, <3>1 DEF NumberInv
  <2>4. CASE ~(PublishPlan \/ PublishCommand)
    <3>1. sent' = sent
      BY <2>4, Zenon
         DEF Next, MainStep, PahoStep, Environment, Start, Check, ComputePlan, PlansDone,
             Pulse, Sleep, Shutdown, Join, HandlingFails, Decide, PublishOverride,
             PathCleared, Restart, Signal, Connect, Disconnect, ReceiveTelemetry,
             ReceiveEmergency, vars, brokerVars
    <3> QED
      BY <3>1
  <2> QED
    BY <2>2, <2>3, <2>4
<1> QED
  BY <1>1, CoordinatorInvariance, PTL DEF Spec, NumbersIncrease

----------------------------------------------------------------------------
(* The green wave. *)

\* The caches of the Paho thread.
CacheInv ==
  /\ telemetry \subseteq {IntersectionOf[n] : n \in Nodes}
  /\ node \in Nodes \cup {Nobody}
  /\ link \in {"down", "up"}

LEMMA CacheStep ==
  ASSUME CacheInv, [Next]_vars
  PROVE  CacheInv'
<1>1. CASE ReceiveTelemetry
  <2>1. link' = link
    BY <1>1 DEF ReceiveTelemetry
  <2>2. PICK n \in Nodes : \/ telemetry' = telemetry \cup {Key(n)} /\ node' = n
                           \/ UNCHANGED <<telemetry, node>>
    BY <1>1 DEF ReceiveTelemetry
  <2> QED
    BY <2>1, <2>2 DEF CacheInv, Key
<1>2. CASE MainStep \/ PahoStep
  <2>1. telemetry' = telemetry /\ node' \in {node, Nobody} /\ link' \in {link, "down"}
    BY <1>2 DEF MainStep, Start, Check, ComputePlan, PublishPlan, PlansDone, Pulse, Sleep,
       Shutdown, Join, PahoStep, HandlingFails, Decide, PublishCommand, PublishOverride,
       PathCleared, telemetryVars
  <2> QED
    BY <2>1 DEF CacheInv
<1>3. CASE Restart \/ Signal \/ Connect \/ Disconnect \/ ReceiveEmergency \/ UNCHANGED vars
  <2>1. /\ telemetry' \in {telemetry, {}} /\ node' \in {node, Nobody}
        /\ link' \in {link, "down", "up"}
    BY <1>3 DEF Restart, Signal, Connect, Disconnect, ReceiveEmergency, telemetryVars, vars
  <2> QED
    BY <2>1 DEF CacheInv
<1> QED
  BY <1>1, <1>2, <1>3, Zenon DEF Next, Environment

\* The invariants are stronger than the types.
LEMMA TablesTyped ==
  ASSUME NetworkInv, LoopInv, NumberInv, EmergencyInv, CacheInv
  PROVE  TypeOK
<1>1. clock \in 0..MaxClock /\ arrived \in 0..MessagesPerTick
  BY CoordinatorConstants DEF NetworkInv
<1>2. DOMAIN graph \subseteq Intersections \X Intersections
  BY NetworkGraph, EdgeAttributes
<1>3. /\ main \in {"boot", "check", "plan", "publish", "pulse", "sleep",
                   "shutdown", "join", "stopped"}
      /\ running \in BOOLEAN
      /\ {last_plan_time, last_pulse_time} \subseteq {Epoch} \cup 0..clock
      /\ plan = Nobody \/ plan.corridor \in todo
  BY Zenon DEF LoopInv
<1>4. ASSUME NEW corridor \in todo
      PROVE  Len(corridor) >= 2 /\ ToSet(corridor) \subseteq Intersections
  BY DEF LoopInv, ToSet
<1>5. sequence \in Nat /\ DOMAIN sent = Nodes \cup {Timing}
      /\ {number} \cup {sent[t] : t \in DOMAIN sent} \subseteq Nat
  BY DEF NumberInv
<1>6. /\ paho \in {"idle", "audit", "reply", "clear"} /\ delay \in Nat
      /\ DOMAIN active_emergencies \subseteq {e.id : e \in Emergencies}
      /\ emergency \in Emergencies \cup {Nobody}
  BY DEF EmergencyInv
<1>7. Len(overrides) <= Cardinality(Intersections)
  <2>1. Cardinality(Intersections) \in Nat
    BY FS_CardinalityType, CoordinatorAssumption DEF CoordinatorAssumption
  <2>2. PICK S : overrides \in Seq(S)
    BY DEF EmergencyInv
  <2>3. CASE paho = "clear"
    <3>1. Len(overrides) <= Len(Route) /\ Len(Route) \in 1..Cardinality(Intersections)
      BY <2>3 DEF EmergencyInv, Following
    <3> QED
      BY <2>1, <2>2, <3>1
  <2>4. CASE paho # "clear"
    BY <2>1, <2>4 DEF EmergencyInv
  <2> QED
    BY <2>3, <2>4
<1> QED
  BY <1>1, <1>2, <1>3, <1>4, <1>5, <1>6, <1>7, Zenon DEF TypeOK, CacheInv

\* A number of scaled metres, less the whole seconds of its offset, is a remainder of a
\* second, modulo the cycle.
LEMMA OffsetArithmetic ==
  ASSUME NEW a \in Nat, NEW v \in Nat, NEW c \in Nat, v > 0, c > 0
  PROVE  (a - v * ((a \div v) % c)) % (v * c) < v
<1> DEFINE q == a \div v
           r == a % v
           k == q \div c
           o == q % c
<1>1. q \in Nat /\ r \in Nat /\ r < v /\ a = v * q + r
  BY SMTT(30)
<1>2. k \in Nat /\ o \in Nat /\ o < c /\ q = c * k + o
  <2> HIDE DEF q
  <2> QED
    BY <1>1, SMTT(30)
<1> HIDE DEF q, r, k, o
<1>3. v * q = v * (c * k) + v * o
  BY <1>1, <1>2
<1>4. v * (c * k) = (v * c) * k
  BY <1>1, <1>2
<1>5. a - v * o = (v * c) * k + r
  <2>1. v * q \in Int /\ v * o \in Int /\ (v * c) * k \in Int
    BY <1>1, <1>2
  <2> QED
    BY <1>1, <1>3, <1>4, <2>1
<1>6. v * c \in Nat /\ v * c >= v
  BY SMTT(30)
<1>7. ((v * c) * k + r) % (v * c) = r
  <2>1. v * c > 0 /\ r < v * c
    BY <1>1, <1>6
  <2> DEFINE d == v * c
  <2>2. d \in Nat /\ d > 0 /\ r < d
    BY <1>6, <2>1
  <2> HIDE DEF d
  <2>3. (d * k + r) % d = r
    BY <1>1, <1>2, <2>2, SMTT(30)
  <2> QED
    BY <2>3 DEF d
<1>8. (a - v * o) % (v * c) < v
  BY <1>1, <1>5, <1>7
<1> QED
  BY <1>8 DEF o, q

\* The offsets of a published plan are a green wave at the design speed, on every
\* network; and the tables of the coordinator stay well typed.
THEOREM OffsetsMakeAWave == Spec => []GreenWaveHolds
<1>1. Init => EmergencyInv /\ CacheInv
  <2> SUFFICES ASSUME Init PROVE EmergencyInv /\ CacheInv
    OBVIOUS
  <2>1. /\ paho = "idle" /\ delay = 0 /\ overrides = <<>> /\ emergency = Nobody
        /\ active_emergencies = <<>> /\ telemetry = {} /\ node = Nobody /\ link = "down"
    BY DEF Init
  <2>2. overrides \in Seq({}) /\ DOMAIN active_emergencies \subseteq {e.id : e \in Emergencies}
    BY <2>1
  <2> QED
    BY <2>1, <2>2 DEF EmergencyInv, CacheInv
<1>2. /\ NetworkInv /\ LoopInv /\ NumberInv /\ EmergencyInv /\ CacheInv /\ [Next]_vars
      => EmergencyInv' /\ CacheInv'
  BY EmergencyStep, CacheStep
<1>3. NetworkInv /\ LoopInv /\ NumberInv /\ EmergencyInv /\ CacheInv => GreenWaveHolds
  <2> SUFFICES ASSUME NetworkInv, LoopInv, NumberInv, EmergencyInv, CacheInv
               PROVE  GreenWaveHolds
    OBVIOUS
  <2>1. TypeOK
    BY TablesTyped
  <2>2. ASSUME plan # Nobody, NEW i \in DOMAIN plan.corridor
        PROVE  LET arrival == Travelled(graph, plan.corridor)[i]
                   cycle   == DesignSpeed * CycleLength
               IN  (arrival - DesignSpeed * plan.offsets[i]) % cycle < DesignSpeed
    <3>1. plan.corridor \in Seq(Intersections) /\ plan.offsets = Offsets(plan.corridor)
      BY <2>2 DEF LoopInv
    <3> DEFINE n == Len(plan.corridor)
    <3>2. n \in Nat /\ DOMAIN plan.corridor = 1..n
      BY <3>1
    <3>3. Travelled(graph, plan.corridor)[i] \in Nat
      BY <2>2, <3>2, NetworkGraph, TravelledSum
    <3>4. plan.offsets[i] = (Travelled(graph, plan.corridor)[i] \div DesignSpeed) % CycleLength
      BY <2>2, <3>1, Zenon DEF Offsets
    <3> QED
      BY <3>3, <3>4, OffsetArithmetic, CoordinatorConstants
  <2> QED
    BY <2>1, <2>2, Zenon DEF GreenWaveHolds
<1> QED
  BY <1>1, <1>2, <1>3, CoordinatorInvariance, PTL DEF Spec

=============================================================================
