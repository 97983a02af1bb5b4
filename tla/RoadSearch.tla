------------------------------ MODULE RoadSearch ------------------------------
(***************************************************************************)
(* The brain's road network and its shortest path by travel time           *)
(* (brain/src/coordination/graph_model.py, TrafficNetwork): Dijkstra's     *)
(* algorithm with a heap that keeps outdated entries.                      *)
(*                                                                         *)
(* A road is [from, to, length, speed] in metres and km/h; the travel time *)
(* is in tenths of a second.  Ids are numbers: the heap breaks ties by id. *)
(***************************************************************************)
EXTENDS Integers, Sequences, FiniteSetsExt

CONSTANTS
  Places,       \* ids of the intersections, numbers other than 0
  Start, Goal,  \* the ends of the route asked for
  RoadPool,     \* the roads that may be added
  Infinity      \* longer than any route

(* A road closed to traffic, with a speed limit of zero, takes for ever.   *)
travel_time(road) == IF road.speed <= 0 THEN Infinity ELSE (36 * road.length) \div road.speed

(* Lengths are not negative, and no route without a repeated intersection   *)
(* takes as long as Infinity.                                              *)
ASSUME SearchAssumption ==
  /\ IsFiniteSet(Places) /\ Places \subseteq Nat \ {0}
  /\ RoadPool \subseteq [from : Nat, to : Nat, length : Nat, speed : Int]
  /\ Infinity \in Nat \ {0}
  /\ \A road \in RoadPool :
       road.speed > 0 => Cardinality(Places) * travel_time(road) < Infinity

VARIABLES
  searchPc,  \* "build", "search", "walk", "found" or "no_path"
  roads,     \* the roads of the network
  dist,      \* dist[n]: the best travel time to n so far
  prev,      \* prev[n]: the intersection before n on that route, 0 for None
  heap,      \* entries <<travel time, intersection>>
  path       \* the route, from its end

searchVars == <<searchPc, roads, dist, prev, heap, path>>

SearchTypeOK ==
  /\ searchPc \in {"build", "search", "walk", "found", "no_path"}
  /\ dist \in [Places -> 0 .. Infinity]
  /\ prev \in [Places -> Places \cup {0}]
  /\ \A e \in heap : e[1] \in 0 .. Infinity /\ e[2] \in Places
  /\ Len(path) <= Cardinality(Places)

(* A network of intersections without roads. *)
SearchInit ==
  /\ searchPc = "build"
  /\ roads = {}
  /\ dist = [n \in Places |-> Infinity]
  /\ prev = [n \in Places |-> 0]
  /\ heap = {}
  /\ path = <<>>

(* A road between intersections that are known; any other is refused.      *)
add_road(road) ==
  /\ searchPc = "build"
  /\ {road.from, road.to} \subseteq Places
  /\ roads' = roads \cup {road}
  /\ UNCHANGED <<searchPc, dist, prev, heap, path>>

(* The route from Start to Goal is asked for. *)
shortest_path ==
  /\ searchPc = "build"
  /\ {Start, Goal} \subseteq Places
  /\ searchPc' = "search"
  /\ dist' = [dist EXCEPT ![Start] = 0]
  /\ heap' = {<<0, Start>>}
  /\ UNCHANGED <<roads, prev, path>>

RoadsFrom(u) == { r \in roads : r.from = u }

-----------------------------------------------------------------------------
\* MUTANT: the entries are ordered by intersection.
heappopById(h) == CHOOSE e \in h : \A f \in h : e[2] < f[2] \/ (e[2] = f[2] /\ e[1] <= f[1])
heappop(h) == CHOOSE e \in h : \A f \in h : e[1] < f[1] \/ (e[1] = f[1] /\ e[2] <= f[2])

Outdated(e) == e[1] > dist[e[2]]

(* Arrival at n from u; of parallel roads the quickest remains (an entry a *)
(* slower one left in the heap is outdated).                               *)
Arrival(u, n) ==
  Min({Infinity} \cup { dist[u] + travel_time(r) : r \in { x \in RoadsFrom(u) : x.to = n } })

Closer(u) == { n \in Places : Arrival(u, n) < dist[n] }

Relax(u) ==
  /\ dist' = [n \in Places |-> IF n \in Closer(u) THEN Arrival(u, n) ELSE dist[n]]
  /\ prev' = [n \in Places |-> IF n \in Closer(u) THEN u ELSE prev[n]]

(* One pass of the loop. *)
Visit ==
  /\ searchPc = "search"
  /\ heap # {}
  /\ LET e    == heappop(heap)
         rest == heap \ {e}
     IN  IF Outdated(e)
         THEN heap' = rest /\ UNCHANGED <<searchPc, dist, prev>>
         ELSE IF e[2] = Goal
         THEN heap' = rest /\ searchPc' = "walk" /\ UNCHANGED <<dist, prev>>
         ELSE /\ Relax(e[2])
              /\ heap' = rest \cup { <<Arrival(e[2], n), n>> : n \in Closer(e[2]) }
              /\ UNCHANGED searchPc
  /\ UNCHANGED <<roads, path>>

HeapEmpty ==
  /\ searchPc = "search"
  /\ heap = {}
  /\ searchPc' = IF dist[Goal] = Infinity THEN "no_path" ELSE "walk"
  /\ UNCHANGED <<roads, dist, prev, heap, path>>

(* The route is walked back from its end until an intersection without a   *)
(* predecessor.                                                            *)
WalkBack ==
  /\ searchPc = "walk"
  /\ LET node == IF path = <<>> THEN Goal ELSE prev[Head(path)]
     IN  IF node = 0 THEN searchPc' = "found" /\ UNCHANGED path
         ELSE path' = <<node>> \o path /\ UNCHANGED searchPc
  /\ UNCHANGED <<roads, dist, prev, heap>>

SearchNext ==
  \/ \E road \in RoadPool : add_road(road)
  \/ shortest_path \/ Visit \/ HeapEmpty \/ WalkBack

-----------------------------------------------------------------------------
(* The reference: the routes that visit no intersection twice, and the      *)
(* time they take.                                                          *)
IsRoute(p) ==
  /\ p[1] = Start /\ p[Len(p)] = Goal
  /\ \A i, j \in DOMAIN p : i # j => p[i] # p[j]
  /\ \A k \in 1 .. Len(p) - 1 :
       \E r \in RoadsFrom(p[k]) : r.to = p[k + 1] /\ travel_time(r) < Infinity

Routes == { p \in UNION { [1 .. n -> Places] : n \in 1 .. Cardinality(Places) } : IsRoute(p) }

(* The quickest road of a leg, and the sum over the legs. *)
Leg(u, v) == Min({ travel_time(r) : r \in { x \in RoadsFrom(u) : x.to = v } })

Takes(p) ==
  LET total[k \in 0 .. Len(p) - 1] ==
        IF k = 0 THEN 0 ELSE total[k - 1] + Leg(p[k], p[k + 1])
  IN  total[Len(p) - 1]

(* The search answers with a route of the network that no other beats, and  *)
(* with the time it takes; it refuses only a goal no route reaches.         *)
ShortestFound ==
  /\ searchPc = "found" =>
       /\ IsRoute(path)
       /\ Takes(path) = dist[Goal]
       /\ \A p \in Routes : dist[Goal] <= Takes(p)
  /\ searchPc = "no_path" => Routes = {}
=============================================================================
