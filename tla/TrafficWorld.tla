----------------------------- MODULE TrafficWorld -----------------------------
(***************************************************************************)
(* How a simulation gets its network and its demand.  Four ways, chosen in *)
(* worldKind: the junction the network generator's command line makes, the *)
(* corridor of generate_corridor.py, an episode's scenario over the        *)
(* corridor, and the street as cameras filmed it: process_video.py tracks  *)
(* vehicles frame by frame and generate_sumo_traffic.py turns the tracks   *)
(* into departures.                                                        *)
(*                                                                         *)
(* netconvert, the video and the tracker are external: the compilation may *)
(* fail, and a frame shows any set of track ids, -1 for a detection the    *)
(* tracker has not named yet.                                              *)
(***************************************************************************)
EXTENDS Scenarios

CONSTANTS
  WorldKinds,   \* which of the four ways are checked
  Cameras,      \* the filmed arms of the crossing
  Tracks,       \* track ids the tracker may give
  FrameTime,    \* duration of a frame of each camera, in a common unit
  MaxFrames     \* length of the videos, in frames

VARIABLES
  worldKind,   \* "junction", "corridor", "episode" or "recorded"
  worldPc,     \* "film", "compile", "routes", "simulate" or "failed"
  net,         \* the edges of the compiled network
  flows,       \* flows of the demand file
  film,        \* film[c]: for each frame of camera c, the track ids seen
  vehicles     \* vehicles of the demand file, in the order written

worldVars == <<worldKind, worldPc, net, flows, film, vehicles>>

WorldTypeOK ==
  /\ worldPc \in {"film", "compile", "routes", "simulate", "failed"}
  /\ \A f \in flows : f.probability \in 0 .. Certain
  /\ \A c \in Cameras : Len(film[c]) <= MaxFrames
  /\ Len(vehicles) <= Cardinality(Cameras) * Cardinality(Tracks)

FirstWorldStep == [junction |-> "compile", corridor |-> "compile",
                   episode |-> "routes", recorded |-> "film"]

ASSUME WorldAssumption ==
  /\ WorldKinds \subseteq DOMAIN FirstWorldStep
  /\ Cameras \subseteq Arms /\ IsFiniteSet(Tracks)
  /\ MaxFrames \in Nat

WorldInit ==
  /\ worldKind \in WorldKinds
  /\ worldPc = FirstWorldStep[worldKind]
  /\ net = IF worldKind = "episode" THEN generate_corridor(3)
           ELSE IF worldKind = "recorded" THEN generate_single_intersection ELSE {}
  /\ flows = {}
  /\ film = [c \in Cameras |-> <<>>]
  /\ vehicles = <<>>

(* The nodes and edges go through netconvert; an error code is raised.     *)
Compile ==
  /\ worldPc = "compile"
  /\ \/ /\ net' = IF worldKind = "corridor" THEN generate_corridor(3)
                  ELSE generate_single_intersection
        /\ worldPc' = "routes"
     \/ worldPc' = "failed" /\ UNCHANGED net
  /\ UNCHANGED <<worldKind, flows, film, vehicles>>

(* Demand of the generator's command line, through and turning.  Turns are  *)
(* a percentage of the through demand and the probability has 4 decimals.   *)
CliDemand == [north |-> 600, south |-> 500, east |-> 400, west |-> 350]

generate_routes(demands) ==
  LET movements == <<100, 15, 10>>
      share(a, m) == demands[a] * movements[m] * 100
  IN  { [route |-> Crossing(a, TurnMap[a][m]),
         probability |-> ((share(a, m) + 1800) \div 3600) * 10] :
          a \in { x \in DOMAIN demands : demands[x] > 0 }, m \in 1 .. 3 }

(* 1200 cars and 60 buses an hour along the avenue, 300 in each side street *)
(* and 0.02 a second on the two partial routes.                             *)
generate_corridor_routes(n) ==
  LET avenue == {Along(Avenue(n)), Along(Reverse(Avenue(n)))}
      side   == { r \in CorridorRoutes(n) : Len(r) = 2 }
  IN  { [route |-> r, probability |-> p] : r \in avenue, p \in {33330, 1670} }
      \cup { [route |-> r, probability |-> 8330] : r \in side }
      \cup { [route |-> r, probability |-> 2000] : r \in CorridorRoutes(n) \ (avenue \cup side) }

WriteFlows ==
  /\ worldPc = "routes"
  /\ worldKind # "recorded"
  /\ CASE worldKind = "junction" -> flows' = generate_routes(CliDemand)
       [] worldKind = "corridor" -> flows' = generate_corridor_routes(3)
       [] worldKind = "episode"  ->
            \E s \in DOMAIN CURRICULUM : \E base \in CURRICULUM[s] : \E spec \in randomize(base) :
              flows' = scenario_to_routes_xml(spec)
  /\ worldPc' = "simulate"
  /\ UNCHANGED <<worldKind, net, film, vehicles>>

(* One pass of process_video's loop: the detections of the next frame,     *)
(* named or not, are stored under its index.                               *)
TrackFrame(c) ==
  /\ worldPc = "film"
  /\ Len(film[c]) < MaxFrames
  /\ \E seen \in SUBSET (Tracks \cup {-1}) : film' = [film EXCEPT ![c] = Append(@, seen)]
  /\ UNCHANGED <<worldKind, worldPc, net, flows, vehicles>>

FilmEnds ==
  /\ worldPc = "film"
  /\ worldPc' = "routes"
  /\ UNCHANGED <<worldKind, net, flows, film, vehicles>>

(* A named vehicle departs at the first frame that shows it.               *)
extract_vehicles(c) ==
  { [id |-> <<c, v>>, route |-> Crossing(c, TurnMap[c][1]),
     depart |-> FrameTime[c] * (Min({ k \in DOMAIN film[c] : v \in film[c][k] }) - 1)] :
      v \in { t \in Tracks : \E k \in DOMAIN film[c] : t \in film[c][k] } }

(* The list sorted by departure; vehicles that depart together in any order. *)
InDepartureOrder(S) ==
  { s \in [1 .. Cardinality(S) -> S] :
      \A k \in DOMAIN s : \A j \in 1 .. k - 1 : s[j] # s[k] /\ s[j].depart <= s[k].depart }

WriteVehicles ==
  /\ worldPc = "routes"
  /\ worldKind = "recorded"
  /\ LET all == UNION { extract_vehicles(c) : c \in Cameras }
     IN  IF all = {}
         THEN worldPc' = "failed" /\ UNCHANGED vehicles
         ELSE worldPc' = "simulate" /\ vehicles' \in InDepartureOrder(all)
  /\ UNCHANGED <<worldKind, net, flows, film>>

WorldNext ==
  \/ Compile \/ WriteFlows \/ FilmEnds \/ WriteVehicles
  \/ \E c \in Cameras : TrackFrame(c)

-----------------------------------------------------------------------------
(* What SUMO starts on is sound: every route is a connected path of the    *)
(* compiled network, no flow has a zero probability, the vehicles come in  *)
(* order of departure, each once, and each when its camera first saw it.   *)
SimulationAccepts ==
  worldPc = "simulate" =>
    /\ \A f \in flows : f.probability > 0 /\ IsDrivable(f.route, net)
    /\ \A k \in DOMAIN vehicles :
         /\ IsDrivable(vehicles[k].route, net)
         /\ \A j \in 1 .. k - 1 : /\ vehicles[j].depart <= vehicles[k].depart
                                  /\ vehicles[j].id # vehicles[k].id
=============================================================================
