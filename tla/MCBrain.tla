------------------------------- MODULE MCBrain -------------------------------
(* Bounds for checking BrainJobs. *)
EXTENDS BrainJobs

CONSTANTS front, rear   \* the pilot's cameras

(* Two cameras film a crossing at 25 and 20 frames a second. *)
MCFrameTime == [c \in Cameras |-> IF c = "north" THEN 4 ELSE 5]

(* Roads between five places: a short cut that is slower, parallel roads,  *)
(* ties, a road back, one closed to traffic.                               *)
Road(a, b, metres, kmh) == [from |-> a, to |-> b, length |-> metres, speed |-> kmh]

MCRoadPool ==
  { Road(5, 2, 100, 36), Road(5, 2, 50, 36), Road(5, 3, 100, 18), Road(2, 3, 50, 36),
    Road(3, 2, 10, 36), Road(2, 4, 300, 60), Road(3, 4, 100, 36), Road(5, 4, 10, 0),
    Road(4, 1, 50, 36), Road(3, 1, 200, 36) }

(* Situations for the rewards: quiet, one axis waiting, all full. *)
Scene(lanes, density, waiting, held, outs, ratios) ==
  [lanes |-> lanes, queue |-> aggregate_directions(lanes, 20), density |-> density,
   waiting |-> waiting, held |-> held, ratios |-> ratios,
   signals |-> <<"G", "g", "r", "G">>, links |-> <<"n", "s", "e", "none">>,
   outs |-> [n |-> outs[1], s |-> outs[2], e |-> outs[3]]]

MCScenes ==
  { Scene(l, d, w, h, o, r) :
      l \in {<<0, 0, 0, 0>>, <<3, 0, 1, 0>>, <<0, 2, 0, 5>>, <<2, 1, 4, 3, 5>>,
             <<1, 0, 0, 2, 3, 0, 1, 0, 2, 2>>, <<4, 4>>},
      d \in {<<0, 0, 0, 0>>, <<20, 20, 20, 20>>},
      w \in {0, 90, 700}, h \in {-1, 5, 10}, o \in {<<3, 10, 20>>, <<3, 18, 0>>, <<20, 0, 0>>},
      r \in {<<20, 40>>, <<45, 45>>} }

(* One camera covers an axis, the other one of its approaches again. *)
MCFaces == [c \in PilotCameras |-> IF c = front THEN {"N", "S"} ELSE {"N"}]

(* A street without vehicles, and one with more than a queue counts. *)
MCFrames == {<<0, 0>>, [k \in 1 .. 25 |-> 2]}
=============================================================================
