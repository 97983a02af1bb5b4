----------------------------- MODULE SumoNetwork -----------------------------
(***************************************************************************)
(* The SUMO networks the brain generates and the routes laid over them:    *)
(* sumo_networks/network_generator.py and scripts/generate_corridor.py.    *)
(* A node is a pair <<kind, number>>, an edge the pair of the nodes it     *)
(* joins (its id is its name), a network a set of edges and a route a      *)
(* sequence of edges.                                                      *)
(***************************************************************************)
EXTENDS Integers, Sequences, SequencesExt

C(i)     == <<"c", i>>
North(i) == <<"north", i>>
South(i) == <<"south", i>>
West     == <<"west_entry", 0>>
East     == <<"east_entry", 0>>
Centre   == <<"center", 0>>
Arms     == {"north", "south", "east", "west"}

Both(S) == S \cup { <<e[2], e[1]>> : e \in S }

(* A corridor of n signals with a side street north and south of each. *)
generate_corridor(n) ==
  Both({<<West, C(0)>>, <<C(n - 1), East>>}
       \cup { <<C(i), C(i + 1)>> : i \in 0 .. n - 2 }
       \cup { <<C(i), North(i)>> : i \in 0 .. n - 1 }
       \cup { <<C(i), South(i)>> : i \in 0 .. n - 1 })

(* One crossing with four arms: <arm>_in and <arm>_out. *)
generate_single_intersection == Both({ <<<<a, 0>>, Centre>> : a \in Arms })

(* The edges along a line of nodes. *)
Along(nodes) == [k \in 1 .. Len(nodes) - 1 |-> <<nodes[k], nodes[k + 1]>>]

Crossing(from, to) == Along(<<<<from, 0>>, Centre, <<to, 0>>>>)

Avenue(n) == <<West>> \o [k \in 1 .. n |-> C(k - 1)] \o <<East>>

(* Routes of the corridor.  The route from the south of c0 to the east is  *)
(* written for three signals whatever their number.                        *)
CorridorRoutes(n) ==
  {Along(Avenue(n)), Along(Reverse(Avenue(n))),
   Along(<<West, C(0), C(1), North(1)>>),
   Along(<<South(0), C(0), C(1), C(2)>>) \o <<<<C(n - 1), East>>>>}
  \cup { Along(<<North(i), C(i), South(i)>>) : i \in 0 .. n - 1 }
  \cup { Along(<<South(i), C(i), North(i)>>) : i \in 0 .. n - 1 }

(* Where a driver entering by an arm leaves: straight on, left and right.  *)
TurnMap ==
  [north |-> <<"south", "east", "west">>, south |-> <<"north", "west", "east">>,
   east  |-> <<"west", "south", "north">>, west |-> <<"east", "north", "south">>]

(* What SUMO asks of a route: every edge exists and continues the last one. *)
IsDrivable(route, net) ==
  /\ Range(route) \subseteq net
  /\ \A k \in 1 .. Len(route) - 1 : route[k][2] = route[k + 1][1]
=============================================================================
