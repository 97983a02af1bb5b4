--------------------------- MODULE MCCoordinator ---------------------------
(***************************************************************************)
(* Road networks, nodes and emergencies for the runs of Coordinator.       *)
(***************************************************************************)
EXTENDS Coordinator

Road(from, to, metres, speed, oneWay, class) ==
  [source |-> from, target |-> to, distance |-> metres, speed |-> speed,
   one_way |-> oneWay, primary |-> class = "primary"]

\* One way, against the order of the names, with a side street and a road listed twice.
OneWay == <<Road(3, 1, 9, 1, TRUE, "primary"), Road(1, 2, 8, 3, TRUE, "primary"),
            Road(1, 2, 5, 3, TRUE, "primary"), Road(3, 2, 2, 0, FALSE, "secondary")>>

\* No primary road, two components.
Districts == <<Road(1, 4, 11, 2, FALSE, "secondary"), Road(3, 2, 8, 2, TRUE, "secondary")>>

\* Both directions, with the middle of the avenue last in the alphabet.
Detour == <<Road(1, 3, 7, 2, FALSE, "primary"), Road(3, 2, 4, 2, FALSE, "primary")>>

AnyTopology == {OneWay, Districts}
AnyShape    == {OneWay, Districts, Detour}

Where == [n \in Nodes |-> 1]

Calls == {[id |-> "em-1", origin |-> 1, destination |-> 3],
          [id |-> "em-1", origin |-> 2, destination |-> 1]}
=============================================================================
