---------------------------- MODULE RoadNetwork ----------------------------
(***************************************************************************)
(* The road graph of network/coordinator/src/graph_manager.py.  A topology *)
(* is a sequence of roads in the order of the file; the graph it yields is *)
(* a function from ordered pairs of intersections to the attributes of the *)
(* edge.  Intersections are numbers: their order is the order of the names.*)
(* networkx is external: where it promises no order or breaks ties, the    *)
(* operators below return the set of its possible answers.                 *)
(***************************************************************************)
EXTENDS Integers, Graphs, SequencesExt

\* What a road of the topology file gives to its edge, or edges.
Attributes(road) ==
  [distance |-> road.distance, speed |-> road.speed, primary |-> road.primary]
EdgesOf(road) ==
  {<<road.source, road.target>>}
    \cup IF road.one_way THEN {} ELSE {<<road.target, road.source>>}

\* add_edge() overwrites: the last road between two intersections wins.
LoadTopology(roads) ==
  LET Naming(e) == {i \in DOMAIN roads : e \in EdgesOf(roads[i])}
  IN  [e \in UNION {EdgesOf(roads[i]) : i \in DOMAIN roads} |->
         Attributes(roads[Max(Naming(e))])]

GetEdgeDistance(graph, u, v) ==
  IF <<u, v>> \in DOMAIN graph THEN graph[<<u, v>>].distance ELSE 0

CONSTANT DefaultSpeed
GetEdgeSpeedLimit(graph, u, v) ==
  IF <<u, v>> \in DOMAIN graph THEN graph[<<u, v>>].speed ELSE DefaultSpeed

\* Metres from the first intersection of a route to each of the others.
Travelled(graph, route) ==
  LET metres[i \in DOMAIN route] ==
        IF i = 1 THEN 0
        ELSE metres[i-1] + GetEdgeDistance(graph, route[i-1], route[i])
  IN  metres

Ends(edges) == UNION {{e[1], e[2]} : e \in edges}

\* External: nx.shortest_path over the given edges; {} when there is no path.
ShortestPaths(graph, edges, from, to) ==
  LET stops == Ends(edges) \cup {from}
      paths == {p \in SeqOf(stops, Cardinality(stops)) :
                  /\ p # <<>> /\ Head(p) = from /\ Last(p) = to
                  /\ IsInjective(p)
                  /\ \A i \in 2..Len(p) : <<p[i-1], p[i]>> \in edges}
      Metres(p) == Last(Travelled(graph, p))
  IN  {p \in paths : \A q \in paths : Metres(p) <= Metres(q)}

\* External: nx.weakly_connected_components.
Components(edges) ==
  LET Closed(C) == \A e \in edges : e[1] \in C <=> e[2] \in C
  IN  {C \in SUBSET Ends(edges) :
         /\ C # {} /\ Closed(C)
         /\ \A D \in SUBSET C : Closed(D) => D \in {{}, C}}

\* The roads corridors run along.
PrimaryEdges(graph) ==
  LET primary == {e \in DOMAIN graph : graph[e].primary}
  IN  IF primary = {} THEN DOMAIN graph ELSE primary

\* The endpoints come in no particular order; failing a path, the order of the names.
CorridorsOf(graph, component) ==
  LET edges     == {e \in PrimaryEdges(graph) : e[1] \in component}
      streets   == [node |-> component, edge |-> edges]
      endpoints == Roots(streets) \cup Leaves(streets)
      ByName    == {s \in [1..Cardinality(component) -> component] :
                      \A i, j \in DOMAIN s : i < j => s[i] < s[j]}
      Between(a, b) ==
        LET paths == ShortestPaths(graph, edges, a, b)
        IN  IF paths = {} THEN ByName ELSE paths
  IN  IF \E a, b \in endpoints : a # b
        THEN UNION {Between(p[1], p[2]) : p \in {q \in endpoints \X endpoints : q[1] # q[2]}}
        ELSE ByName

\* identify_corridors(): one corridor for each component.
IdentifyCorridors(graph) ==
  LET components == Components(PrimaryEdges(graph))
  IN  {corridors \in [components -> UNION {CorridorsOf(graph, C) : C \in components}] :
         \A C \in components : corridors[C] \in CorridorsOf(graph, C)}
=============================================================================
