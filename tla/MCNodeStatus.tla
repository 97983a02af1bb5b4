---------------------------- MODULE MCNodeStatus ----------------------------
(* The control loop and its status topic, with the shipped, always sane,    *)
(* budget scaled down, and with one that has an amber as long as the        *)
(* ceiling allows and a clearance no longer than a blocking call.           *)
EXTENDS NodeStatus

Budget(amber, clearance) ==
  [min_green |-> 2, yellow |-> amber, all_red |-> clearance, max_green |-> 4,
   emergency_green |-> 3]
Scaled == {Budget(1, 2)}
Varied == Scaled \cup {Budget(MAX_GREEN_S, 1)}

=============================================================================
