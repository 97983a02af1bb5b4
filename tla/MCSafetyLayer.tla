--------------------------- MODULE MCSafetyLayer ---------------------------
(* The interlock with the durations of safety_layer.hpp scaled down; the    *)
(* order of all the thresholds -- clearance, amber, amber sanity, minimum   *)
(* green, sanity, ring green, ceiling -- is the one of the code.            *)
EXTENDS SafetyLayer

Default == [min_green |-> 4, yellow |-> 2, all_red |-> 1, max_green |-> MAX_GREEN_S,
            emergency_green |-> 6]

\* The short budget the tests use, and one whose every duration is zero.
Short   == [min_green |-> 2, yellow |-> 1, all_red |-> 1, max_green |-> 6,
            emergency_green |-> 3]
Zero    == [f \in DOMAIN Default |-> 0]

\* Each duration in turn is NaN or infinite, negative, or above the ceiling.
Corrupt == { [Default EXCEPT ![f] = d] : f \in DOMAIN Default, d \in {Never, -1, MAX_GREEN_S + 1} }

Shipped     == {Default}
SaneTimings == {Default, Short, Zero}
AllTimings  == SaneTimings \cup Corrupt

=============================================================================
