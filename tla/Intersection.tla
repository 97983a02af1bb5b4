---------------------------- MODULE Intersection ----------------------------
(***************************************************************************)
(* What the interlock promises to the drivers of the two crossing axes,    *)
(* with no mention of how it decides: invariants C-3 and F-1 of            *)
(* edge/include/semaforo/safety_layer.hpp, stated over the aspects the     *)
(* axes show.                                                              *)
(*                                                                         *)
(* An axis is given a movement only after both axes have been red for the  *)
(* clearance time; it loses it through amber, or is cleared at once when   *)
(* the fixed cycle, the reset or the corruption guard preempts it.  The    *)
(* flashing patterns are entered from red only, never yellow on both axes, *)
(* and only manual intervention ends them.                                 *)
(***************************************************************************)
EXTENDS Integers

CONSTANTS Never, MaxRed

VARIABLES
  ns,         \* the aspect of the north-south axis
  ew,         \* the aspect of the east-west axis
  red_for,    \* how long both axes have been held red, at least
  clearance   \* how long they have to be

promise == <<ns, ew, red_for, clearance>>

Movements == {"through", "left"}
Aspects == {"red", "amber", "flash_yellow", "flash_red"} \cup Movements

Flashing == {ns, ew} \cap {"flash_yellow", "flash_red"} # {}
AllRed   == ns = "red" /\ ew = "red"
Cleared  == AllRed /\ clearance # Never /\ red_for >= clearance

Heads(n, e) == ns' = n /\ ew' = e /\ red_for' = 0 /\ UNCHANGED clearance

Init ==
  /\ ns = "red"
  /\ ew = "red"
  /\ red_for = 0
  /\ clearance \in Int \cup {Never}

Serve ==
  /\ Cleared
  /\ \E m \in Movements : Heads(m, "red") \/ Heads("red", m)

Amber ==
  \/ ns \in Movements /\ Heads("amber", "red")
  \/ ew \in Movements /\ Heads("red", "amber")

\* Red after amber, or an unannounced clearance.
Clear == ~Flashing /\ Heads("red", "red")

\* Flashing starts after a clearance that no corrupt duration can cut to nothing.
Flash ==
  /\ AllRed
  /\ red_for > 0
  /\ \/ Heads("flash_yellow", "flash_red")
     \/ Heads("flash_red", "flash_yellow")
     \/ Heads("flash_red", "flash_red")

\* Manual intervention.
Resume == Flashing /\ Heads("red", "red")

Wait ==
  /\ red_for' \in {red_for, red_for + 1}
  /\ red_for' <= MaxRed
  /\ UNCHANGED <<ns, ew, clearance>>

Next == Serve \/ Amber \/ Clear \/ Flash \/ Resume \/ Wait

Spec == Init /\ [][Next]_promise

=============================================================================
