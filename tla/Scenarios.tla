------------------------------ MODULE Scenarios ------------------------------
(***************************************************************************)
(* The traffic worlds of training: the table of scenarios, the curriculum  *)
(* that orders them, the random draw of an episode and the demand file of  *)
(* an episode (brain/src/training/scenarios.py).                           *)
(*                                                                         *)
(* Flows are vehicles per hour; ratios are percentages.  A demand in units *)
(* of 1/10000 vehicle per hour is printed as a probability per second with *)
(* five decimals, here the integer number of 1/100000 (360 units each).    *)
(* Weather changes how vehicles drive and not how many, and is left out.   *)
(***************************************************************************)
EXTENDS SumoNetwork, FiniteSetsExt

Scenario(base, ew, cross, bus, turn, jBase, jEw, jCross, jTurn) ==
  [base_flow |-> base, ew_bias |-> ew, cross_ratio |-> cross, bus_ratio |-> bus,
   turn_ratio |-> turn,
   jitter |-> [base_flow |-> jBase, ew_bias |-> jEw, cross_ratio |-> jCross,
               turn_ratio |-> jTurn]]

WINTER_QUIET              == Scenario( 120, 50, 30, 5, 12,  40,  5, 0, 0)
WINTER_NIGHT_EMPTY        == Scenario(  25, 50, 40, 0, 10,  15,  0, 0, 0)
SHOULDER_BALANCED         == Scenario( 500, 50, 28, 4, 12, 120,  8, 5, 0)
RAIN_MODERATE             == Scenario( 450, 55, 25, 4, 12, 120, 10, 0, 0)
SUMMER_EXODUS_BEACH       == Scenario(1100, 85, 18, 5,  8, 250,  7, 0, 4)
SUMMER_RETURN_DOWNTOWN    == Scenario(1050, 15, 20, 5, 10, 250,  7, 0, 0)
SUDESTADA_STORM           == Scenario( 550, 60, 30, 4, 15, 200, 15, 8, 0)
INCIDENT_ASYMMETRIC_SPIKE == Scenario(1300, 95, 10, 3, 20, 300,  4, 0, 6)

CURRICULUM ==
  <<{WINTER_QUIET, WINTER_NIGHT_EMPTY, SHOULDER_BALANCED},
    {SHOULDER_BALANCED, RAIN_MODERATE, SUMMER_RETURN_DOWNTOWN},
    {SUMMER_EXODUS_BEACH, SUMMER_RETURN_DOWNTOWN, SUDESTADA_STORM,
     INCIDENT_ASYMMETRIC_SPIKE}>>

Clip(x, lo, hi) == IF x < lo THEN lo ELSE IF x > hi THEN hi ELSE x

(* The draws of a knob: its middle and the two ends of its jitter, clamped. *)
Jit(spec, knob, lo, hi) ==
  LET half == spec.jitter[knob]
  IN  IF half <= 0 THEN {spec[knob]}
      ELSE { Clip(spec[knob] + d, lo, hi) : d \in {-half, 0, half} }

Drawn(spec, base, ew, cross, turn) ==
  [spec EXCEPT !.base_flow = base, !.ew_bias = ew, !.cross_ratio = cross, !.turn_ratio = turn]

randomize(spec) ==
  { Drawn(spec, b, e, c, t) :
      b \in Jit(spec, "base_flow", 10, 2500), e \in Jit(spec, "ew_bias", 2, 98),
      c \in Jit(spec, "cross_ratio", 2, 80), t \in Jit(spec, "turn_ratio", 0, 50) }

(* A flow whose probability would print as zero is left out of the file.   *)
Certain == 100000
Printed(demand) == Clip((demand + 180) \div 360, 0, Certain)

\* MUTANT: every flow is written, whatever its demand.
FlowAnyDemand(route, demand) == {[route |-> route, probability |-> Printed(demand)]}
Flow(route, demand) ==
  IF demand < 360 THEN {} ELSE {[route |-> route, probability |-> Printed(demand)]}

Signals3 == 0 .. 2

scenario_to_routes_xml(spec) ==
  LET eastbound == spec.base_flow * spec.ew_bias
      westbound == spec.base_flow * (100 - spec.ew_bias)
      cross     == (spec.base_flow * spec.cross_ratio * 100) \div 3
      turning   == spec.base_flow * spec.turn_ratio * 50
      ew        == Along(Avenue(3))
      we        == Along(Reverse(Avenue(3)))
  IN  Flow(ew, eastbound * 100) \cup Flow(we, westbound * 100)
      \cup Flow(ew, eastbound * spec.bus_ratio) \cup Flow(we, westbound * spec.bus_ratio)
      \cup (UNION { Flow(Along(<<North(i), C(i), South(i)>>), cross)
                    \cup Flow(Along(<<South(i), C(i), North(i)>>), cross) : i \in Signals3 })
      \cup Flow(Along(<<West, C(0), C(1), North(1)>>), turning)
      \cup Flow(Along(<<South(0), C(0), C(1), C(2), East>>), turning)
=============================================================================
