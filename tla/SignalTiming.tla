----------------------------- MODULE SignalTiming -----------------------------
(***************************************************************************)
(* Formulas for signal plans: the offsets of a green wave                  *)
(* (brain/src/coordination/green_wave.py), the plans of                    *)
(* scripts/evaluate_corridor.py, the cycle, its split and the delay after  *)
(* Webster and the M/D/1 queue (brain/src/queue_theory/).                  *)
(*                                                                         *)
(* Times are hundredths of a second, positions metres, speeds km/h, ratios *)
(* and shares percentages.                                                 *)
(***************************************************************************)
EXTENDS Integers, Sequences, Functions, SequencesExt

(* n / d to the nearest integer, for d > 0. *)
Rounded(n, d) == (2 * n + d) \div (2 * d)

\* MUTANT: the travel time of the last leg only.
OffsetsByLeg(positions, speed) ==
  [k \in DOMAIN positions |->
     IF k = 1 THEN 0 ELSE Rounded(360 * (positions[k] - positions[k - 1]), speed)]
(* The offset of a signal is the travel time from the first one; a single   *)
(* signal and a speed that is not positive are refused.                     *)
compute_offsets(positions, speed) ==
  IF Len(positions) < 2 \/ speed <= 0 THEN <<>>
  ELSE [k \in DOMAIN positions |-> Rounded(360 * (positions[k] - positions[1]), speed)]

compute_bidirectional_offsets(positions, speed) ==
  <<compute_offsets(positions, speed), compute_offsets(Reverse(positions), speed)>>

(* A plan gives 60 s to each phase of a cycle shifted by the offset.       *)
PlanGreen == 6000
PlanPhase(time, offset) == IF (time - offset) % (2 * PlanGreen) < PlanGreen THEN 0 ELSE 1

(* Webster's cycle for critical flow ratios that add up to y; none when    *)
(* the junction is saturated.                                              *)
webster_optimal_cycle(y, lost) ==
  IF y <= 0 \/ y >= 100 \/ lost <= 0 THEN 0
  ELSE (100 * ((3 * lost) \div 2 + 500)) \div (100 - y)

LostTimePerPhase == 300

(* The cycle less the lost time is shared by the critical flow ratios; too  *)
(* short a cycle is refused.                                                *)
allocate_green_times(cycle, ratios) ==
  LET effective == cycle - LostTimePerPhase * Len(ratios)
      y         == FoldFunction(+, 0, ratios)
  IN  IF effective <= 0 \/ y <= 0 THEN <<>>
      ELSE [i \in DOMAIN ratios |-> (effective * ratios[i]) \div y]

(* Uniform delay and the delay of random overflow; rate in vehicles/hour.  *)
webster_delay(cycle, green, saturation, rate) ==
  (cycle * (100 - green) * (100 - green)) \div (2 * (10000 - green * saturation))
  + (3600 * saturation * saturation) \div (2 * rate * (100 - saturation))

(* Vehicles waiting, in thousandths, and how long they wait, for a queue    *)
(* used to rho percent that serves rate vehicles an hour.                   *)
avg_queue_length(rho) == (10 * rho * rho) \div (2 * (100 - rho))
avg_delay(rho, rate)  == (360000 * rho) \div (2 * rate * (100 - rho))
=============================================================================
