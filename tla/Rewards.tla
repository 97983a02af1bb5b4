------------------------------- MODULE Rewards -------------------------------
(***************************************************************************)
(* The reward functions of the brain (brain/src/rewards/).                 *)
(*                                                                         *)
(* Fractions are integers: queues, densities and occupancies are 20ths,    *)
(* the components of a reward are 1200ths and a weighted reward is         *)
(* 12000ths.  Directions are 1 .. 4 in the order north, east, south, west. *)
(***************************************************************************)
EXTENDS Integers, Sequences, Functions, FiniteSetsExt

Within(x, lo, hi) == IF x < lo THEN lo ELSE IF x > hi THEN hi ELSE x

Total(f) == FoldFunction(+, 0, f)

(* The lanes of a crossing in four buckets; what does not divide by four    *)
(* goes into the last one.                                                  *)
aggregate_directions(lanes, full) ==
  LET n         == Len(lanes)
      chunk     == Max({1, n \div 4})
      bucket(i) == { k \in 1 .. n : (i - 1) * chunk < k /\ (i < 4 => k <= i * chunk) }
  IN  [i \in 1 .. 4 |->
         Within((20 * FoldFunctionOnSet(+, 0, lanes, bucket(i))) \div full, 0, 20)]

(* Incoming queues less densities, normalised by 20 although each is at    *)
(* most one.                                                               *)
pressure(queue, density) == -(3 * Within(Total(queue) - Total(density), 0, 400))

queue_length(queue) == -(15 * Within(Total(queue), 0, 80))

(* Accumulated waiting time, worst at 500 seconds.                         *)
delay(waiting) == -((12 * Within(waiting, 0, 500)) \div 5)

NorthSouth == {1, 3}
EastWest   == {2, 4}
\* MUTANT: the axes are swapped.
ServedSwapped(phase) == IF phase = 0 THEN EastWest ELSE NorthSouth
Served(phase) == IF phase = 0 THEN NorthSouth ELSE EastWest

Waiting(queue, axis) == FoldFunctionOnSet(+, 0, queue, axis)

(* Delay, and green wasted on an empty axis while the other one waits: more *)
(* than 0.05, which one 20th in single precision is.                        *)
smart_delay(queue, waiting, phase) ==
  LET green  == Waiting(queue, Served(phase))
      red    == Waiting(queue, (1 .. 4) \ Served(phase))
      wasted == IF green = 0 /\ red >= 1 THEN -(60 * Within(red, 0, 20)) ELSE 0
  IN  6 * delay(waiting) + 4 * wasted

(* Occupancies of the lanes fed by the links whose signal is green.        *)
served_downstream_occupancies(signals, links, density) ==
  { density[links[k]] : k \in { j \in DOMAIN links :
      signals[j] \in {"G", "g"} /\ links[j] \in DOMAIN density } }

(* Green toward a lane that is filling up: from 85 % to full.              *)
spillback_penalty(occupancies) ==
  IF occupancies = {} THEN 0 ELSE -(400 * Within(Max(occupancies) - 17, 0, 3))

(* A switch is penalised fully before min_green (5 s), and less and less   *)
(* over the stability window (10 s) after it.  held is -1 when unknown.    *)
flicker_penalty(last, action, held) ==
  IF action = last \/ held = -1 THEN 0
  ELSE IF held < 5 THEN -1200 ELSE -Max({0, 1200 - 120 * (held - 5)})

composite(queue, density, last, action, held, downstream) ==
  5 * pressure(queue, density) + 3 * queue_length(queue)
    + flicker_penalty(last, action, held) + spillback_penalty(downstream)

(* The potential of an avenue that waits for empty side streets, and the   *)
(* shaping reward (gamma = 0.99, in 120000ths) from one queue to the next.  *)
night_potential(queue, avenue) ==
  LET side == DOMAIN queue \ avenue
  IN  IF Waiting(queue, side) = 0 /\ Waiting(queue, avenue) > 0
      THEN -(60 * Within(Waiting(queue, avenue), 0, 20)) ELSE 0

night_mode(now, before, avenue) ==
  Within(99 * night_potential(now, avenue) - 100 * night_potential(before, avenue),
         -120000, 120000)
=============================================================================
