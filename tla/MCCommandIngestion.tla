------------------------ MODULE MCCommandIngestion ------------------------
(***************************************************************************)
(* The command path under an observer that counts what the loop handled    *)
(* independently of the guard's own counters.                              *)
(***************************************************************************)
EXTENDS CommandIngestion

VARIABLES
  rejected_run,   \* rejected payloads handled since the last valid one
  valid_run,      \* valid ones since the last reject or entry into fallback
  unheard         \* seconds since the last valid command, or since boot

observer == <<rejected_run, valid_run, unheard>>

ObservedInit == Init /\ rejected_run = 0 /\ valid_run = 0 /\ unheard = 0

Observe ==
  /\ rejected_run' = IF HandleValid THEN 0
                     ELSE IF HandleRejected
                       THEN UpTo(failure_threshold, rejected_run + 1)
                       ELSE rejected_run
  /\ valid_run' = IF HandleRejected \/ (~in_fallback /\ in_fallback') THEN 0
                  ELSE IF HandleValid
                    THEN UpTo(recovery_streak, valid_run + 1)
                    ELSE valid_run
  /\ unheard' = IF HandleValid THEN 0
                ELSE IF Tick THEN UpTo(silence_timeout + 1, unheard + 1)
                ELSE unheard

ObservedSpec ==
  ObservedInit /\ [][Next /\ Observe]_<<vars, observer>> /\ Fairness

\* The hysteresis of command_parser.hpp:310-317, over any interleaving of the
\* callback and the loop: the Brain is distrusted only after failure_threshold
\* rejects in a row or a silence beyond the timeout, and trusted again only after
\* recovery_streak valid commands in a row, all of them since the distrust.
Hysteresis ==
  [][/\ ~in_fallback /\ in_fallback' =>
           rejected_run' >= failure_threshold \/ unheard > silence_timeout
     /\ in_fallback /\ ~in_fallback' => valid_run' >= recovery_streak
    ]_<<vars, observer>>

=============================================================================
