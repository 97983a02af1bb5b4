-------------------------- MODULE CommandIngestion --------------------------
(***************************************************************************)
(* How the Brain's commands reach the heads: the Paho callback parses and  *)
(* enqueues (producer thread), the control loop drains the queue into the  *)
(* CommandGuard and the DirectiveLatch (consumer thread), and the loop's   *)
(* silence watchdog notices that nothing comes any more.                   *)
(*                                                                         *)
(* The broker may lose, duplicate, delay and reorder: every payload of     *)
(* Payloads may arrive at any time the node is subscribed.  Time is in     *)
(* seconds of a clock that does not jump; it passes while the loop is in   *)
(* read_frame() or detect().  A directive's phase is left out: a command   *)
(* is known by its sequence number.                                        *)
(***************************************************************************)
EXTENDS Integers, Sequences

CONSTANTS
  capacity,             \* of the CommandQueue
  failure_threshold, recovery_streak, silence_timeout,   \* CommandGuard::Config
  max_age, max_future_skew,                              \* of the CommandParser
  ttl,                  \* of the DirectiveLatch
  MaxBlock,             \* bound: most seconds one iteration of the loop takes
  MaxBurst,             \* bound: most payloads that arrive in one second
  MaxSeq                \* bound: the highest sequence number sent

ASSUME CommandIngestionAssumption ==
  /\ {capacity, failure_threshold, recovery_streak} \subseteq Nat \ {0}
  /\ {silence_timeout, max_age, max_future_skew, ttl} \subseteq Nat
  /\ {MaxBlock, MaxBurst, MaxSeq} \subseteq Nat

VARIABLES
  \* the link: MqttClient::is_connected(), and the broker's view of the session
  online, subscribed,
  burst,                \* payloads arrived in the current second
  queue,                \* q_: parsed commands, oldest first
  \* the guard
  armed,                \* last_valid_ms_ # 0
  silence,              \* now - last_valid_ms_
  failures,             \* consecutive_failures_
  oks,                  \* consecutive_ok_
  in_fallback, last_applied_seq,
  \* the latch
  latched,              \* valid_
  latch_age,            \* now - last_update_ms_
  directive_age,        \* age of the latched command since the Brain stamped it
  \* the loop
  pc,                   \* "drain" or "act", the rest of the iteration
  lag                   \* now - tick_now_ms

linkVars  == <<online, subscribed>>
guardVars == <<armed, silence, failures, oks, in_fallback, last_applied_seq>>
latchVars == <<latched, latch_age, directive_age>>
loopVars  == <<pc, lag>>
vars == <<linkVars, burst, queue, guardVars, latchVars, loopVars>>

Ages == -max_future_skew .. max_age + MaxBlock
\* A payload is garbage, or a command with its number and its age on arrival.
Payloads == [garbage : {FALSE}, seq : 0..MaxSeq,
             age : -(max_future_skew + 1) .. max_age + 1]
              \cup {[garbage |-> TRUE, seq |-> 0, age |-> 0]}
ParsedCommand == [ok : BOOLEAN, seq : 0..MaxSeq, age : Ages]

\* No directive in force is older than this, in the time since the Brain stamped it.
AgeBound == max_age + ttl + 2 * MaxBlock

TypeOK ==
  /\ online \in BOOLEAN
  /\ subscribed \in BOOLEAN
  /\ burst \in 0..MaxBurst
  /\ queue \in Seq(ParsedCommand)
  /\ Len(queue) <= capacity
  /\ armed \in BOOLEAN
  /\ silence \in 0..(silence_timeout + 1)
  /\ failures \in 0..failure_threshold
  /\ oks \in 0..recovery_streak
  /\ in_fallback \in BOOLEAN
  /\ last_applied_seq \in -1..MaxSeq
  /\ latched \in BOOLEAN
  /\ latch_age \in 0..(ttl + MaxBlock)
  /\ directive_age \in -max_future_skew .. AgeBound
  /\ pc \in {"drain", "act"}
  /\ lag \in 0..MaxBlock

UpTo(limit, n) == IF n < limit THEN n ELSE limit

----------------------------------------------------------------------------
(* The producer: message_arrived(), parse() and push() on the Paho thread. *)

\* MUTANT: the freshness gate forgotten.
FreshNever(age) == age >= -max_future_skew
Fresh(age) == age >= -max_future_skew /\ age <= max_age

\* parse(): whatever is wrong with a payload, it is not actionable.
Parse(p) ==
  IF ~p.garbage /\ Fresh(p.age)
    THEN [ok |-> TRUE, seq |-> p.seq, age |-> p.age]
    ELSE [ok |-> FALSE, seq |-> 0, age |-> 0]

Push(cmd) ==
  Append(IF Len(queue) >= capacity THEN Tail(queue) ELSE queue, cmd)

Arrive(p) ==
  /\ subscribed
  /\ burst < MaxBurst
  /\ burst' = burst + 1
  /\ queue' = Push(Parse(p))
  /\ UNCHANGED <<linkVars, guardVars, latchVars, loopVars>>

\* connection_lost(): the session was clean, so the broker forgets the topic.
ConnectionLost ==
  /\ online
  /\ online' = FALSE
  /\ subscribed' = FALSE
  /\ UNCHANGED <<burst, queue, guardVars, latchVars, loopVars>>

\* connected(), after Paho's automatic reconnect: only the flag is set.  Paho
\* retries a session it once had; armed tells that the first connect succeeded.
Reconnected ==
  /\ ~online
  /\ armed
  /\ online' = TRUE
  /\ UNCHANGED <<subscribed, burst, queue, guardVars, latchVars, loopVars>>

----------------------------------------------------------------------------
(* The consumer: step 0 of the control loop. *)

Popped == /\ pc = "drain"
          /\ queue # <<>>
          /\ queue' = Tail(queue)
          /\ UNCHANGED <<linkVars, burst, loopVars>>

\* MUTANT: a duplicate of the command in force is accepted.
NotOlder(seq) == seq >= last_applied_seq
\* accept_sequence(): only a strictly newer command.
Newer(seq) == seq > last_applied_seq

\* on_command() for an actionable command, then the idempotency gate and the latch.
HandleValid ==
  /\ Popped
  /\ Head(queue).ok
  /\ armed' = TRUE
  /\ silence' = 0
  /\ failures' = 0
  /\ LET recovered == in_fallback /\ oks + 1 >= recovery_streak
     IN  /\ in_fallback' = (in_fallback /\ ~recovered)
         /\ oks' = IF recovered THEN 0 ELSE UpTo(recovery_streak, oks + 1)
  /\ IF Newer(Head(queue).seq)
       THEN /\ last_applied_seq' = Head(queue).seq
            /\ latched' = TRUE
            /\ latch_age' = 0
            /\ directive_age' = Head(queue).age
       ELSE UNCHANGED <<last_applied_seq, latchVars>>

\* on_command() for anything else.
HandleRejected ==
  /\ Popped
  /\ ~Head(queue).ok
  /\ oks' = 0
  /\ failures' = UpTo(failure_threshold, failures + 1)
  /\ in_fallback' = (in_fallback \/ failures + 1 >= failure_threshold)
  /\ UNCHANGED <<armed, silence, last_applied_seq, latchVars>>

\* MUTANT: a node that fell silent keeps its old successes.
SilenceTripKeepingOks == in_fallback' = TRUE /\ UNCHANGED oks
SilenceTrip == in_fallback' = TRUE /\ oks' = 0

\* MUTANT: the watchdog waits for a rejected payload too.
TimedOutAfterReject == armed /\ silence > silence_timeout /\ failures > 0
TimedOut == armed /\ silence > silence_timeout

\* MUTANT: a guard already in fallback times out again.
TripsAgain == TimedOut
\* tick() leaves a guard that is already in fallback alone.
Trips == ~in_fallback /\ TimedOut

\* The queue is empty; the watchdog tick() runs only while the link is up.
Watch ==
  /\ pc = "drain"
  /\ queue = <<>>
  /\ pc' = "act"
  /\ IF online /\ Trips
       THEN SilenceTrip
       ELSE UNCHANGED <<in_fallback, oks>>
  /\ UNCHANGED <<linkVars, burst, queue, armed, silence, failures,
                 last_applied_seq, latchVars, lag>>

----------------------------------------------------------------------------
(* The rest of the iteration, and time. *)

\* get(tick_now_ms): the time-to-live counts from the start of the iteration.
LatchGet == latched /\ latch_age - lag < ttl

\* The latched directive is what the loop will ask the interlock for.
DirectiveInForce == pc = "act" /\ ~in_fallback /\ LatchGet

Iterate ==
  /\ pc = "act"
  /\ pc' = "drain"
  /\ lag' = 0
  /\ UNCHANGED <<linkVars, burst, queue, guardVars, latchVars>>

Tick ==
  /\ pc = "act"
  /\ lag < MaxBlock
  /\ lag' = lag + 1
  /\ burst' = 0
  /\ queue' = [i \in DOMAIN queue |-> [queue[i] EXCEPT !.age = IF queue[i].ok THEN @ + 1 ELSE @]]
  /\ silence' = UpTo(silence_timeout + 1, silence + 1)
  /\ latch_age' = UpTo(ttl + MaxBlock, latch_age + 1)
  /\ directive_age' = UpTo(AgeBound, directive_age + 1)
  /\ UNCHANGED <<linkVars, armed, failures, oks, in_fallback, last_applied_seq,
                 latched, pc>>

----------------------------------------------------------------------------

\* Boot: the guard is armed and the topic subscribed only if the broker answers
\* the first connect; the subscription itself may be refused.
Init ==
  /\ online \in BOOLEAN
  /\ armed = online
  /\ subscribed \in {FALSE, online}
  /\ burst = 0
  /\ queue = <<>>
  /\ silence = 0
  /\ failures = 0
  /\ oks = 0
  /\ in_fallback = FALSE
  /\ last_applied_seq = -1
  /\ latched = FALSE
  /\ latch_age = 0
  /\ directive_age = 0
  /\ pc = "drain"
  /\ lag = 0

Next ==
  \/ \E p \in Payloads : Arrive(p)
  \/ ConnectionLost \/ Reconnected
  \/ HandleValid \/ HandleRejected \/ Watch
  \/ Iterate \/ Tick

\* The loop keeps iterating and time passes.  Nothing is promised of the link or
\* of the Brain.
Fairness ==
  /\ WF_vars(HandleValid \/ HandleRejected)
  /\ WF_vars(Watch)
  /\ WF_vars(Iterate)
  /\ SF_vars(Tick)

Spec == Init /\ [][Next]_vars
FairSpec == Spec /\ Fairness

----------------------------------------------------------------------------
(* Safety. *)

\* A directive never steers the heads past its age budget: the parser's freshness
\* gate, one iteration in the queue, the latch's time-to-live and the iteration
\* it is used in -- whatever replays, fallbacks and recoveries come between; and the
\* queue, the latch and the counters of the path keep to their bounds.
DirectiveAgeBounded ==
  /\ TypeOK
  /\ DirectiveInForce => directive_age < AgeBound

\* A-2: the time-to-live of a directive is renewed by a newer command only; a
\* replay of the command in force cannot keep it alive.
ReplayNeverRenews ==
  [][latch_age' < latch_age => last_applied_seq' > last_applied_seq]_vars

----------------------------------------------------------------------------
(* Liveness. *)

\* A Brain that sends nothing valid any more -- silent, or sending garbage -- is
\* distrusted for good, as long as the broker keeps the link up.
SilentBrainDistrusted ==
  <>[](online /\ armed) /\ <>[][~HandleValid]_vars => <>[]in_fallback

\* main.cpp:280-282 claims it of a broker that is down as well: "total silence
\* (broker down, link saturated, Brain crashed) is invisible to the callback [...]
\* If commands stop arriving, drop to fixed cycle."
OutageDistrusted == armed /\ <>[]~online => <>[]in_fallback

\* A Brain whose commands come through again is trusted again.
HealthyBrainTrusted ==
  <>[][~HandleRejected]_vars /\ []<><<HandleValid>>_vars => []<>~in_fallback

\* mqtt_client.hpp:41: a node whose link is back is again sent the commands.
CommandsAfterReconnect == subscribed /\ <>[]online => <>[]subscribed

=============================================================================
