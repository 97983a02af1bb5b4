------------------------ MODULE CommandIngestionProofs ------------------------
(***************************************************************************)
(* Proofs about CommandIngestion for every capacity, threshold, timeout    *)
(* and bound: the types, the age of the directive in force, the renewal of *)
(* its time-to-live, and the guard's hysteresis as the observer counts it. *)
(***************************************************************************)
EXTENDS MCCommandIngestion, TLAPS

-----------------------------------------------------------------------------
(* The inductive invariant.                                                *)

(* A command in the queue has aged since its arrival by no more than the   *)
(* iteration it waits for: the queue is empty when the loop begins to act. *)
Young ==
  \A i \in 1 .. Len(queue) :
    queue[i].ok => queue[i].age <= max_age + (IF pc = "act" THEN lag ELSE MaxBlock)

Draining == pc = "drain" => lag = 0

(* The latched directive ages with the latch; the latter's age saturates    *)
(* where get() refuses it in every iteration.                              *)
AgesTogether ==
  \/ latch_age = ttl + MaxBlock
  \/ directive_age <= max_age + MaxBlock + latch_age

AgeInv == TypeOK /\ Young /\ Draining /\ AgesTogether

-----------------------------------------------------------------------------
(* The queue.                                                              *)

LEMMA UpToRange ==
  ASSUME NEW limit \in Nat, NEW lo \in Int, NEW n \in Int, lo <= limit, lo <= n
  PROVE  UpTo(limit, n) \in lo .. limit
  BY DEF UpTo

(* What the parser lets through is fresh.                                  *)
LEMMA ParseFresh ==
  ASSUME NEW p \in Payloads
  PROVE  /\ Parse(p) \in ParsedCommand
         /\ Parse(p).ok => Parse(p).age <= max_age
  <1>1. CASE p.garbage
    <2>1. Parse(p) = [ok |-> FALSE, seq |-> 0, age |-> 0]
      BY <1>1 DEF Parse
    <2>. QED
      BY <2>1, CommandIngestionAssumption DEF ParsedCommand, Ages, CommandIngestionAssumption
  <1>2. CASE ~p.garbage
    <2>1. p.seq \in 0 .. MaxSeq /\ p.age \in Int
      <3>1. p \in [garbage : {FALSE}, seq : 0 .. MaxSeq,
                    age : -(max_future_skew + 1) .. max_age + 1]
        <4>1. p # [garbage |-> TRUE, seq |-> 0, age |-> 0]
          BY <1>2
        <4>. QED  BY <4>1, Zenon DEF Payloads
      <3>. QED  BY <3>1, CommandIngestionAssumption DEF CommandIngestionAssumption
    <2>2. CASE Fresh(p.age)
      <3>1. Parse(p) = [ok |-> TRUE, seq |-> p.seq, age |-> p.age]
        BY <1>2, <2>2 DEF Parse
      <3>2. p.age \in Ages /\ p.age <= max_age
        BY <2>1, <2>2, CommandIngestionAssumption DEF Fresh, Ages, CommandIngestionAssumption
      <3>. QED  BY <2>1, <3>1, <3>2 DEF ParsedCommand
    <2>3. CASE ~Fresh(p.age)
      <3>1. Parse(p) = [ok |-> FALSE, seq |-> 0, age |-> 0]
        BY <2>3 DEF Parse
      <3>. QED  BY <3>1, CommandIngestionAssumption DEF ParsedCommand, Ages, CommandIngestionAssumption
    <2>. QED  BY <2>2, <2>3
  <1>. QED  BY <1>1, <1>2

(* Head and tail of a sequence.                                            *)
LEMMA TailElements ==
  ASSUME NEW S, NEW s \in Seq(S), s # <<>>
  PROVE  /\ Head(s) = s[1] /\ Head(s) \in S
         /\ 1 \in 1 .. Len(s)
         /\ Tail(s) \in Seq(S)
         /\ Len(Tail(s)) = Len(s) - 1
         /\ \A i \in 1 .. Len(Tail(s)) : Tail(s)[i] = s[i + 1] /\ i + 1 \in 1 .. Len(s)
  <1>1. Len(s) \in Nat \ {0} /\ Tail(s) \in Seq(S) /\ Len(Tail(s)) = Len(s) - 1
    OBVIOUS
  <1>2. \A i \in 1 .. Len(Tail(s)) : Tail(s)[i] = s[i + 1]
    OBVIOUS
  <1>3. \A i \in 1 .. Len(Tail(s)) : i + 1 \in 1 .. Len(s)
    BY <1>1
  <1>4. Head(s) = s[1] /\ Head(s) \in S
    OBVIOUS
  <1>. QED  BY <1>1, <1>2, <1>3, <1>4

LEMMA AppendElements ==
  ASSUME NEW S, NEW s \in Seq(S), NEW e \in S
  PROVE  /\ Append(s, e) \in Seq(S)
         /\ Len(Append(s, e)) = Len(s) + 1
         /\ \A i \in 1 .. Len(Append(s, e)) :
              \/ Append(s, e)[i] = e
              \/ i \in 1 .. Len(s) /\ Append(s, e)[i] = s[i]
  OBVIOUS

(* A push keeps the bound, and all but the new command were there.          *)
LEMMA PushKeeps ==
  ASSUME NEW S, queue \in Seq(S), Len(queue) <= capacity, NEW cmd \in S
  PROVE  /\ Push(cmd) \in Seq(S)
         /\ Len(Push(cmd)) <= capacity
         /\ \A i \in 1 .. Len(Push(cmd)) :
              Push(cmd)[i] = cmd \/ \E j \in 1 .. Len(queue) : Push(cmd)[i] = queue[j]
  <1>1. capacity \in Nat \ {0}
    BY CommandIngestionAssumption DEF CommandIngestionAssumption
  <1>2. CASE Len(queue) >= capacity
    <2>1. Push(cmd) = Append(Tail(queue), cmd)
      BY <1>2 DEF Push
    <2>2. queue # <<>>
      BY <1>1, <1>2
    <2>3. /\ Tail(queue) \in Seq(S) /\ Len(Tail(queue)) = Len(queue) - 1
          /\ \A i \in 1 .. Len(Tail(queue)) :
               Tail(queue)[i] = queue[i + 1] /\ i + 1 \in 1 .. Len(queue)
      BY <2>2, TailElements
    <2>4. /\ Push(cmd) \in Seq(S) /\ Len(Push(cmd)) = Len(queue) - 1 + 1
          /\ \A i \in 1 .. Len(Push(cmd)) :
               \/ Push(cmd)[i] = cmd
               \/ i \in 1 .. Len(Tail(queue)) /\ Push(cmd)[i] = Tail(queue)[i]
      <3> DEFINE s == Tail(queue)
      <3>1. s \in Seq(S) /\ Len(s) = Len(queue) - 1
        BY <2>3
      <3> HIDE DEF s
      <3>2. /\ Append(s, cmd) \in Seq(S) /\ Len(Append(s, cmd)) = Len(s) + 1
            /\ \A i \in 1 .. Len(Append(s, cmd)) :
                 \/ Append(s, cmd)[i] = cmd
                 \/ i \in 1 .. Len(s) /\ Append(s, cmd)[i] = s[i]
        BY <3>1, AppendElements
      <3>. QED  BY <2>1, <3>1, <3>2 DEF s
    <2>5. \A i \in 1 .. Len(Push(cmd)) :
            Push(cmd)[i] = cmd \/ \E j \in 1 .. Len(queue) : Push(cmd)[i] = queue[j]
      BY <2>3, <2>4
    <2>6. Len(queue) \in Nat
      OBVIOUS
    <2>7. Len(Push(cmd)) <= capacity
      BY <2>4, <2>6
    <2>. QED  BY <2>4, <2>5, <2>7
  <1>3. CASE ~(Len(queue) >= capacity)
    <2>1. Push(cmd) = Append(queue, cmd)
      BY <1>3 DEF Push
    <2>2. /\ Push(cmd) \in Seq(S) /\ Len(Push(cmd)) = Len(queue) + 1
          /\ \A i \in 1 .. Len(Push(cmd)) :
               \/ Push(cmd)[i] = cmd
               \/ i \in 1 .. Len(queue) /\ Push(cmd)[i] = queue[i]
      <3>1. /\ Append(queue, cmd) \in Seq(S) /\ Len(Append(queue, cmd)) = Len(queue) + 1
            /\ \A i \in 1 .. Len(Append(queue, cmd)) :
                 \/ Append(queue, cmd)[i] = cmd
                 \/ i \in 1 .. Len(queue) /\ Append(queue, cmd)[i] = queue[i]
        BY AppendElements
      <3>. QED  BY <2>1, <3>1
    <2>3. Len(queue) \in Nat
      OBVIOUS
    <2>4. Len(Push(cmd)) <= capacity
      BY <1>1, <1>3, <2>2, <2>3
    <2>. QED  BY <2>2, <2>4
  <1>. QED  BY <1>2, <1>3

-----------------------------------------------------------------------------
(* Every step preserves the invariant.                                     *)

LEMMA Bounds ==
  /\ {capacity, failure_threshold, recovery_streak} \subseteq Nat \ {0}
  /\ capacity \in Nat /\ failure_threshold \in Nat \ {0} /\ recovery_streak \in Nat \ {0}
  /\ silence_timeout \in Nat /\ max_age \in Nat /\ max_future_skew \in Nat /\ ttl \in Nat
  /\ MaxBlock \in Nat /\ MaxBurst \in Nat /\ MaxSeq \in Nat
  BY CommandIngestionAssumption DEF CommandIngestionAssumption

LEMMA InitAge == ASSUME Init PROVE AgeInv
  <1>1. queue = <<>> /\ queue \in Seq(ParsedCommand) /\ Len(queue) = 0
    BY DEF Init
  <1>2. /\ subscribed \in BOOLEAN /\ armed \in BOOLEAN /\ online \in BOOLEAN
        /\ in_fallback \in BOOLEAN /\ latched \in BOOLEAN
    BY Zenon DEF Init
  <1>3. Young /\ Draining
    BY <1>1 DEF Init, Young, Draining
  <1>4. AgesTogether
    BY Bounds DEF Init, AgesTogether
  <1>5. directive_age \in -max_future_skew .. AgeBound
    BY Bounds DEF Init, AgeBound
  <1>6. /\ burst = 0 /\ silence = 0 /\ failures = 0 /\ oks = 0
        /\ last_applied_seq = -1 /\ latch_age = 0 /\ pc = "drain" /\ lag = 0
    BY DEF Init
  <1>7. TypeOK
    BY <1>1, <1>2, <1>5, <1>6, Bounds DEF TypeOK
  <1>. QED  BY <1>3, <1>4, <1>7 DEF AgeInv

LEMMA ArriveAge == ASSUME AgeInv, NEW p \in Payloads, Arrive(p) PROVE AgeInv'
  <1>1. /\ queue' \in Seq(ParsedCommand) /\ Len(queue') <= capacity
        /\ \A i \in 1 .. Len(queue') :
             queue'[i] = Parse(p) \/ \E j \in 1 .. Len(queue) : queue'[i] = queue[j]
    <2>1. Parse(p) \in ParsedCommand
      BY ParseFresh
    <2>2. queue \in Seq(ParsedCommand) /\ Len(queue) <= capacity
      BY DEF AgeInv, TypeOK
    <2>3. queue' = Push(Parse(p))
      BY DEF Arrive
    <2>. QED  BY <2>1, <2>2, <2>3, PushKeeps
  <1>2. TypeOK'
    BY <1>1, Bounds DEF AgeInv, TypeOK, Arrive, linkVars, guardVars, latchVars, loopVars
  <1>3. Young'
    <2>1. pc' = pc /\ lag' = lag /\ lag \in 0 .. MaxBlock /\ Young
      BY DEF AgeInv, TypeOK, Arrive, loopVars
    <2>2. Parse(p).ok => Parse(p).age <= max_age /\ Parse(p).age \in Int
      BY ParseFresh, Bounds DEF ParsedCommand, Ages
    <2>3. Parse(p).ok => Parse(p).age <= max_age + (IF pc = "act" THEN lag ELSE MaxBlock)
      BY <2>1, <2>2, Bounds
    <2>. QED  BY <1>1, <2>1, <2>3 DEF Young
  <1>4. Draining' /\ AgesTogether'
    BY DEF AgeInv, Draining, AgesTogether, Arrive, latchVars, loopVars
  <1>. QED  BY <1>2, <1>3, <1>4 DEF AgeInv

LEMMA LinkAge == ASSUME AgeInv, ConnectionLost \/ Reconnected PROVE AgeInv'
  <1>1. /\ UNCHANGED <<burst, queue, guardVars, latchVars, loopVars>>
        /\ online' \in BOOLEAN /\ subscribed' \in BOOLEAN
    BY Zenon DEF AgeInv, TypeOK, ConnectionLost, Reconnected
  <1>2. TypeOK'
    BY <1>1, Bounds DEF AgeInv, TypeOK, guardVars, latchVars, loopVars
  <1>. QED
    BY <1>1, <1>2 DEF AgeInv, Young, Draining, AgesTogether, latchVars, loopVars

(* Popping leaves the rest as old as it was.                               *)
LEMMA PopAge == ASSUME AgeInv, Popped
  PROVE  /\ queue' \in Seq(ParsedCommand) /\ Len(queue') <= capacity
         /\ Head(queue) \in ParsedCommand
         /\ Head(queue).ok => Head(queue).age <= max_age + MaxBlock
         /\ Young' /\ Draining'
  <1>1. /\ queue \in Seq(ParsedCommand) /\ queue # <<>> /\ Len(queue) <= capacity
        /\ queue' = Tail(queue) /\ pc' = pc /\ lag' = lag /\ pc = "drain"
        /\ Young /\ Draining
    BY DEF AgeInv, TypeOK, Popped, loopVars
  <1>2. /\ Head(queue) = queue[1] /\ Head(queue) \in ParsedCommand
        /\ 1 \in 1 .. Len(queue)
        /\ queue' \in Seq(ParsedCommand) /\ Len(queue') = Len(queue) - 1
        /\ \A i \in 1 .. Len(queue') : queue'[i] = queue[i + 1] /\ i + 1 \in 1 .. Len(queue)
    BY <1>1, TailElements
  <1>3. Len(queue') <= capacity
    BY <1>1, <1>2, Bounds
  <1>4. Young' /\ Draining'
    BY <1>1, <1>2 DEF Young, Draining
  <1>5. Head(queue).ok => Head(queue).age <= max_age + MaxBlock
    BY <1>1, <1>2 DEF Young
  <1>. QED  BY <1>2, <1>3, <1>4, <1>5

LEMMA HandleValidAge == ASSUME AgeInv, HandleValid PROVE AgeInv'
  <1>1. /\ queue' \in Seq(ParsedCommand) /\ Len(queue') <= capacity
        /\ Young' /\ Draining'
        /\ Head(queue) \in ParsedCommand /\ Head(queue).age <= max_age + MaxBlock
    BY PopAge DEF HandleValid
  <1>2. /\ armed' = TRUE /\ silence' = 0 /\ failures' = 0
        /\ UNCHANGED <<online, subscribed, burst, pc, lag>>
    BY DEF HandleValid, Popped, linkVars, loopVars
  <1>3. in_fallback' \in BOOLEAN
    BY Zenon DEF HandleValid
  <1>4. oks' \in 0 .. recovery_streak
    <2>1. oks' = 0 \/ oks' = UpTo(recovery_streak, oks + 1)
      BY Zenon DEF HandleValid
    <2>2. oks + 1 \in Int /\ 0 <= oks + 1
      BY Bounds DEF AgeInv, TypeOK
    <2>3. UpTo(recovery_streak, oks + 1) \in 0 .. recovery_streak
      BY <2>2, UpToRange, Bounds
    <2>. QED  BY <2>1, <2>3, Bounds
  <1>5. Head(queue).seq \in 0 .. MaxSeq /\ Head(queue).age \in Ages
    BY <1>1 DEF ParsedCommand
  <1>6. \/ /\ last_applied_seq' = Head(queue).seq /\ latched' = TRUE /\ latch_age' = 0
           /\ directive_age' = Head(queue).age
        \/ UNCHANGED <<last_applied_seq, latchVars>>
    BY Zenon DEF HandleValid
  <1>7. /\ last_applied_seq' \in -1 .. MaxSeq /\ latched' \in BOOLEAN
        /\ latch_age' \in 0 .. ttl + MaxBlock
        /\ directive_age' \in -max_future_skew .. AgeBound
        /\ AgesTogether'
    <2>1. CASE UNCHANGED <<last_applied_seq, latchVars>>
      BY <2>1 DEF AgeInv, TypeOK, AgesTogether, latchVars
    <2>2. CASE /\ last_applied_seq' = Head(queue).seq /\ latched' = TRUE /\ latch_age' = 0
               /\ directive_age' = Head(queue).age
      BY <2>2, <1>1, <1>5, Bounds DEF Ages, AgeBound, AgesTogether
    <2>. QED  BY <1>6, <2>1, <2>2
  <1>8. TypeOK'
    BY <1>1, <1>2, <1>3, <1>4, <1>7, Bounds DEF AgeInv, TypeOK
  <1>. QED  BY <1>1, <1>7, <1>8 DEF AgeInv

LEMMA HandleRejectedAge == ASSUME AgeInv, HandleRejected PROVE AgeInv'
  <1>1. queue' \in Seq(ParsedCommand) /\ Len(queue') <= capacity /\ Young' /\ Draining'
    BY PopAge DEF HandleRejected
  <1>2. /\ oks' = 0
        /\ UNCHANGED <<online, subscribed, burst, pc, lag, armed, silence, last_applied_seq,
                       latched, latch_age, directive_age>>
    BY DEF HandleRejected, Popped, linkVars, loopVars, latchVars
  <1>3. in_fallback' \in BOOLEAN
    BY Zenon DEF HandleRejected
  <1>4. failures' \in 0 .. failure_threshold
    <2>1. failures' = UpTo(failure_threshold, failures + 1)
      BY DEF HandleRejected
    <2>2. failures + 1 \in Int /\ 0 <= failures + 1
      BY Bounds DEF AgeInv, TypeOK
    <2>. QED  BY <2>1, <2>2, UpToRange, Bounds
  <1>5. TypeOK'
    BY <1>1, <1>2, <1>3, <1>4, Bounds DEF AgeInv, TypeOK
  <1>6. AgesTogether'
    BY <1>2 DEF AgeInv, AgesTogether
  <1>. QED  BY <1>1, <1>5, <1>6 DEF AgeInv

LEMMA WatchAge == ASSUME AgeInv, Watch PROVE AgeInv'
  <1>1. /\ pc' = "act" /\ queue' = queue /\ queue = <<>>
        /\ UNCHANGED <<online, subscribed, burst, armed, silence, failures, last_applied_seq,
                       latched, latch_age, directive_age, lag>>
    BY DEF Watch, linkVars, latchVars
  <1>2. in_fallback' \in BOOLEAN /\ oks' \in {0, oks}
    BY Zenon DEF Watch, SilenceTrip, AgeInv, TypeOK
  <1>3. TypeOK'
    BY <1>1, <1>2, Bounds DEF AgeInv, TypeOK
  <1>4. Young' /\ Draining' /\ AgesTogether'
    BY <1>1 DEF AgeInv, Young, Draining, AgesTogether
  <1>. QED  BY <1>3, <1>4 DEF AgeInv

LEMMA IterateAge == ASSUME AgeInv, Iterate PROVE AgeInv'
  <1>1. /\ pc = "act" /\ pc' = "drain" /\ lag' = 0
        /\ UNCHANGED <<online, subscribed, burst, queue, armed, silence, failures, oks,
                       in_fallback, last_applied_seq, latched, latch_age, directive_age>>
    BY DEF Iterate, linkVars, guardVars, latchVars
  <1>2. TypeOK'
    BY <1>1, Bounds DEF AgeInv, TypeOK
  <1>3. Young'
    <2>1. ASSUME NEW i \in 1 .. Len(queue)  PROVE queue[i].age \in Int
      <3>1. queue[i] \in ParsedCommand
        BY DEF AgeInv, TypeOK
      <3>. QED  BY <3>1, Bounds DEF ParsedCommand, Ages
    <2>2. lag \in 0 .. MaxBlock
      BY DEF AgeInv, TypeOK
    <2>. QED  BY <1>1, <2>1, <2>2, Bounds DEF AgeInv, Young
  <1>4. Draining' /\ AgesTogether'
    BY <1>1 DEF AgeInv, Draining, AgesTogether
  <1>. QED  BY <1>2, <1>3, <1>4 DEF AgeInv

LEMMA TickAge == ASSUME AgeInv, Tick PROVE AgeInv'
  <1>1. /\ pc = "act" /\ pc' = "act" /\ lag < MaxBlock /\ lag' = lag + 1 /\ burst' = 0
        /\ UNCHANGED <<online, subscribed, armed, failures, oks, in_fallback,
                       last_applied_seq, latched>>
    BY DEF Tick, linkVars
  <1>2. /\ lag \in 0 .. MaxBlock /\ queue \in Seq(ParsedCommand) /\ Len(queue) <= capacity
        /\ Young /\ AgesTogether
        /\ latch_age \in 0 .. ttl + MaxBlock
        /\ directive_age \in -max_future_skew .. AgeBound
    BY DEF AgeInv, TypeOK
  <1> DEFINE Older(cmd) == [cmd EXCEPT !.age = IF cmd.ok THEN @ + 1 ELSE @]
  <1>3. Len(queue') = Len(queue) /\ queue' = [i \in 1 .. Len(queue) |-> Older(queue[i])]
    <2>1. queue' = [i \in 1 .. Len(queue) |-> Older(queue[i])]
      BY <1>2 DEF Tick
    <2>. QED  BY <1>2, <2>1
  <1>4. ASSUME NEW i \in 1 .. Len(queue)
        PROVE  /\ Older(queue[i]) \in ParsedCommand
               /\ Older(queue[i]).ok => Older(queue[i]).age <= max_age + lag + 1
    <2>1. queue[i] \in ParsedCommand /\ (queue[i].ok => queue[i].age <= max_age + lag)
      BY <1>1, <1>2 DEF Young
    <2>2. queue[i].age \in Ages /\ queue[i].ok \in BOOLEAN /\ queue[i].seq \in 0 .. MaxSeq
      BY <2>1 DEF ParsedCommand
    <2>3. CASE queue[i].ok
      <3>1. queue[i].age + 1 \in Ages /\ queue[i].age + 1 <= max_age + lag + 1
        BY <1>1, <1>2, <2>1, <2>2, <2>3, Bounds DEF Ages
      <3>2. Older(queue[i]) = [queue[i] EXCEPT !.age = queue[i].age + 1]
        BY <2>1, <2>3 DEF ParsedCommand
      <3>. QED  BY <2>1, <3>1, <3>2 DEF ParsedCommand
    <2>4. CASE ~queue[i].ok
      <3>1. Older(queue[i]) = queue[i]
        BY <2>1, <2>4 DEF ParsedCommand
      <3>. QED  BY <2>1, <2>4, <3>1
    <2>. QED  BY <2>3, <2>4
  <1> HIDE DEF Older
  <1>5. queue' \in Seq(ParsedCommand) /\ Len(queue') <= capacity
    BY <1>2, <1>3, <1>4
  <1>6. Young'
    BY <1>1, <1>2, <1>3, <1>4, Bounds DEF Young
  <1>7. /\ silence' \in 0 .. silence_timeout + 1
        /\ latch_age' \in 0 .. ttl + MaxBlock
        /\ directive_age' \in -max_future_skew .. AgeBound
    <2>1. /\ silence + 1 \in Int /\ 0 <= silence + 1
          /\ latch_age + 1 \in Int /\ 0 <= latch_age + 1
          /\ directive_age + 1 \in Int /\ -max_future_skew <= directive_age + 1
      BY <1>2, Bounds DEF AgeInv, TypeOK, AgeBound
    <2>2. /\ silence_timeout + 1 \in Nat /\ ttl + MaxBlock \in Nat /\ AgeBound \in Nat
          /\ -max_future_skew \in Int /\ -max_future_skew <= AgeBound
      BY Bounds DEF AgeBound
    <2>3. UpTo(silence_timeout + 1, silence + 1) \in 0 .. silence_timeout + 1
      BY <2>1, <2>2 DEF UpTo
    <2>4. UpTo(ttl + MaxBlock, latch_age + 1) \in 0 .. ttl + MaxBlock
      BY <2>1, <2>2, UpToRange
    <2>5. UpTo(AgeBound, directive_age + 1) \in -max_future_skew .. AgeBound
      BY <2>1, <2>2, UpToRange
    <2>. QED  BY <2>3, <2>4, <2>5 DEF Tick
  <1>8. AgesTogether'
    <2>1. /\ latch_age' = UpTo(ttl + MaxBlock, latch_age + 1)
          /\ directive_age' = UpTo(AgeBound, directive_age + 1)
      BY DEF Tick
    <2>. QED  BY <1>2, <2>1, Bounds DEF UpTo, AgesTogether, AgeBound
  <1>9. TypeOK'
    BY <1>1, <1>2, <1>5, <1>7, Bounds DEF AgeInv, TypeOK
  <1>10. Draining'
    BY <1>1 DEF Draining
  <1>. QED  BY <1>6, <1>8, <1>9, <1>10 DEF AgeInv

LEMMA StutterAge == ASSUME AgeInv, UNCHANGED vars PROVE AgeInv'
  BY DEF AgeInv, TypeOK, Young, Draining, AgesTogether, vars, linkVars, guardVars, latchVars,
         loopVars

LEMMA NextAge == ASSUME AgeInv, [Next]_vars PROVE AgeInv'
  BY ArriveAge, LinkAge, HandleValidAge, HandleRejectedAge, WatchAge, IterateAge, TickAge,
     StutterAge, Zenon DEF Next

(* The invariant holds in every reachable state.                           *)
THEOREM AgeInvariance == Spec => []AgeInv
  BY InitAge, NextAge, PTL DEF Spec

-----------------------------------------------------------------------------
(* Results.                                                                *)

(* No directive steers the heads past its age budget, and the command path *)
(* keeps to its bounds, whatever arrives in whatever order: get() refuses   *)
(* the latch where its age saturates, before that the two ages go together. *)
THEOREM DirectivesAreYoung == Spec => []DirectiveAgeBounded
  <1>1. ASSUME AgeInv PROVE DirectiveAgeBounded
    <2>1. CASE ~DirectiveInForce
      BY <1>1, <2>1 DEF AgeInv, DirectiveAgeBounded
    <2>2. CASE DirectiveInForce
      <3>1. /\ latch_age \in 0 .. ttl + MaxBlock /\ lag \in 0 .. MaxBlock
            /\ directive_age \in Int
        BY <1>1, Bounds DEF AgeInv, TypeOK, AgeBound
      <3>2. latch_age - lag < ttl
        BY <2>2 DEF DirectiveInForce, LatchGet
      <3>3. directive_age <= max_age + MaxBlock + latch_age
        BY <1>1, <3>1, <3>2, Bounds DEF AgeInv, AgesTogether
      <3>4. directive_age < AgeBound
        BY <3>1, <3>2, <3>3, Bounds DEF AgeBound
      <3>. QED  BY <1>1, <3>4 DEF AgeInv, DirectiveAgeBounded
    <2>. QED  BY <2>1, <2>2
  <1>. QED  BY <1>1, AgeInvariance, PTL

(* Only a newer command renews the time-to-live: time makes the latch older *)
(* or leaves it at its bound, and every other step leaves it alone.         *)
THEOREM OnlyNewerRenews == Spec => ReplayNeverRenews
  <1>1. ASSUME AgeInv, [Next]_vars
        PROVE  [latch_age' < latch_age => last_applied_seq' > last_applied_seq]_vars
    <2>1. latch_age \in 0 .. ttl + MaxBlock /\ last_applied_seq \in Int
      BY <1>1, Bounds DEF AgeInv, TypeOK
    <2>2. CASE HandleValid
      <3>1. CASE Newer(Head(queue).seq)
        <4>1. Head(queue) \in ParsedCommand
          BY <1>1, <2>2, PopAge DEF HandleValid
        <4>2. Head(queue).seq \in Int
          BY <4>1, Bounds DEF ParsedCommand
        <4>. QED  BY <2>1, <2>2, <3>1, <4>2 DEF HandleValid, Newer
      <3>2. CASE ~Newer(Head(queue).seq)
        BY <2>1, <2>2, <3>2 DEF HandleValid, latchVars
      <3>. QED  BY <3>1, <3>2
    <2>3. CASE Tick
      BY <2>1, <2>3, Bounds DEF Tick, UpTo
    <2>4. CASE UNCHANGED latch_age
      BY <2>1, <2>4
    <2>5. HandleValid \/ Tick \/ UNCHANGED latch_age
      BY <1>1 DEF Next, Arrive, ConnectionLost, Reconnected, HandleRejected, Watch, Iterate,
                  latchVars, vars
    <2>. QED  BY <2>2, <2>3, <2>4, <2>5
  <1>. QED  BY <1>1, AgeInvariance, PTL DEF Spec, ReplayNeverRenews

-----------------------------------------------------------------------------
(* The hysteresis.                                                         *)

(* The guard counts what the observer counts; its successes may be fewer,  *)
(* for a recovery starts them anew.                                        *)
Counted ==
  /\ failures = rejected_run
  /\ valid_run \in Nat /\ oks <= valid_run
  /\ silence = unheard

HysteresisInv == AgeInv /\ Counted

(* What the observer sees of each step: the handlers of valid and rejected *)
(* commands and the clock exclude each other and every other step.         *)
LEMMA ObserveValid ==
  ASSUME HandleValid, Observe
  PROVE  /\ rejected_run' = 0 /\ unheard' = 0
         /\ valid_run' = UpTo(recovery_streak, valid_run + 1)
  <1>1. ~HandleRejected
    BY DEF HandleValid, HandleRejected
  <1>2. ~(~in_fallback /\ in_fallback')
    BY Zenon DEF HandleValid
  <1>. QED  BY <1>1, <1>2, Zenon DEF Observe

LEMMA ObserveRejected ==
  ASSUME HandleRejected, Observe
  PROVE  /\ rejected_run' = UpTo(failure_threshold, rejected_run + 1)
         /\ valid_run' = 0 /\ unheard' = unheard
  <1>1. ~HandleValid
    BY DEF HandleValid, HandleRejected
  <1>2. ~Tick
    BY DEF HandleRejected, Popped, Tick
  <1>. QED  BY <1>1, <1>2, Zenon DEF Observe

LEMMA ObserveTick ==
  ASSUME Tick, Observe
  PROVE  /\ rejected_run' = rejected_run /\ valid_run' = valid_run
         /\ unheard' = UpTo(silence_timeout + 1, unheard + 1)
  <1>1. ~HandleValid /\ ~HandleRejected
    BY DEF HandleValid, HandleRejected, Popped, Tick
  <1>2. ~(~in_fallback /\ in_fallback')
    BY Zenon DEF Tick
  <1>. QED  BY <1>1, <1>2, Zenon DEF Observe

Elsewhere ==
  \/ \E p \in Payloads : Arrive(p)
  \/ ConnectionLost \/ Reconnected \/ Watch \/ Iterate

LEMMA ObserveElsewhere ==
  ASSUME TypeOK, Elsewhere, Observe
  PROVE  /\ rejected_run' = rejected_run /\ unheard' = unheard
         /\ valid_run' = IF ~in_fallback /\ in_fallback' THEN 0 ELSE valid_run
  <1>1. burst \in Nat /\ lag \in Nat
    BY Bounds DEF TypeOK
  <1>2. ~HandleValid /\ ~HandleRejected
    BY <1>1 DEF HandleValid, HandleRejected, Popped, linkVars, loopVars, Elsewhere, Arrive,
                ConnectionLost, Reconnected, Watch, Iterate
  <1>3. ~Tick
    BY <1>1 DEF Tick, loopVars, Elsewhere, Arrive, ConnectionLost, Reconnected, Watch, Iterate
  <1>. QED  BY <1>2, <1>3, Zenon DEF Observe

(* A step leaves the counts in agreement, and changes the guard's mind only *)
(* for one of the reasons of the hysteresis.                                *)
Justified ==
  /\ ~in_fallback /\ in_fallback' =>
       rejected_run' >= failure_threshold \/ unheard > silence_timeout
  /\ in_fallback /\ ~in_fallback' => valid_run' >= recovery_streak

LEMMA ValidCounts ==
  ASSUME HysteresisInv, HandleValid, Observe
  PROVE  Counted' /\ Justified
  <1>1. /\ failures' = 0 /\ silence' = 0 /\ rejected_run' = 0 /\ unheard' = 0
        /\ valid_run' = UpTo(recovery_streak, valid_run + 1)
    BY ObserveValid DEF HandleValid
  <1>2. /\ oks' = 0 \/ oks' = UpTo(recovery_streak, oks + 1)
        /\ in_fallback /\ ~in_fallback' => oks + 1 >= recovery_streak
        /\ ~(~in_fallback /\ in_fallback')
    BY Zenon DEF HandleValid
  <1>3. oks \in Nat /\ valid_run \in Nat /\ oks <= valid_run
    BY Bounds DEF HysteresisInv, AgeInv, TypeOK, Counted
  <1>4. valid_run' \in Nat /\ oks' <= valid_run'
    BY <1>1, <1>2, <1>3, Bounds DEF UpTo
  <1>5. oks + 1 >= recovery_streak => valid_run' >= recovery_streak
    BY <1>1, <1>3, Bounds DEF UpTo
  <1>6. Counted'
    BY <1>1, <1>4 DEF Counted
  <1>7. Justified
    BY <1>2, <1>5, Zenon DEF Justified
  <1>. QED  BY <1>6, <1>7

LEMMA RejectedCounts ==
  ASSUME HysteresisInv, HandleRejected, Observe
  PROVE  Counted' /\ Justified
  <1>1. /\ rejected_run' = UpTo(failure_threshold, rejected_run + 1)
        /\ valid_run' = 0 /\ unheard' = unheard /\ oks' = 0 /\ silence' = silence
        /\ failures' = UpTo(failure_threshold, failures + 1)
        /\ in_fallback' = (in_fallback \/ failures + 1 >= failure_threshold)
    BY ObserveRejected DEF HandleRejected
  <1>2. failures \in Nat /\ failures = rejected_run /\ silence = unheard
    BY Bounds DEF HysteresisInv, AgeInv, TypeOK, Counted
  <1>3. Counted'
    BY <1>1, <1>2 DEF Counted
  <1>4. failures + 1 >= failure_threshold => rejected_run' >= failure_threshold
    BY <1>1, <1>2, Bounds DEF UpTo
  <1>5. Justified
    BY <1>1, <1>4, Zenon DEF Justified
  <1>. QED  BY <1>3, <1>5

LEMMA TickCounts ==
  ASSUME HysteresisInv, Tick, Observe
  PROVE  Counted' /\ Justified
  <1>1. /\ rejected_run' = rejected_run /\ valid_run' = valid_run
        /\ unheard' = UpTo(silence_timeout + 1, unheard + 1)
        /\ failures' = failures /\ oks' = oks
        /\ silence' = UpTo(silence_timeout + 1, silence + 1)
    BY ObserveTick DEF Tick
  <1>2. Counted'
    BY <1>1 DEF HysteresisInv, Counted
  <1>3. Justified
    BY Zenon DEF Tick, Justified
  <1>. QED  BY <1>2, <1>3

LEMMA ElsewhereCounts ==
  ASSUME HysteresisInv, Elsewhere, Observe
  PROVE  Counted' /\ Justified
  <1>1. /\ rejected_run' = rejected_run /\ unheard' = unheard
        /\ valid_run' = IF ~in_fallback /\ in_fallback' THEN 0 ELSE valid_run
    BY ObserveElsewhere DEF HysteresisInv, AgeInv
  <1>2. failures' = failures /\ silence' = silence
    BY DEF Elsewhere, Arrive, ConnectionLost, Reconnected, Watch, Iterate, guardVars
  <1>3. CASE UNCHANGED <<in_fallback, oks>>
    <2>1. valid_run' = valid_run
      BY <1>1, <1>3, Zenon
    <2>2. Counted'
      BY <1>1, <1>2, <1>3, <2>1 DEF HysteresisInv, Counted
    <2>3. Justified
      BY <1>3, Zenon DEF Justified
    <2>. QED  BY <2>2, <2>3
  <1>4. CASE Trips /\ SilenceTrip
    <2>1. ~in_fallback /\ silence > silence_timeout /\ in_fallback' = TRUE /\ oks' = 0
      BY <1>4, Zenon DEF Trips, TimedOut, SilenceTrip
    <2>2. valid_run' = 0
      BY <1>1, <2>1, Zenon
    <2>3. Counted'
      BY <1>1, <1>2, <2>1, <2>2 DEF HysteresisInv, Counted
    <2>4. unheard > silence_timeout
      BY <2>1, Zenon DEF HysteresisInv, Counted
    <2>5. Justified
      BY <2>1, <2>4, Zenon DEF Justified
    <2>. QED  BY <2>3, <2>5
  <1>5. UNCHANGED <<in_fallback, oks>> \/ (Trips /\ SilenceTrip)
    BY Zenon DEF Elsewhere, Arrive, ConnectionLost, Reconnected, Watch, Iterate, guardVars
  <1>. QED  BY <1>3, <1>4, <1>5

(* The Brain is distrusted and trusted only for the reasons of the          *)
(* hysteresis, over any interleaving of arrivals, silence and replays: the  *)
(* guard's counters are those of an observer who sees every command.        *)
THEOREM GuardHasHysteresis == ObservedSpec => Hysteresis
  <1>1. ObservedInit => HysteresisInv
    <2>. SUFFICES ASSUME ObservedInit PROVE HysteresisInv
      OBVIOUS
    <2>1. AgeInv
      BY InitAge, Zenon DEF ObservedInit
    <2>2. /\ failures = 0 /\ rejected_run = 0 /\ oks = 0 /\ valid_run = 0
          /\ silence = 0 /\ unheard = 0
      BY Zenon DEF ObservedInit, Init
    <2>3. Counted
      BY <2>2 DEF Counted
    <2>. QED  BY <2>1, <2>3 DEF HysteresisInv
  <1>2. ASSUME HysteresisInv, Next /\ Observe PROVE HysteresisInv' /\ Justified
    <2>1. AgeInv'
      BY <1>2, NextAge DEF HysteresisInv
    <2>2. HandleValid \/ HandleRejected \/ Tick \/ Elsewhere
      BY <1>2, Zenon DEF Next, Elsewhere
    <2>3. Counted' /\ Justified
      BY <1>2, <2>2, ValidCounts, RejectedCounts, TickCounts, ElsewhereCounts
    <2>. QED  BY <2>1, <2>3 DEF HysteresisInv
  <1>3. ASSUME HysteresisInv, UNCHANGED <<vars, observer>> PROVE HysteresisInv'
    <2>1. AgeInv'
      BY <1>3, NextAge DEF HysteresisInv
    <2>2. Counted'
      BY <1>3 DEF HysteresisInv, Counted, vars, guardVars, observer
    <2>. QED  BY <2>1, <2>2 DEF HysteresisInv
  <1>4. HysteresisInv /\ [Next /\ Observe]_<<vars, observer>> =>
          HysteresisInv' /\ [Justified]_<<vars, observer>>
    BY <1>2, <1>3
  <1>. QED  BY <1>1, <1>4, PTL DEF ObservedSpec, Hysteresis, Justified
=============================================================================
