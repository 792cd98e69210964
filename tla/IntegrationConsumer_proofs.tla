---------------------- MODULE IntegrationConsumer_proofs ----------------------
(***************************************************************************)
(* Theorems about IntegrationConsumer, for any events, any length of the   *)
(* topic, any retry and breaker settings, any number of kills and signals. *)
(***************************************************************************)
EXTENDS IntegrationConsumer, SequenceTheorems, TLAPS

-----------------------------------------------------------------------------
(* Types and offsets.                                                       *)

\* The offsets are in order, and a record is being processed just when there
\* is one that was fetched and is not done.
Ordered ==
    /\ committed <= head /\ head <= done /\ done <= fetched /\ fetched <= Len(topic)
    /\ pc \in {"record", "call", "dlq", "logSuccess", "logFailed"} => done < fetched
    /\ pc = "poll" => done = fetched
    /\ pc = "call" => attempt < maxRetries

\* TypeOK apart from the Boolean variable.
TypedButStopping ==
    /\ topic \in Seq(Event)
    /\ committed \in Nat /\ head \in Nat /\ fetched \in Nat /\ done \in Nat
    /\ pc \in {"poll", "record", "call", "dlq", "logSuccess", "logFailed", "leave", "down"}
    /\ attempt \in 0..maxRetries
    /\ breaker \in Breakers
    /\ tickets \in [Event -> Nat]
    /\ logs \in [Event -> SUBSET {"success", "failed"}]
    /\ dlq \in SUBSET Event
    /\ dlqLost \in SUBSET Event
    /\ streak \in 0..TripAfter
    /\ stops \in 0..MaxStop

LEMMA TypeParts == TypeOK <=> TypedButStopping /\ stopping \in BOOLEAN
  BY Zenon DEF TypeOK, TypedButStopping

LEMMA StoppingTyped == TypeOK /\ [Next]_vars => stopping' \in BOOLEAN
<1> SUFFICES ASSUME TypeOK, [Next]_vars PROVE stopping' \in BOOLEAN
  OBVIOUS
<1>1. stopping \in BOOLEAN
  BY DEF TypeOK
<1>2. stopping' = stopping \/ stopping' = TRUE \/ stopping' = FALSE
  BY Zenon DEF Next, Consume, Idle, Poll, Begin, Refused, Forward, ForwardFails, SendToDLQ,
     InsertLog, StopPolling, Leave, Restart, Publish, TimeoutElapses, IntervalElapses,
     AutoCommit, Signal, MainReturns, Kill, vars
<1> QED BY <1>1, <1>2

LEMMA TypeInit == Init => TypeOK /\ Ordered
<1> SUFFICES ASSUME Init PROVE TypeOK /\ Ordered
  OBVIOUS
<1>1. topic \in Seq(Event) /\ Len(topic) = 0
  BY EmptySeq DEF Init
<1>2. breaker \in Breakers
  BY CountAssumption DEF Init, Closed, Breakers
<1>3. Ordered
  BY <1>1 DEF Init, Ordered
<1>4. stopping \in BOOLEAN
  BY DEF Init
<1>5. TypedButStopping
  BY <1>1, <1>2, CountAssumption DEF Init, TypedButStopping
<1> QED BY <1>3, <1>4, <1>5, TypeParts

\* The record being processed is a record of the topic.
LEMMA CurrentEvent ==
    ASSUME TypeOK, Ordered, pc \in {"record", "call", "dlq", "logSuccess", "logFailed"}
    PROVE  Current \in Event /\ done + 1 \in 1..Len(topic)
<1>1. Len(topic) \in Nat
  BY LenProperties DEF TypeOK
<1>2. done + 1 \in 1..Len(topic)
  BY <1>1 DEF TypeOK, Ordered
<1> QED BY <1>2, ElementOfSeq DEF TypeOK, Current

\* The breaker stays a breaker.
LEMMA BreakerTyped ==
    /\ Closed \in Breakers /\ HalfOpen \in Breakers
    /\ TypeOK /\ Admits => AfterSuccess \in Breakers /\ AfterFailure \in Breakers
<1> USE CountAssumption DEF Closed, Open, HalfOpen, Breakers
<1>1. Closed \in Breakers /\ HalfOpen \in Breakers /\ Open \in Breakers
  OBVIOUS
<1>2. ASSUME TypeOK, Admits PROVE AfterSuccess \in Breakers /\ AfterFailure \in Breakers
  <2>1. CASE breaker.state = "closed"
    BY <1>2, <2>1 DEF AfterSuccess, AfterFailure, TypeOK
  <2>2. CASE breaker.state = "halfOpen"
    <3>1. breaker \in [state : {"halfOpen"}, count : 0..(MaxRequests - 1)]
      BY <1>2, <2>2 DEF TypeOK
    <3>2. AfterFailure \in Breakers
      BY <1>1, <2>2 DEF AfterFailure
    <3>3. AfterSuccess \in Breakers
      <4>1. CASE breaker.count + 1 >= MaxRequests
        BY <1>1, <4>1 DEF AfterSuccess
      <4>2. CASE ~(breaker.count + 1 >= MaxRequests)
        BY <2>2, <3>1, <4>2 DEF AfterSuccess
      <4> QED BY <4>1, <4>2
    <3> QED BY <3>2, <3>3
  <2> QED BY <1>2, <2>1, <2>2 DEF Admits
<1> QED BY <1>1, <1>2

\* The end of processRecord keeps the offsets in order.
LEMMA FinishOrdered ==
    ASSUME TypeOK, Ordered, FinishRecord, done < fetched,
           topic' = topic, committed' = committed
    PROVE  /\ done' \in Nat /\ head' \in Nat /\ fetched' \in Nat
           /\ pc' \in {"record", "leave", "poll"}
           /\ Ordered'
<1>1. Len(topic) \in Nat
  BY LenProperties DEF TypeOK
<1> QED BY <1>1 DEF TypeOK, Ordered, FinishRecord

LEMMA TypeStep == TypeOK /\ Ordered /\ [Next]_vars => TypeOK' /\ Ordered'
<1> SUFFICES ASSUME TypeOK, Ordered, [Next]_vars PROVE TypedButStopping' /\ Ordered'
  BY StoppingTyped, Zenon DEF TypeOK, TypedButStopping
<1>a. TypedButStopping
  BY TypeParts
<1>0. Len(topic) \in Nat
  BY LenProperties DEF TypeOK
<1>b. Breakers' = Breakers
  BY DEF Breakers
<1> USE CountAssumption, <1>0, <1>a, <1>b DEF kafka, offsets, outside, TypedButStopping
<1>1. CASE Poll
  BY <1>1 DEF Poll, Ordered
<1>2. CASE Begin
  <2>1. CASE Current \notin Malformed /\ HasSuccess(Current) /\ FinishRecord
    <3>1. topic' = topic /\ committed' = committed /\ done < fetched
      BY <1>2 DEF Begin, Ordered
    <3>2. /\ done' \in Nat /\ head' \in Nat /\ fetched' \in Nat
          /\ pc' \in {"record", "leave", "poll"} /\ Ordered'
      BY <2>1, <3>1, FinishOrdered
    <3> QED BY <1>2, <3>2 DEF Begin
  <2>2. CASE pc' \in {"dlq", "call"} /\ UNCHANGED offsets
    BY <1>2, <2>2 DEF Begin, Ordered
  <2> QED BY <1>2, <2>1, <2>2 DEF Begin
<1>3. CASE Refused
  BY <1>3 DEF Refused, Ordered
<1>4. CASE Forward
  <2>1. breaker' = AfterSuccess /\ Admits
    BY <1>4 DEF Forward
  <2>2. breaker' \in Breakers
    BY <2>1, BreakerTyped, Zenon
  <2>3. tickets' \in [Event -> Nat]
    <3>1. Current \in Event
      BY <1>4, CurrentEvent DEF Forward
    <3> QED BY <1>4, <3>1 DEF Forward
  <2>5. attempt' \in 0..maxRetries
    BY <1>4 DEF Forward, Ordered
  <2>4. TypedButStopping'
    BY <1>4, <2>2, <2>3, <2>5 DEF Forward
  <2> QED BY <1>4, <2>4 DEF Forward, Ordered
<1>5. CASE ForwardFails
  <2>1. (breaker' = AfterFailure \/ breaker' = Closed) /\ Admits
    BY <1>5 DEF ForwardFails
  <2>2. streak' \in 0..TripAfter /\ attempt' \in 0..maxRetries /\ tickets' \in [Event -> Nat]
    BY <1>5 DEF ForwardFails, Ordered
  <2>3. TypedButStopping'
    BY <1>5, <2>1, <2>2, BreakerTyped DEF ForwardFails
  <2> QED BY <1>5, <2>3 DEF ForwardFails, TriesLeft, Ordered
<1>6. CASE SendToDLQ
  <2>1. Current \in Event /\ done < fetched
    BY <1>6, CurrentEvent DEF SendToDLQ, Ordered
  <2>2. CASE FinishRecord
    BY <1>6, <2>1, <2>2, FinishOrdered DEF SendToDLQ
  <2>3. CASE pc' = "logFailed" /\ UNCHANGED offsets
    BY <1>6, <2>1, <2>3 DEF SendToDLQ, Ordered
  <2> QED BY <1>6, <2>2, <2>3 DEF SendToDLQ
<1>7. CASE InsertLog
  <2>1. done < fetched
    BY <1>7 DEF InsertLog, Ordered
  <2>2. logs' \in [Event -> SUBSET {"success", "failed"}]
    BY <1>7 DEF InsertLog, LoggedStatus
  <2>3. FinishRecord /\ topic' = topic /\ committed' = committed
    BY <1>7 DEF InsertLog
  <2>4. /\ done' \in Nat /\ head' \in Nat /\ fetched' \in Nat
        /\ pc' \in {"record", "leave", "poll"} /\ Ordered'
    BY <2>1, <2>3, FinishOrdered
  <2> QED BY <1>7, <2>2, <2>4 DEF InsertLog
<1>8. CASE StopPolling \/ Leave \/ MainReturns \/ Kill \/ Signal \/ AutoCommit
  <2>1. TypedButStopping'
    BY <1>8 DEF StopPolling, Leave, MainReturns, Kill, Signal, AutoCommit
  <2>2. Ordered'
    BY <1>8 DEF StopPolling, Leave, MainReturns, Kill, Signal, AutoCommit, Ordered
  <2> QED BY <2>1, <2>2
<1>9. CASE Restart
  BY <1>9, BreakerTyped DEF Restart, Ordered
<1>10. ASSUME NEW e \in Event, Publish(e) PROVE TypedButStopping' /\ Ordered'
  <2>1. topic' \in Seq(Event) /\ Len(topic') = Len(topic) + 1
    BY <1>10, AppendProperties DEF Publish
  <2> QED BY <1>10, <2>1 DEF Publish, Ordered
<1>11. CASE TimeoutElapses \/ IntervalElapses
  <2>1. breaker' \in Breakers
    BY <1>11, BreakerTyped, Zenon DEF TimeoutElapses, IntervalElapses
  <2>2. streak' \in 0..TripAfter
    BY <1>11 DEF TimeoutElapses, IntervalElapses
  <2> QED BY <1>11, <2>1, <2>2 DEF TimeoutElapses, IntervalElapses, Ordered
<1>12. CASE UNCHANGED vars
  BY <1>12 DEF vars, Ordered
<1> QED
  BY <1>1, <1>2, <1>3, <1>4, <1>5, <1>6, <1>7, <1>8, <1>9, <1>10, <1>11, <1>12
  DEF Next, Consume, Idle

\* Every variable always has its type: offsets stay in order, no record is tried
\* more than maxRetries times, the breaker counts within its limits.
THEOREM TypeCorrect == Spec => [](TypeOK /\ Ordered)
<1>1. Init => TypeOK /\ Ordered
  BY TypeInit
<1>2. TypeOK /\ Ordered /\ [Next]_vars => TypeOK' /\ Ordered'
  BY TypeStep
<1> QED BY <1>1, <1>2, PTL DEF Spec

-----------------------------------------------------------------------------
(* What the rows of integration_logs say.                                   *)

\* Between its last call to the outside and the log the consumer knows the
\* outcome.
LogInv ==
    /\ pc = "logSuccess" => tickets[Current] > 0
    /\ pc = "logFailed" => Current \in dlq \cup dlqLost
    /\ LogsTruthful

\* The record being processed is another one only after processRecord returns,
\* and the history outside the service only grows.
LEMMA Kept ==
    ASSUME TypeOK, Ordered, [Next]_vars
    PROVE  /\ \A i \in 1..Len(topic) : topic'[i] = topic[i]
           /\ \A e \in Event : tickets[e] > 0 => tickets'[e] > 0
           /\ dlq \subseteq dlq' /\ dlqLost \subseteq dlqLost'
<1>1. CASE \E e \in Event : Publish(e)
  <2>1. PICK e \in Event : Publish(e)
    BY <1>1
  <2>2. topic' = Append(topic, e)
    BY <2>1 DEF Publish
  <2>3. \A i \in 1..Len(topic) : topic'[i] = topic[i]
    BY <2>2, AppendProperties DEF TypeOK
  <2> QED BY <2>1, <2>3 DEF Publish, outside
<1>2. CASE ~\E e \in Event : Publish(e)
  <2>1. topic' = topic
    BY <1>2, Zenon DEF Next, Consume, Idle, Poll, Begin, Refused, Forward, ForwardFails,
       SendToDLQ, InsertLog, StopPolling, Leave, Restart, TimeoutElapses, IntervalElapses,
       AutoCommit, Signal, MainReturns, Kill, vars, kafka
  <2>2. \/ UNCHANGED tickets
        \/ tickets' = [tickets EXCEPT ![Current] = @ + 1]
    BY <1>2, Zenon DEF Next, Consume, Idle, Poll, Begin, Refused, Forward, ForwardFails,
       SendToDLQ, InsertLog, StopPolling, Leave, Restart, TimeoutElapses, IntervalElapses,
       AutoCommit, Signal, MainReturns, Kill, vars, outside
  <2>3. UNCHANGED dlq \/ dlq' = dlq \cup {Current}
    BY <1>2, Zenon DEF Next, Consume, Idle, Poll, Begin, Refused, Forward, ForwardFails,
       SendToDLQ, InsertLog, StopPolling, Leave, Restart, TimeoutElapses, IntervalElapses,
       AutoCommit, Signal, MainReturns, Kill, vars, outside
  <2>4. UNCHANGED dlqLost \/ dlqLost' = dlqLost \cup {Current}
    BY <1>2, Zenon DEF Next, Consume, Idle, Poll, Begin, Refused, Forward, ForwardFails,
       SendToDLQ, InsertLog, StopPolling, Leave, Restart, TimeoutElapses, IntervalElapses,
       AutoCommit, Signal, MainReturns, Kill, vars, outside
  <2>5. \A e \in Event : tickets[e] > 0 => tickets'[e] > 0
    BY <2>2 DEF TypeOK
  <2> QED BY <2>1, <2>3, <2>4, <2>5
<1> QED BY <1>1, <1>2

\* A step that stays at the log call stays at its record.
LEMMA SameRecord ==
    ASSUME TypeOK, Ordered, [Next]_vars, done' = done, done + 1 \in 1..Len(topic)
    PROVE  Current' = Current
  BY Kept DEF Current

\* No step but InsertLog adds a row.
LEMMA LogStep == TypeOK /\ Ordered /\ LogInv /\ [Next]_vars => LogInv'
<1> SUFFICES ASSUME TypeOK, Ordered, LogInv, [Next]_vars PROVE LogInv'
  OBVIOUS
<1>1. CASE Forward
  <2>1. Current \in Event /\ done + 1 \in 1..Len(topic)
    BY <1>1, CurrentEvent DEF Forward
  <2>2. Current' = Current
    BY <1>1, <2>1, SameRecord DEF Forward, offsets
  <2>3. tickets'[Current] > 0
    BY <1>1, <2>1 DEF Forward, TypeOK
  <2>4. LogsTruthful'
    BY <1>1, Kept DEF Forward, LogsTruthful, LogInv
  <2> QED BY <1>1, <2>2, <2>3, <2>4 DEF Forward, LogInv
<1>2. CASE SendToDLQ
  <2>1. Current \in dlq' \cup dlqLost' /\ logs' = logs /\ pc = "dlq"
        /\ (FinishRecord \/ (pc' = "logFailed" /\ UNCHANGED offsets))
    BY <1>2 DEF SendToDLQ
  <2>2. Current \in Event /\ done + 1 \in 1..Len(topic)
    BY <2>1, CurrentEvent
  <2>3. LogsTruthful'
    BY <2>1, Kept DEF LogsTruthful, LogInv
  <2>4. CASE FinishRecord
    BY <2>3, <2>4 DEF FinishRecord, LogInv
  <2>5. CASE pc' = "logFailed" /\ UNCHANGED offsets
    <3>1. Current' = Current
      BY <2>2, <2>5, SameRecord DEF offsets
    <3> QED BY <2>1, <2>3, <2>5, <3>1 DEF LogInv
  <2> QED BY <2>1, <2>4, <2>5
<1>3. CASE InsertLog
  <2>1. Current \in Event
    BY <1>3, CurrentEvent DEF InsertLog
  <2>2. tickets' = tickets /\ dlq' = dlq /\ dlqLost' = dlqLost
    BY <1>3 DEF InsertLog
  <2>3. pc' \in {"record", "leave", "poll"}
    BY <1>3 DEF InsertLog, FinishRecord
  <2>4. LogsTruthful'
    <3>1. CASE UNCHANGED logs
      BY <2>2, <3>1 DEF LogsTruthful, LogInv
    <3>2. CASE logs' = [logs EXCEPT ![Current] = @ \cup {LoggedStatus}]
      BY <1>3, <2>1, <2>2, <3>2 DEF InsertLog, LoggedStatus, LogsTruthful, LogInv, TypeOK
    <3> QED BY <1>3, <3>1, <3>2 DEF InsertLog
  <2> QED BY <2>3, <2>4 DEF LogInv
<1>4. CASE Begin
  <2>1. pc' \notin {"logSuccess", "logFailed"}
    BY <1>4 DEF Begin, FinishRecord
  <2> QED BY <1>4, <2>1 DEF Begin, outside, LogInv, LogsTruthful
<1>5. CASE ForwardFails
  <2>1. pc' \notin {"logSuccess", "logFailed"}
    BY <1>5 DEF ForwardFails
  <2>2. logs' = logs /\ dlq' = dlq /\ dlqLost' = dlqLost
    BY <1>5 DEF ForwardFails
  <2> QED BY <2>1, <2>2, Kept DEF LogInv, LogsTruthful
<1>6. CASE Poll \/ Refused \/ StopPolling \/ Leave \/ Restart \/ MainReturns \/ Kill
  <2>1. pc' \notin {"logSuccess", "logFailed"}
    BY <1>6 DEF Poll, Refused, StopPolling, Leave, Restart, MainReturns, Kill
  <2>2. UNCHANGED outside
    BY <1>6, Zenon DEF Poll, Refused, StopPolling, Leave, Restart, MainReturns, Kill
  <2> QED BY <2>1, <2>2 DEF outside, LogInv, LogsTruthful
<1>7. CASE (\E e \in Event : Publish(e)) \/ TimeoutElapses \/ IntervalElapses \/ AutoCommit
           \/ Signal \/ UNCHANGED vars
  <2>1. UNCHANGED outside /\ pc' = pc /\ done' = done
    BY <1>7, Zenon DEF Publish, TimeoutElapses, IntervalElapses, AutoCommit, Signal, vars,
       offsets, outside
  <2>2. pc \in {"logSuccess", "logFailed"} => Current' = Current
    BY <2>1, CurrentEvent, SameRecord
  <2> QED BY <2>1, <2>2 DEF outside, LogInv, LogsTruthful
<1> QED BY <1>1, <1>2, <1>3, <1>4, <1>5, <1>6, <1>7 DEF Next, Consume, Idle

\* integration_logs tells the truth, whatever fails: a success row has its
\* ticket, a failed row its message in the dead letter topic or a write to that
\* topic that failed.
THEOREM LogsHonest == Spec => []LogsTruthful
<1>1. Init => TypeOK /\ Ordered /\ LogInv
  BY TypeInit DEF Init, LogInv, LogsTruthful
<1>2. TypeOK /\ Ordered /\ LogInv /\ [Next]_vars => TypeOK' /\ Ordered' /\ LogInv'
  BY TypeStep, LogStep
<1>3. LogInv => LogsTruthful
  BY DEF LogInv
<1> QED BY <1>1, <1>2, <1>3, PTL DEF Spec

-----------------------------------------------------------------------------
(* What is committed.                                                       *)

\* While ctx is not cancelled every record that is done is settled; a record
\* that is not is behind neither head nor, later, the committed offset.
LossInv ==
    /\ \A i \in 1..head : Settled(topic[i])
    /\ ~stopping => \A i \in 1..done : Settled(topic[i])
    /\ ~stopping /\ pc = "logFailed" => Current \in dlq

\* What is settled stays settled.
LEMMA SettledStays ==
    ASSUME TypeOK, Ordered, [Next]_vars, NEW i \in 1..Len(topic), Settled(topic[i])
    PROVE  Settled(topic[i])' /\ topic'[i] = topic[i]
<1>1. topic[i] \in Event
  BY ElementOfSeq DEF TypeOK
<1>2. topic'[i] = topic[i]
  BY Kept
<1>3. tickets'[topic[i]] > 0 \/ topic[i] \in dlq'
  BY <1>1, Kept DEF Settled
<1> QED BY <1>2, <1>3 DEF Settled

\* processRecord returns with the record settled, or with ctx cancelled.
LEMMA FinishLoss ==
    ASSUME TypeOK, Ordered, LossInv, [Next]_vars, FinishRecord, done < fetched,
           stopping' = stopping,
           ~stopping => Settled(Current) \/ (Current \in dlq')
    PROVE  LossInv'
<1> USE DEF FinishRecord
<1>1. Len(topic) \in Nat /\ done \in Nat /\ head \in Nat /\ fetched \in Nat
  BY LenProperties DEF TypeOK
<1>2. done' = done + 1 /\ pc' # "logFailed"
  OBVIOUS
<1>3. \A i \in 1..head : Settled(topic[i])'
  <2> SUFFICES ASSUME NEW i \in 1..head PROVE Settled(topic[i])'
    OBVIOUS
  <2>1. i \in 1..Len(topic)
    BY <1>1 DEF Ordered
  <2> QED BY <2>1, SettledStays DEF LossInv
<1>4. ASSUME ~stopping, NEW i \in 1..(done + 1) PROVE Settled(topic[i])'
  <2>1. i \in 1..Len(topic)
    BY <1>1 DEF Ordered
  <2>2. CASE i = done + 1 /\ topic[i] \in dlq'
    <3>1. topic'[i] = topic[i]
      BY <2>1, Kept
    <3> QED BY <2>2, <3>1 DEF Settled
  <2>3. CASE i = done + 1 /\ Settled(topic[i])
    BY <2>1, <2>3, SettledStays
  <2>4. CASE i \in 1..done
    <3>1. Settled(topic[i])
      BY <1>4, <2>4 DEF LossInv
    <3> QED BY <2>1, <3>1, SettledStays
  <2> QED BY <1>1, <1>4, <2>2, <2>3, <2>4 DEF Current
<1>5. head' = head \/ (head' = done' /\ ~stopping)
  BY <1>1
<1>6. \A i \in 1..head' : Settled(topic[i])'
  BY <1>2, <1>3, <1>4, <1>5
<1>7. ~stopping' => \A i \in 1..done' : Settled(topic[i])'
  BY <1>2, <1>4
<1> QED BY <1>2, <1>6, <1>7 DEF LossInv

LEMMA LossStep ==
    ASSUME "dlq" \notin Flaky
    PROVE  TypeOK /\ Ordered /\ LogInv /\ LossInv /\ [Next]_vars => LossInv'
<1> SUFFICES ASSUME TypeOK, Ordered, LogInv, LossInv, [Next]_vars PROVE LossInv'
  OBVIOUS
<1>0. Len(topic) \in Nat /\ done \in Nat /\ head \in Nat /\ fetched \in Nat /\ committed \in Nat
  BY LenProperties DEF TypeOK
\* The steps that leave the offsets and the call alone, or only pass to a call
\* that is not the failed row.
<1>a. ASSUME UNCHANGED <<head, done>>, stopping' = stopping \/ stopping',
             ~stopping' /\ pc' = "logFailed" => Current \in dlq' /\ Current' = Current
      PROVE  LossInv'
  <2>1. \A i \in 1..head : Settled(topic[i])'
    <3> SUFFICES ASSUME NEW i \in 1..head PROVE Settled(topic[i])'
      OBVIOUS
    <3>1. i \in 1..Len(topic)
      BY <1>0 DEF Ordered
    <3> QED BY <3>1, SettledStays DEF LossInv
  <2>2. ASSUME ~stopping', NEW i \in 1..done PROVE Settled(topic[i])'
    <3>1. i \in 1..Len(topic) /\ ~stopping
      BY <1>0, <1>a, <2>2 DEF Ordered
    <3> QED BY <3>1, SettledStays DEF LossInv
  <2> QED BY <1>a, <2>1, <2>2 DEF LossInv
<1>1. CASE Begin
  <2>1. CASE FinishRecord /\ Current \notin Malformed /\ HasSuccess(Current)
    <3>1. Current \in Event /\ pc = "record"
      BY <1>1, CurrentEvent DEF Begin
    <3>2. Settled(Current)
      BY <2>1, <3>1 DEF HasSuccess, LogInv, LogsTruthful, Settled
    <3>3. stopping' = stopping /\ done < fetched
      BY <1>1, <3>1 DEF Begin, Ordered
    <3> QED BY <2>1, <3>2, <3>3, FinishLoss
  <2>2. CASE pc' # "logFailed" /\ UNCHANGED offsets
    BY <1>1, <1>a, <2>2 DEF Begin, offsets
  <2> QED BY <1>1, <2>1, <2>2 DEF Begin
<1>2. CASE SendToDLQ
  <2>1. stopping' = stopping /\ pc = "dlq" /\ done < fetched
    BY <1>2 DEF SendToDLQ, Ordered
  <2>2. Current \in Event /\ done + 1 \in 1..Len(topic)
    BY <2>1, CurrentEvent
  <2>3. ~stopping => Current \in dlq'
    BY <1>2 DEF SendToDLQ
  <2>4. CASE FinishRecord
    BY <2>1, <2>3, <2>4, FinishLoss
  <2>5. CASE pc' = "logFailed" /\ UNCHANGED offsets
    <3>1. Current' = Current
      BY <2>2, <2>5, SameRecord DEF offsets
    <3> QED BY <1>a, <2>1, <2>3, <2>5, <3>1 DEF offsets
  <2> QED BY <1>2, <2>4, <2>5 DEF SendToDLQ
<1>3. CASE InsertLog
  <2>1. Current \in Event /\ pc \in {"logSuccess", "logFailed"} /\ done < fetched
    BY <1>3, CurrentEvent DEF InsertLog, Ordered
  <2>2. ~stopping => Settled(Current)
    BY <2>1 DEF LogInv, LossInv, Settled
  <2>3. FinishRecord /\ stopping' = stopping
    BY <1>3 DEF InsertLog
  <2> QED BY <2>1, <2>2, <2>3, FinishLoss
<1>4. CASE Restart
  <2>1. head' = committed /\ done' = committed /\ pc' = "poll" /\ topic' = topic
    BY <1>4 DEF Restart, kafka
  <2>2. \A i \in 1..committed : Settled(topic[i])'
    <3> SUFFICES ASSUME NEW i \in 1..committed PROVE Settled(topic[i])'
      OBVIOUS
    <3>1. i \in 1..Len(topic) /\ i \in 1..head
      BY <1>0 DEF Ordered
    <3> QED BY <3>1, SettledStays DEF LossInv
  <2> QED BY <2>1, <2>2 DEF LossInv
<1>5. CASE Poll \/ Refused \/ Forward \/ ForwardFails \/ StopPolling \/ Leave \/ MainReturns \/ Kill
  <2>1. UNCHANGED <<head, done>> /\ stopping' = stopping
    BY <1>5, Zenon DEF Poll, Refused, Forward, ForwardFails, StopPolling, Leave, MainReturns, Kill, offsets
  <2>2. pc' # "logFailed"
    BY <1>5 DEF Poll, Refused, Forward, ForwardFails, StopPolling, Leave, MainReturns, Kill
  <2> QED BY <1>a, <2>1, <2>2
<1>6. CASE (\E e \in Event : Publish(e)) \/ TimeoutElapses \/ IntervalElapses \/ AutoCommit
           \/ Signal \/ UNCHANGED vars
  <2>1. UNCHANGED <<head, done, pc, dlq>>
    BY <1>6, Zenon DEF Publish, TimeoutElapses, IntervalElapses, AutoCommit, Signal, vars,
       offsets, outside
  <2>2. stopping' = stopping \/ stopping'
    BY <1>6, Zenon DEF Publish, TimeoutElapses, IntervalElapses, AutoCommit, Signal, vars
  <2>3. pc = "logFailed" => Current' = Current
    BY <2>1, CurrentEvent, SameRecord
  <2>4. ~stopping' /\ pc' = "logFailed" => Current \in dlq' /\ Current' = Current
    BY <2>1, <2>2, <2>3 DEF LossInv
  <2> QED BY <1>a, <2>1, <2>2, <2>4
<1> QED BY <1>1, <1>2, <1>3, <1>4, <1>5, <1>6 DEF Next, Consume, Idle

\* While the dead letter topic can be written no event is lost: behind the
\* committed offset every one has a ticket or is in the dead letter topic.
THEOREM NothingLost ==
    ASSUME "dlq" \notin Flaky
    PROVE  Spec => []NothingDropped
<1>1. Init => TypeOK /\ Ordered /\ LogInv /\ LossInv
  BY TypeInit DEF Init, LogInv, LogsTruthful, LossInv
<1>2. TypeOK /\ Ordered /\ LogInv /\ LossInv /\ [Next]_vars
      => TypeOK' /\ Ordered' /\ LogInv' /\ LossInv'
  BY TypeStep, LogStep, LossStep
<1>3. TypeOK /\ Ordered /\ LossInv => NothingDropped
  BY DEF TypeOK, Ordered, LossInv, NothingDropped
<1> QED BY <1>1, <1>2, <1>3, PTL DEF Spec

-----------------------------------------------------------------------------
(* No ticket after a success row.                                           *)

\* While the database answers, the record that is forwarded has no success row.
CallInv == pc = "call" => "success" \notin logs[Current]

LEMMA CallStep ==
    ASSUME "db" \notin Flaky
    PROVE  TypeOK /\ Ordered /\ CallInv /\ [Next]_vars => CallInv'
<1> SUFFICES ASSUME TypeOK, Ordered, CallInv, [Next]_vars PROVE CallInv'
  OBVIOUS
<1>1. ASSUME pc' # "call" PROVE CallInv'
  BY <1>1 DEF CallInv
<1>2. CASE Begin /\ pc' = "call"
  <2>1. UNCHANGED offsets /\ ~HasSuccess(Current) /\ pc = "record"
    BY <1>2 DEF Begin, FinishRecord
  <2>2. Current' = Current
    BY <2>1, CurrentEvent, SameRecord DEF offsets
  <2> QED BY <1>2, <2>1, <2>2 DEF Begin, CallInv, HasSuccess, outside
<1>3. CASE ForwardFails
  <2>1. UNCHANGED <<done, logs>> /\ pc = "call"
    BY <1>3 DEF ForwardFails, offsets
  <2>2. Current' = Current
    BY <2>1, CurrentEvent, SameRecord
  <2> QED BY <2>1, <2>2 DEF CallInv
<1>4. CASE (\E e \in Event : Publish(e)) \/ TimeoutElapses \/ IntervalElapses \/ AutoCommit
           \/ Signal \/ UNCHANGED vars
  <2>1. UNCHANGED <<logs, pc, done>>
    BY <1>4, Zenon DEF Publish, TimeoutElapses, IntervalElapses, AutoCommit, Signal, vars,
       offsets, outside
  <2>2. pc = "call" => Current' = Current
    BY <2>1, CurrentEvent, SameRecord
  <2> QED BY <2>1, <2>2 DEF CallInv
<1>5. CASE Poll \/ Refused \/ Forward \/ SendToDLQ \/ InsertLog \/ StopPolling \/ Leave
           \/ Restart \/ MainReturns \/ Kill
  <2>1. pc' # "call"
    BY <1>5 DEF Poll, Refused, Forward, SendToDLQ, InsertLog, FinishRecord, StopPolling, Leave,
       Restart, MainReturns, Kill
  <2> QED BY <2>1, <1>1
<1> QED BY <1>1, <1>2, <1>3, <1>4, <1>5 DEF Next, Consume, Idle

\* Once an event has a success row no delivery of it opens another ticket, as
\* long as the idempotency check gets its answer from the database.
THEOREM NoTicketAfterSuccess ==
    ASSUME "db" \notin Flaky
    PROVE  Spec => LoggedOnce
<1> DEFINE NoNewTicket == \A e \in Event : "success" \in logs[e] => tickets'[e] = tickets[e]
<1>1. Init => TypeOK /\ Ordered /\ CallInv
  BY TypeInit DEF Init, CallInv
<1>2. TypeOK /\ Ordered /\ CallInv /\ [Next]_vars => TypeOK' /\ Ordered' /\ CallInv'
  BY TypeStep, CallStep
<1>3. TypeOK /\ Ordered /\ CallInv /\ [Next]_vars => NoNewTicket
  <2> SUFFICES ASSUME TypeOK, Ordered, CallInv, [Next]_vars PROVE NoNewTicket
    OBVIOUS
  <2>1. CASE Forward \/ ForwardFails
    <3>1. pc = "call" /\ (UNCHANGED tickets \/ tickets' = [tickets EXCEPT ![Current] = @ + 1])
      BY <2>1 DEF Forward, ForwardFails
    <3>2. \A e \in Event : "success" \in logs[e] => e # Current
      BY <3>1 DEF CallInv
    <3> QED BY <3>1, <3>2 DEF TypeOK
  <2>2. CASE ~Forward /\ ~ForwardFails
    <3>1. UNCHANGED tickets
      BY <2>2, Zenon DEF Next, Consume, Idle, Poll, Begin, Refused, SendToDLQ, InsertLog,
         StopPolling, Leave, Restart, Publish, TimeoutElapses, IntervalElapses, AutoCommit,
         Signal, MainReturns, Kill, vars, outside
    <3> QED BY <3>1
  <2> QED BY <2>1, <2>2
<1>4. TypeOK /\ Ordered /\ CallInv /\ [Next]_vars => [NoNewTicket]_vars
  BY <1>3
<1>5. LoggedOnce <=> [][NoNewTicket]_vars
  BY DEF LoggedOnce
<1> QED BY <1>1, <1>2, <1>4, <1>5, PTL DEF Spec

-----------------------------------------------------------------------------
(* What is dropped is known.                                                *)

\* A record that is done is malformed, settled or logged as failed.
Known(e) == e \notin Malformed => Settled(e) \/ "failed" \in logs[e]
KnownInv == \A i \in 1..done : Known(topic[i])

\* Rows of the log stay, and so does what they say of the topic's records.
LEMMA KnownStays ==
    ASSUME TypeOK, Ordered, [Next]_vars, NEW i \in 1..Len(topic), Known(topic[i])
    PROVE  Known(topic[i])'
<1>1. topic[i] \in Event /\ topic'[i] = topic[i]
  BY ElementOfSeq, Kept DEF TypeOK
<1>2. \A e \in Event : "failed" \in logs[e] => "failed" \in logs'[e]
  <2>1. CASE InsertLog
    <3>1. Current \in Event
      BY <2>1, CurrentEvent DEF InsertLog
    <3> QED BY <2>1, <3>1 DEF InsertLog, TypeOK
  <2>2. CASE ~InsertLog
    <3>1. UNCHANGED logs
      BY <2>2, Zenon DEF Next, Consume, Idle, Poll, Begin, Refused, Forward, ForwardFails,
         SendToDLQ, StopPolling, Leave, Restart, Publish, TimeoutElapses, IntervalElapses,
         AutoCommit, Signal, MainReturns, Kill, vars, outside
    <3> QED BY <3>1
  <2> QED BY <2>1, <2>2
<1>3. CASE Settled(topic[i])
  BY <1>3, SettledStays DEF Known
<1>4. CASE ~Settled(topic[i])
  BY <1>1, <1>2, <1>4 DEF Known
<1> QED BY <1>3, <1>4

\* processRecord returns only from a record of which that is true.
LEMMA FinishKnown ==
    ASSUME "db" \notin Flaky, TypeOK, Ordered, LogInv, [Next]_vars, done' # done,
           pc # "down", NEW i \in Nat, i = done + 1
    PROVE  done' = i /\ i \in 1..Len(topic) /\ Known(topic[i])'
<1>1. CASE Begin \/ SendToDLQ \/ InsertLog
  <2>1. /\ pc \in {"record", "call", "dlq", "logSuccess", "logFailed"}
        /\ Current \in Event /\ i \in 1..Len(topic) /\ topic[i] = Current
    BY <1>1, CurrentEvent DEF Begin, SendToDLQ, InsertLog, Current
  <2>2. done' = i
    BY <1>1, Zenon DEF Begin, SendToDLQ, InsertLog, FinishRecord, offsets
  <2>3. topic'[i] = Current
    BY <2>1, Kept
  <2>4. CASE Begin
    <3>1. "success" \in logs[Current]
      BY <1>1, <2>4 DEF Begin, HasSuccess, offsets
    <3>2. Known(Current)
      BY <2>1, <3>1 DEF LogInv, LogsTruthful, Known, Settled
    <3> QED BY <2>1, <2>2, <3>2, KnownStays
  <2>5. CASE SendToDLQ
    <3>1. Current \in Malformed
      BY <2>5 DEF SendToDLQ, offsets
    <3> QED BY <2>1, <2>2, <2>3, <3>1 DEF Known
  <2>6. CASE InsertLog
    <3>1. CASE pc = "logSuccess"
      <4>1. Known(Current)
        BY <2>1, <3>1 DEF LogInv, Known, Settled
      <4> QED BY <2>1, <2>2, <4>1, KnownStays
    <3>2. CASE pc = "logFailed"
      <4>1. "failed" \in logs'[Current]
        BY <2>1, <2>6, <3>2 DEF InsertLog, LoggedStatus, TypeOK
      <4> QED BY <2>1, <2>2, <2>3, <4>1 DEF Known
    <3> QED BY <2>6, <3>1, <3>2 DEF InsertLog
  <2> QED BY <1>1, <2>4, <2>5, <2>6
<1>2. CASE ~(Begin \/ SendToDLQ \/ InsertLog)
  BY <1>2, Zenon DEF Next, Consume, Idle, Poll, Refused, Forward, ForwardFails, StopPolling,
     Leave, Restart, Publish, TimeoutElapses, IntervalElapses, AutoCommit, Signal,
     MainReturns, Kill, vars, offsets
<1> QED BY <1>1, <1>2

LEMMA KnownStep ==
    ASSUME "db" \notin Flaky
    PROVE  TypeOK /\ Ordered /\ LogInv /\ KnownInv /\ [Next]_vars => KnownInv'
<1> SUFFICES ASSUME TypeOK, Ordered, LogInv, KnownInv, [Next]_vars PROVE KnownInv'
  OBVIOUS
<1>1. Len(topic) \in Nat /\ done \in Nat /\ committed \in Nat /\ head \in Nat /\ fetched \in Nat
  BY LenProperties DEF TypeOK
<1>2. \A i \in 1..done : Known(topic[i])'
  <2> SUFFICES ASSUME NEW i \in 1..done PROVE Known(topic[i])'
    OBVIOUS
  <2>1. i \in 1..Len(topic)
    BY <1>1 DEF Ordered
  <2> QED BY <2>1, KnownStays DEF KnownInv
<1>3. CASE done' = done
  BY <1>2, <1>3 DEF KnownInv
<1>4. CASE done' # done /\ pc # "down"
  <2>1. \A j \in Nat : j = done + 1 => done' = j /\ Known(topic[j])'
    BY <1>4, FinishKnown
  <2> QED BY <1>1, <1>2, <2>1 DEF KnownInv
<1>5. CASE done' # done /\ pc = "down"
  <2>1. done' = committed
    BY <1>5, Zenon DEF Next, Consume, Idle, Poll, Begin, Refused, Forward, ForwardFails,
       SendToDLQ, InsertLog, StopPolling, Leave, Restart, Publish, TimeoutElapses,
       IntervalElapses, AutoCommit, Signal, MainReturns, Kill, vars, offsets
  <2> QED BY <1>1, <1>2, <2>1 DEF KnownInv, Ordered
<1> QED BY <1>3, <1>4, <1>5

\* Even when the dead letter topic fails too, nothing is dropped in silence:
\* behind the committed offset every event of JSON has a ticket, is in the dead
\* letter topic, or has its failed row, as long as the rows can be written.
THEOREM LossesAreKnown ==
    ASSUME "db" \notin Flaky
    PROVE  Spec => []AccountedFor
<1>1. Init => TypeOK /\ Ordered /\ LogInv /\ KnownInv
  BY TypeInit DEF Init, LogInv, LogsTruthful, KnownInv
<1>2. TypeOK /\ Ordered /\ LogInv /\ KnownInv /\ [Next]_vars
      => TypeOK' /\ Ordered' /\ LogInv' /\ KnownInv'
  BY TypeStep, LogStep, KnownStep
<1>3. TypeOK /\ Ordered /\ KnownInv => AccountedFor
  BY DEF TypeOK, Ordered, KnownInv, Known, AccountedFor
<1> QED BY <1>1, <1>2, <1>3, PTL DEF Spec

-----------------------------------------------------------------------------
(* When the breaker opens.                                                  *)

\* What the closed breaker counts did fail, in a row.
CountInv == breaker.state = "closed" => breaker.count <= streak

\* The steps that touch the breaker: a success, a failure, its two timers, and a
\* new process.
LEMMA BreakerSteps ==
    ASSUME [Next]_vars
    PROVE  \/ UNCHANGED <<breaker, streak>>
           \/ Admits /\ breaker' = AfterSuccess /\ streak' = 0
           \/ /\ Admits
              /\ breaker' = AfterFailure \/ (breaker.state = "closed" /\ breaker' = Closed)
              /\ streak' = IF streak = TripAfter THEN streak ELSE streak + 1
           \/ breaker.state = "open" /\ breaker' = HalfOpen
           \/ breaker.state = "closed" /\ breaker' = Closed /\ streak' = streak
           \/ breaker' = Closed /\ streak' = 0
<1>1. CASE Forward
  BY <1>1 DEF Forward
<1>2. CASE ForwardFails
  BY <1>2 DEF ForwardFails
<1>3. CASE TimeoutElapses \/ IntervalElapses \/ Restart
  BY <1>3 DEF TimeoutElapses, IntervalElapses, Restart
<1>4. CASE \/ Poll \/ Begin \/ Refused \/ SendToDLQ \/ InsertLog \/ StopPolling \/ Leave
           \/ (\E e \in Event : Publish(e)) \/ AutoCommit \/ Signal \/ MainReturns \/ Kill
           \/ UNCHANGED vars
  BY <1>4, Zenon DEF Poll, Begin, Refused, SendToDLQ, InsertLog, StopPolling, Leave, Publish,
     AutoCommit, Signal, MainReturns, Kill, vars
<1> QED BY <1>1, <1>2, <1>3, <1>4, Zenon DEF Next, Consume, Idle

\* The breaker opens after TripAfter failures in a row and no fewer, although its
\* interval may clear the count in the middle of them.
THEOREM OpensOnlyOnFailures == Spec => OpensOnFailuresOnly
<1> DEFINE Tripped == breaker.state = "closed" /\ breaker'.state = "open" => streak' = TripAfter
<1> USE CountAssumption
<1>1. Init => TypeOK /\ Ordered /\ CountInv
  BY TypeInit DEF Init, CountInv, Closed
<1>2. TypeOK /\ CountInv /\ [Next]_vars => CountInv' /\ Tripped
  <2> SUFFICES ASSUME TypeOK, CountInv, [Next]_vars PROVE CountInv' /\ Tripped
    OBVIOUS
  <2>1. /\ streak \in 0..TripAfter
        /\ breaker.state \in {"closed", "open", "halfOpen"} /\ breaker.count \in Nat
        /\ breaker = [state |-> breaker.state, count |-> breaker.count]
    BY DEF TypeOK, Breakers
  <2>2. CASE UNCHANGED <<breaker, streak>>
    BY <2>2 DEF CountInv
  <2>3. CASE Admits /\ breaker' = AfterSuccess /\ streak' = 0
    BY <2>1, <2>3 DEF CountInv, Admits, AfterSuccess, Closed
  <2>4. CASE /\ Admits
             /\ breaker' = AfterFailure \/ (breaker.state = "closed" /\ breaker' = Closed)
             /\ streak' = IF streak = TripAfter THEN streak ELSE streak + 1
    BY <2>1, <2>4 DEF CountInv, Admits, AfterFailure, Closed, Open
  <2>5. CASE \/ breaker.state = "open" /\ breaker' = HalfOpen
             \/ breaker.state = "closed" /\ breaker' = Closed /\ streak' = streak
             \/ breaker' = Closed /\ streak' = 0
    BY <2>1, <2>5 DEF CountInv, Closed, HalfOpen
  <2> QED BY <2>2, <2>3, <2>4, <2>5, BreakerSteps
<1>3. TypeOK /\ Ordered /\ CountInv /\ [Next]_vars => TypeOK' /\ Ordered' /\ CountInv'
  BY <1>2, TypeStep
<1>4. TypeOK /\ CountInv /\ [Next]_vars => [Tripped]_vars
  BY <1>2
<1>5. OpensOnFailuresOnly <=> [][Tripped]_vars
  BY DEF OpensOnFailuresOnly
<1> QED BY <1>1, <1>3, <1>4, <1>5, PTL DEF Spec
=============================================================================
