-------------------------- MODULE IntegrationConsumer --------------------------
(***************************************************************************)
(* The integration service: it consumes orders.created from Kafka, opens a *)
(* ServiceNow ticket for every event through a circuit breaker, with       *)
(* retries, sends what it cannot forward to a dead letter topic and logs   *)
(* the outcome in integration_logs.                                        *)
(*                                                                         *)
(*   processRecord, withRetry, Start    integration-service/consumer/consumer.go *)
(*   main (signals, exit)               integration-service/main.go              *)
(*   publishOrderEvent (external log)   server/kafka/producer.ts                 *)
(*                                                                         *)
(* One consumer, one partition.  The service may be killed between any two *)
(* of its calls, and it is not told when main returns.  The Kafka client   *)
(* commits in the background, and only records of polls before the last.   *)
(***************************************************************************)
EXTENDS Integers, Sequences

CONSTANTS
    Event,      \* the order events
    Malformed,  \* those whose value is not JSON
    Flaky,      \* what may fail: "db", "dlq", "reply" (of ServiceNow)
    maxRetries, \* calls of the adapter per delivery
    TripAfter,  \* consecutive failures that open the breaker
    MaxRequests,\* probes of a half-open breaker
    MaxLog,     \* bound on the records of the topic
    MaxStop     \* bound on the kills and signals

ASSUME EventAssumption == Malformed \subseteq Event
ASSUME FlakyAssumption == Flaky \subseteq {"db", "dlq", "reply"}
ASSUME CountAssumption == /\ maxRetries \in Nat \ {0} /\ TripAfter \in Nat \ {0}
                          /\ MaxRequests \in Nat \ {0}
                          /\ MaxLog \in Nat /\ MaxStop \in Nat

VARIABLES
    topic,      \* the records of orders.created
    committed,  \* the offset of the consumer group
    head,       \* records of the polls before the last: may be committed
    fetched,    \* records that polls have returned
    done,       \* records that processRecord has returned from
    pc,         \* the call the consumer makes next
    attempt,    \* calls of the adapter for this record so far
    breaker,    \* the circuit breaker sn
    stopping,   \* ctx is cancelled
    tickets,    \* ServiceNow tickets opened for each event
    logs,       \* the statuses integration_logs has for each event
    dlq,        \* the events in orders.created.dlq
    dlqLost,    \* history: the events of which a write to orders.created.dlq failed
    streak,     \* history: failed calls of the adapter in a row, up to TripAfter
    stops       \* kills and signals so far

kafka == <<topic, committed>>
offsets == <<head, fetched, done>>
outside == <<tickets, logs, dlq, dlqLost>>
vars == <<topic, committed, head, fetched, done, pc, attempt, breaker, stopping,
          tickets, logs, dlq, dlqLost, streak, stops>>

-----------------------------------------------------------------------------
(* The breaker (gobreaker): in the closed state count is the number of      *)
(* consecutive failures, half-open that of consecutive successes.           *)

Breakers == [state : {"closed"}, count : 0..(TripAfter - 1)]
            \cup [state : {"open"}, count : {0}]
            \cup [state : {"halfOpen"}, count : 0..(MaxRequests - 1)]

Closed == [state |-> "closed", count |-> 0]
Open == [state |-> "open", count |-> 0]
HalfOpen == [state |-> "halfOpen", count |-> 0]

\* Execute runs the call.
Admits == \/ breaker.state = "closed"
          \/ breaker.state = "halfOpen" /\ breaker.count < MaxRequests

AfterSuccess == IF breaker.state = "closed" \/ breaker.count + 1 >= MaxRequests
                THEN Closed ELSE [breaker EXCEPT !.count = @ + 1]

\* ReadyToTrip: counts.ConsecutiveFailures >= 5.
\* (Mutant: one failure too early.)
TripsEarly == IF breaker.state = "halfOpen" \/ breaker.count + 2 >= TripAfter
              THEN Open ELSE [breaker EXCEPT !.count = @ + 1]
AfterFailure == IF breaker.state = "halfOpen" \/ breaker.count + 1 >= TripAfter
                THEN Open ELSE [breaker EXCEPT !.count = @ + 1]

-----------------------------------------------------------------------------
Current == topic[done + 1]

\* processRecord returns.  After the last record of a batch the loop looks at
\* ctx, and polls: from that poll on the batch may be committed.
\* (Mutants: the last batch too when ctx is cancelled; an offset that is off by
\* one, the last record of a batch is never committed.)
FinishOneShort ==
    /\ done' = done + 1
    /\ IF done + 1 < fetched THEN pc' = "record" /\ UNCHANGED head
       ELSE IF stopping THEN pc' = "leave" /\ UNCHANGED head
       ELSE pc' = "poll" /\ head' = done
    /\ UNCHANGED fetched
FinishCommits ==
    /\ done' = done + 1
    /\ IF done + 1 < fetched THEN pc' = "record" /\ UNCHANGED head
       ELSE pc' = (IF stopping THEN "leave" ELSE "poll") /\ head' = fetched
    /\ UNCHANGED fetched
FinishRecord ==
    /\ done' = done + 1
    /\ IF done + 1 < fetched THEN pc' = "record" /\ UNCHANGED head
       ELSE IF stopping THEN pc' = "leave" /\ UNCHANGED head
       ELSE pc' = "poll" /\ head' = fetched
    /\ UNCHANGED fetched

Init ==
    /\ topic = <<>>
    /\ committed = 0 /\ head = 0 /\ fetched = 0 /\ done = 0
    /\ pc = "poll"
    /\ attempt = 0
    /\ breaker = Closed
    /\ stopping = FALSE
    /\ tickets = [e \in Event |-> 0]
    /\ logs = [e \in Event |-> {}]
    /\ dlq = {}
    /\ dlqLost = {}
    /\ streak = 0
    /\ stops = 0

\* The broker appends an event; a retry of the producer appends it again.
Publish(e) ==
    /\ Len(topic) < MaxLog
    /\ topic' = Append(topic, e)
    /\ UNCHANGED <<committed, offsets, pc, attempt, breaker, stopping, outside, streak, stops>>

\* PollFetches returns the next records.
\* (Mutant: it hands them to the background commit at once.)
PollCommits ==
    /\ pc = "poll" /\ ~stopping
    /\ fetched' \in (fetched + 1)..Len(topic)
    /\ head' = fetched'
    /\ pc' = "record"
    /\ UNCHANGED <<kafka, done, attempt, breaker, stopping, outside, streak, stops>>
Poll ==
    /\ pc = "poll" /\ ~stopping
    /\ fetched' \in (fetched + 1)..Len(topic)
    /\ pc' = "record"
    /\ UNCHANGED <<kafka, head, done, attempt, breaker, stopping, outside, streak, stops>>

\* isAlreadyProcessed: a success row; FALSE if the query fails.
\* (Mutant: a failed row.)
HasFailure(e) == "failed" \in logs[e]
HasSuccess(e) == "success" \in logs[e]

\* A record without JSON goes to the dead letter queue: its failed row never
\* reaches the table, the payload column is JSONB.  A duplicate is skipped.
Begin ==
    /\ pc = "record"
    /\ attempt' = 0
    /\ \/ Current \in Malformed /\ pc' = "dlq" /\ UNCHANGED offsets
       \/ Current \notin Malformed /\ HasSuccess(Current) /\ FinishRecord
       \/ /\ Current \notin Malformed /\ (HasSuccess(Current) => "db" \in Flaky)
          /\ pc' = "call" /\ UNCHANGED offsets
    /\ UNCHANGED <<kafka, breaker, stopping, outside, streak, stops>>

\* The breaker refuses: ErrOpenState, ErrTooManyRequests; no retry.
Refused ==
    /\ pc = "call" /\ ~Admits
    /\ pc' = "dlq"
    /\ UNCHANGED <<kafka, offsets, attempt, breaker, stopping, outside, streak, stops>>

\* ServiceNow opens a ticket and answers.
Forward ==
    /\ pc = "call" /\ Admits
    /\ tickets' = [tickets EXCEPT ![Current] = @ + 1]
    /\ attempt' = attempt + 1
    /\ breaker' = AfterSuccess
    /\ streak' = 0
    /\ pc' = "logSuccess"
    /\ UNCHANGED <<kafka, offsets, stopping, logs, dlq, dlqLost, stops>>

\* attempt < maxAttempts: another call after the backoff.
\* (Mutant: one attempt too many.)
TriesLeftMore == attempt < maxRetries
TriesLeft == attempt + 1 < maxRetries

\* The call fails; if only the answer was lost, the ticket exists.  If the
\* interval of the closed breaker ends during the call, it is not counted.
ForwardFails ==
    /\ pc = "call" /\ Admits
    /\ \/ UNCHANGED tickets
       \/ "reply" \in Flaky /\ tickets' = [tickets EXCEPT ![Current] = @ + 1]
    /\ attempt' = attempt + 1
    /\ \/ breaker' = AfterFailure
       \/ breaker.state = "closed" /\ breaker' = Closed
    /\ streak' = IF streak = TripAfter THEN streak ELSE streak + 1
    /\ pc' = IF TriesLeft THEN "call" ELSE "dlq"
    /\ UNCHANGED <<kafka, offsets, stopping, logs, dlq, dlqLost, stops>>

\* sendToDLQ: the broker takes the event, or the write fails, because ctx is
\* cancelled or the topic is down; the error is logged and forgotten.
\* (Mutant: the write is not waited for, it may fail after the log row.)
SendNotAwaited ==
    /\ pc = "dlq"
    /\ dlq' = dlq \cup {Current} \/ UNCHANGED dlq
    /\ IF Current \in Malformed THEN FinishRecord
                               ELSE pc' = "logFailed" /\ UNCHANGED offsets
    /\ UNCHANGED <<kafka, attempt, breaker, stopping, tickets, logs, dlqLost, streak, stops>>
SendToDLQ ==
    /\ pc = "dlq"
    /\ \/ dlq' = dlq \cup {Current} /\ UNCHANGED dlqLost
       \/ /\ stopping \/ "dlq" \in Flaky
          /\ dlqLost' = dlqLost \cup {Current} /\ UNCHANGED dlq
    /\ IF Current \in Malformed THEN FinishRecord
                               ELSE pc' = "logFailed" /\ UNCHANGED offsets
    /\ UNCHANGED <<kafka, attempt, breaker, stopping, tickets, logs, streak, stops>>

LoggedStatus == IF pc = "logSuccess" THEN "success" ELSE "failed"

\* insertLog, the last call of processRecord.
InsertLog ==
    /\ pc \in {"logSuccess", "logFailed"}
    /\ \/ logs' = [logs EXCEPT ![Current] = @ \cup {LoggedStatus}]
       \/ "db" \in Flaky /\ UNCHANGED logs
    /\ FinishRecord
    /\ UNCHANGED <<kafka, attempt, breaker, stopping, tickets, dlq, dlqLost, streak, stops>>

-----------------------------------------------------------------------------
(* Time, the background commit, the end of the process.                     *)

\* Timeout: the open breaker lets probes through.
TimeoutElapses ==
    /\ breaker.state = "open"
    /\ breaker' = HalfOpen
    /\ streak' = 0
    /\ UNCHANGED <<kafka, offsets, pc, attempt, stopping, outside, stops>>

\* Interval: the closed breaker forgets the failures it has counted.
IntervalElapses ==
    /\ breaker.state = "closed" /\ breaker.count > 0
    /\ breaker' = Closed
    /\ UNCHANGED <<kafka, offsets, pc, attempt, stopping, outside, streak, stops>>

AutoCommit ==
    /\ pc # "down" /\ committed < head
    /\ committed' = head
    /\ UNCHANGED <<topic, offsets, pc, attempt, breaker, stopping, outside, streak, stops>>

\* SIGTERM or SIGINT: main cancels ctx.
Signal ==
    /\ pc # "down" /\ ~stopping /\ stops < MaxStop
    /\ stopping' = TRUE
    /\ stops' = stops + 1
    /\ UNCHANGED <<kafka, offsets, pc, attempt, breaker, outside, streak>>

\* PollFetches returns because ctx is cancelled; what it may have fetched is
\* not processed.
StopPolling ==
    /\ pc = "poll" /\ stopping
    /\ pc' = "leave"
    /\ UNCHANGED <<kafka, offsets, attempt, breaker, stopping, outside, streak, stops>>

\* Start returns: Close commits and leaves the group.
Leave ==
    /\ pc = "leave"
    /\ committed' = head
    /\ pc' = "down"
    /\ UNCHANGED <<topic, offsets, attempt, breaker, stopping, outside, streak, stops>>

\* main returns after the signal, wherever the consumer is.
MainReturns ==
    /\ pc # "down" /\ stopping
    /\ pc' = "down"
    /\ UNCHANGED <<kafka, offsets, attempt, breaker, stopping, outside, streak, stops>>

Kill ==
    /\ pc # "down" /\ stops < MaxStop
    /\ pc' = "down"
    /\ stops' = stops + 1
    /\ UNCHANGED <<kafka, offsets, attempt, breaker, stopping, outside, streak>>

\* A new process starts at the committed offset, with a new breaker.
Restart ==
    /\ pc = "down"
    /\ pc' = "poll"
    /\ head' = committed /\ fetched' = committed /\ done' = committed
    /\ attempt' = 0
    /\ breaker' = Closed
    /\ streak' = 0
    /\ stopping' = FALSE
    /\ UNCHANGED <<kafka, outside, stops>>

-----------------------------------------------------------------------------
\* What the consumer does next; it runs without a wait that has no end.
Consume == \/ Poll \/ Begin \/ Refused \/ Forward \/ ForwardFails \/ SendToDLQ
           \/ InsertLog \/ StopPolling \/ Leave \/ Restart

\* Nothing to do: PollFetches waits for events.
Idle == pc = "poll" /\ fetched = Len(topic) /\ UNCHANGED vars

Next == \/ Consume
        \/ \E e \in Event : Publish(e)
        \/ TimeoutElapses \/ IntervalElapses \/ AutoCommit
        \/ Signal \/ MainReturns \/ Kill
        \/ Idle

Spec == Init /\ [][Next]_vars

\* The consumer loop runs, its calls return, the Kafka client commits.
FairSpec == Spec /\ WF_vars(Consume) /\ WF_vars(AutoCommit)

-----------------------------------------------------------------------------
(* Properties.                                                              *)

TypeOK ==
    /\ topic \in Seq(Event)
    /\ committed \in Nat /\ head \in Nat /\ fetched \in Nat /\ done \in Nat
    /\ pc \in {"poll", "record", "call", "dlq", "logSuccess", "logFailed", "leave", "down"}
    /\ attempt \in 0..maxRetries
    /\ breaker \in Breakers
    /\ stopping \in BOOLEAN
    /\ tickets \in [Event -> Nat]
    /\ logs \in [Event -> SUBSET {"success", "failed"}]
    /\ dlq \in SUBSET Event
    /\ dlqLost \in SUBSET Event
    /\ streak \in 0..TripAfter
    /\ stops \in 0..MaxStop

\* No event is lost while the dead letter topic can be written: behind the
\* committed offset every event has a ticket or is in the dead letter topic,
\* whatever ServiceNow, the database, signals and kills do.
Settled(e) == tickets[e] > 0 \/ e \in dlq
NothingDropped == \A i \in 1..committed : Settled(topic[i])

\* When the dead letter topic fails too, what is lost is at least known: behind
\* the committed offset an event of JSON has a ticket, is in the dead letter
\* topic, or is logged as failed.
AccountedFor ==
    \A i \in 1..committed :
        topic[i] \notin Malformed => Settled(topic[i]) \/ "failed" \in logs[topic[i]]

\* integration_logs never claims a ticket that was not opened, and never stands
\* alone for a failure: an event with a failed row is in the dead letter topic,
\* or a write of it to that topic failed (topic down, ctx cancelled by a signal).
LogsTruthful ==
    \A e \in Event : /\ "success" \in logs[e] => tickets[e] > 0
                     /\ "failed" \in logs[e] => e \in dlq \cup dlqLost

\* Once integration_logs has a success row for an event no delivery of it opens
\* another ticket: not a duplicate in the topic, not a redelivery after a kill,
\* not a record that a new process finds behind the committed offset.
LoggedOnce ==
    [][\A e \in Event : "success" \in logs[e] => tickets'[e] = tickets[e]]_vars

\* "Idempotency check - skip duplicate events via integration_logs table"
\* (ROADMAP.md:184): however often an event is delivered, one ticket.
OneTicket == \A e \in Event : tickets[e] <= 1

\* "opens after 5 consecutive failures" (ROADMAP.md:183).
OpensAfterFailures == streak = TripAfter => breaker.state = "open"

\* The closed breaker opens after so many failures in a row and no fewer.
OpensOnFailuresOnly ==
    [][breaker.state = "closed" /\ breaker'.state = "open" => streak' = TripAfter]_vars

\* Every event of the topic is eventually dealt with for good.
AllCommitted == \A i \in 1..MaxLog : Len(topic) >= i ~> committed >= i
=============================================================================
