--------------------------- MODULE KafkaProducer ---------------------------
(***************************************************************************)
(* The Kafka producer as transport.  SendAsync leaves the message with the *)
(* client and invokes the attempt callback; the client's poller passes the *)
(* broker's reports on over the unbuffered deliveryChan to the goroutine   *)
(* of deliveryReportHandler, which invokes the callback of the outcome.    *)
(*                                                                         *)
(* Callbacks are subscribed by message ID.  events[i] is what a subscriber *)
(* of message i's ID is told of it.                                        *)
(***************************************************************************)
EXTENDS Naturals, Sequences

CONSTANT MaxErrors  \* bound: refusals and failed deliveries

VARIABLES
    handed, events, arrived, \* see Transport
    attempts, \* messages whose SendAsync has still to invoke the callback
    queue,    \* what the client owes a report for, with the broker's answer
    poller,   \* what the client's poller is doing
    report,   \* the report in the handler's hands
    worker,   \* how far the goroutine of deliveryReportHandler is
    stop,     \* how far Stop has come
    panicked, \* a goroutine panicked, which ends the process
    errors    \* counts refusals and failures

producer == <<worker, stop, panicked>>
client   == <<queue, poller>>

WorkerSteps == {"off", "select", "callback", "returned"}

StopSteps == {"no", "token", "deliveryClosed", "closed"}

Answers == {"pending", "success", "failure"}

NoReport == [msg |-> 0, answer |-> "pending"]

\* Start: startOnce and the goroutine.
Start ==
    /\ worker = "off"
    /\ worker' = "select"
    /\ UNCHANGED <<handed, events, arrived, attempts, report, errors, stop, panicked, client>>

---------------------------------------------------------------------------
(* SendAsync.                                                              *)

Hand(m, e) ==
    /\ handed' = Append(handed, m)
    /\ events' = Append(events, e)

Produce(m) ==
    /\ stop # "closed"
    /\ Hand(m, <<>>)
    /\ queue' = Append(queue, [msg |-> Len(handed) + 1, answer |-> "pending"])
    /\ attempts' = attempts \cup {Len(handed) + 1}
    /\ UNCHANGED <<errors, panicked>>

\* ProduceAsync returns an error, and the failure callback is invoked; or
\* the message cannot be compressed, and no callback is.
Refuse(m) ==
    /\ errors < MaxErrors
    /\ errors' = errors + 1
    /\ \E e \in {<<"failure">>, <<>>} : Hand(m, e)
    /\ UNCHANGED <<queue, attempts, panicked>>

\* The client is gone: what it does then is undefined.
ProduceOnClosed(m) ==
    /\ stop = "closed"
    /\ \/ panicked' = TRUE /\ UNCHANGED <<handed, events>>
       \/ Hand(m, <<"failure">>) /\ UNCHANGED panicked
    /\ UNCHANGED <<queue, attempts, errors>>

SendAsync(m) ==
    /\ Produce(m) \/ Refuse(m) \/ ProduceOnClosed(m)
    /\ UNCHANGED <<arrived, report, worker, stop, poller>>

\* InvokeCallback looks the callbacks up by the name it is given: another
\* name than the message's ID finds none of its subscriber's.
InvokeCallback(name, i, e) ==
    events' = IF name = handed[i].id THEN [events EXCEPT ![i] = Append(@, e)] ELSE events

Attempt(i) ==
    /\ i \in attempts
    /\ attempts' = attempts \ {i}
    /\ InvokeCallback(handed[i].id, i, "attempt")
    /\ UNCHANGED <<handed, arrived, report, errors, producer, client>>

Returned(i) == i \notin attempts

---------------------------------------------------------------------------
(* The client: the broker answers in order; a message it took may still be *)
(* reported as failed.                                                     *)

Answer ==
    \E k \in DOMAIN queue :
        /\ queue[k].answer = "pending"
        /\ \A j \in 1..(k - 1) : queue[j].answer # "pending"
        /\ \/ /\ queue' = [queue EXCEPT ![k].answer = "success"]
              /\ arrived' = Append(arrived, queue[k].msg)
              /\ UNCHANGED errors
           \/ /\ errors < MaxErrors
              /\ errors' = errors + 1
              /\ queue' = [queue EXCEPT ![k].answer = "failure"]
              /\ arrived' \in {arrived, Append(arrived, queue[k].msg)}
        /\ UNCHANGED <<handed, events, attempts, report, producer, poller>>

\* The poller sends the next report to deliveryChan, which panics if that is
\* closed, and waits for the handler.
Poll ==
    /\ poller = "poll"
    /\ queue # <<>> /\ Head(queue).answer # "pending"
    /\ IF stop = "deliveryClosed"
       THEN panicked' = TRUE /\ UNCHANGED poller
       ELSE poller' = "deliver" /\ UNCHANGED panicked
    /\ UNCHANGED <<handed, events, arrived, attempts, queue, report, worker, stop, errors>>

---------------------------------------------------------------------------
(* deliveryReportHandler: a select over stopChan and deliveryChan.         *)

ReceiveReport ==
    /\ worker = "select" /\ poller = "deliver"
    /\ worker' = "callback"
    /\ report' = Head(queue)
    /\ queue' = Tail(queue)
    /\ poller' = "poll"
    /\ UNCHANGED <<handed, events, arrived, attempts, errors, stop, panicked>>

\* Of the report's message the handler only has the key.
KeyOf(i) == handed[i].key

\* Mutated form: the handler returns after the report of a failure.
HandleAndReturn ==
    /\ worker = "callback"
    /\ InvokeCallback(KeyOf(report.msg), report.msg, report.answer)
    /\ worker' = IF report.answer = "failure" THEN "returned" ELSE "select"
    /\ report' = NoReport
    /\ UNCHANGED <<handed, arrived, attempts, errors, stop, panicked, client>>

HandleDeliveryReport ==
    /\ worker = "callback"
    /\ InvokeCallback(KeyOf(report.msg), report.msg, report.answer)
    /\ worker' = "select"
    /\ report' = NoReport
    /\ UNCHANGED <<handed, arrived, attempts, errors, stop, panicked, client>>

Work == Answer \/ Poll \/ ReceiveReport \/ HandleDeliveryReport

---------------------------------------------------------------------------
(* Stop: the token is handed to the handler, then deliveryChan and, last,  *)
(* the client are closed.  Closing deliveryChan panics a poller that is    *)
(* sending on it.                                                          *)

HandToken ==
    /\ stop = "no" /\ worker = "select"
    /\ stop' = "token"
    /\ worker' = "returned"
    /\ UNCHANGED <<panicked, poller>>

CloseDeliveryChan ==
    /\ stop = "token"
    /\ stop' = "deliveryClosed"
    /\ panicked' = (poller = "deliver")
    /\ UNCHANGED <<worker, poller>>

CloseClient ==
    /\ stop = "deliveryClosed"
    /\ stop' = "closed"
    /\ poller' = "gone"
    /\ UNCHANGED <<worker, panicked>>

Stop ==
    /\ HandToken \/ CloseDeliveryChan \/ CloseClient
    /\ UNCHANGED <<handed, events, arrived, attempts, queue, report, errors>>

=============================================================================
