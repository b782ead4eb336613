------------------------------- MODULE Outbox -------------------------------
(***************************************************************************)
(* OrderLifecycleEventOutboxHandler, for one event type.  (The outbox      *)
(* handlers of the other services are copies of it.)                       *)
(*                                                                         *)
(* flushOutbox takes the pending messages once and then awaits the         *)
(* subscribed handlers of each message in turn.  The array of handlers is  *)
(* read live, so a handler subscribed during the flush is called too.      *)
(* Between two awaits it runs without interruption: when the last handler  *)
(* of a message is done, the message is settled and the first handler of   *)
(* the next one is called in the same step.                                *)
(***************************************************************************)
EXTENDS Naturals, Sequences, FiniteSets, SequencesExt

CONSTANTS
    Messages,
    Handlers,
    Flushers,       \* the timers or requests that call flushOutbox
    BatchSizes      \* the values of its parameter batchSize

ASSUME OutboxAssumption == BatchSizes \subseteq Nat \ {0} /\ IsFiniteSet(Flushers)

VARIABLES
    outboxQueue,    \* the messages, in the order they were queued
    message,        \* message[m]: [status, retryCount]
    subscribers,    \* the handlers, in the order they subscribed
    received,       \* received[m][h]: how often handler h was given m
    flush           \* flush[f]: [batch, h]; batch is << >> when f is idle,
                    \* else f awaits the h-th handler of Head(batch)

outboxVars == <<outboxQueue, message, subscribers, received, flush>>

\* retryCount >= 5 makes a dead letter
MaxRetries == 5

Idle == [batch |-> << >>, h |-> 0]

OutboxInit ==
    /\ outboxQueue = << >>
    /\ message = [m \in Messages |-> [status |-> "NONE", retryCount |-> 0]]
    /\ subscribers = << >>
    /\ received = [m \in Messages |-> [h \in Handlers |-> 0]]
    /\ flush = [f \in Flushers |-> Idle]

----------------------------------------------------------------------------
(* Variants of the definitions below, each with one plausible mistake.     *)

\* > for >=
DeadOneLater(n) == n > MaxRetries

\* The handlers are counted before the last one is reached.
AlmostLastHandler(f) == flush[f].h + 1 >= Len(subscribers)

\* Only messages that never failed are taken: no retries.
NotTriedYet(m) == message[m].status = "PENDING" /\ message[m].retryCount = 0

\* The failure puts the message back in the queue, whatever became of it.
FailureRequeues(m) ==
    LET n == message[m].retryCount + 1
    IN  [status |-> IF n >= MaxRetries THEN "DEAD_LETTER" ELSE "PENDING",
         retryCount |-> n]

----------------------------------------------------------------------------
queueEvent(m) ==
    /\ message[m].status = "NONE"
    /\ outboxQueue' = Append(outboxQueue, m)
    /\ message' = [message EXCEPT ![m].status = "PENDING"]
    /\ UNCHANGED <<subscribers, received, flush>>

subscribe(h) ==
    /\ h \notin ToSet(subscribers)
    /\ subscribers' = Append(subscribers, h)
    /\ UNCHANGED <<outboxQueue, message, received, flush>>

IsPending(m) == message[m].status = "PENDING"

\* filter(PENDING), message by message
Pending ==
    LET upTo[i \in 0 .. Len(outboxQueue)] ==
            IF i = 0 THEN << >>
            ELSE IF IsPending(outboxQueue[i]) THEN Append(upTo[i - 1], outboxQueue[i])
            ELSE upTo[i - 1]
    IN  upTo[Len(outboxQueue)]

\* slice(0, batchSize)
PendingBatch(batchSize) ==
    LET pending == Pending
    IN  SubSeq(pending, 1, Min({Len(pending), batchSize}))

\* f calls the first handler of the first message of batch, or is done
Start(f, batch) ==
    IF batch = << >>
    THEN flush' = [flush EXCEPT ![f] = Idle] /\ UNCHANGED received
    ELSE /\ flush' = [flush EXCEPT ![f] = [batch |-> batch, h |-> 1]]
         /\ received' = [received EXCEPT ![Head(batch)][subscribers[1]] = @ + 1]

\* The call, up to the first await.  Without handlers there is no await and
\* the whole batch is published.
flushOutbox(f, batchSize) ==
    LET pending == PendingBatch(batchSize)
    IN  /\ flush[f] = Idle
        /\ pending # << >>
        /\ IF subscribers = << >>
           THEN /\ message' = [m \in Messages |->
                        IF m \in ToSet(pending)
                        THEN [message[m] EXCEPT !.status = "PUBLISHED"] ELSE message[m]]
                /\ UNCHANGED <<received, flush>>
           ELSE Start(f, pending) /\ UNCHANGED message
        /\ UNCHANGED <<outboxQueue, subscribers>>

LastHandler(f) == flush[f].h = Len(subscribers)

\* The handler awaited is done: the next one is called, or the message is
\* published and the flush goes on with the next message.
HandlerDone(f) ==
    LET batch == flush[f].batch
        m == Head(batch)
        h == flush[f].h + 1
    IN  /\ batch # << >>
        /\ IF LastHandler(f)
           THEN /\ message' = [message EXCEPT ![m].status = "PUBLISHED"]
                /\ Start(f, Tail(batch))
           ELSE /\ flush' = [flush EXCEPT ![f].h = h]
                /\ received' = [received EXCEPT ![m][subscribers[h]] = @ + 1]
                /\ UNCHANGED message
        /\ UNCHANGED <<outboxQueue, subscribers>>

IsDead(n) == n >= MaxRetries

\* The catch block
CountFailure(m) ==
    LET n == message[m].retryCount + 1
    IN  [status |-> IF IsDead(n) THEN "DEAD_LETTER" ELSE message[m].status,
         retryCount |-> n]

\* The handler awaited throws: the message is left for a later flush
HandlerThrows(f) ==
    LET batch == flush[f].batch
        m == Head(batch)
    IN  /\ batch # << >>
        /\ message' = [message EXCEPT ![m] = CountFailure(m)]
        /\ Start(f, Tail(batch))
        /\ UNCHANGED <<outboxQueue, subscribers>>

OutboxNext ==
    \/ \E m \in Messages : queueEvent(m)
    \/ \E h \in Handlers : subscribe(h)
    \/ \E f \in Flushers, batchSize \in BatchSizes : flushOutbox(f, batchSize)
    \/ \E f \in Flushers : HandlerDone(f) \/ HandlerThrows(f)

OutboxSpec == OutboxInit /\ [][OutboxNext]_outboxVars

\* flushOutbox is called again and again, and handlers settle.  Whether one
\* returns or throws is up to it.
OutboxFairness ==
    \A f \in Flushers :
        /\ WF_outboxVars(\E batchSize \in BatchSizes : flushOutbox(f, batchSize))
        /\ WF_outboxVars(HandlerDone(f) \/ HandlerThrows(f))

----------------------------------------------------------------------------
Settled == {"PUBLISHED", "DEAD_LETTER"}

\* A message that was published or given up is never pending again: no late
\* result of a flush that overlapped the one that settled it brings it back.
\* And it is published only when every handler subscribed by then has been
\* given it in full, those that subscribed during the flush included.
SettledForGood ==
    [][\A m \in Messages :
        /\ message[m].status \in Settled => message'[m].status \in Settled
        /\ message[m].status = "PENDING" /\ message'[m].status = "PUBLISHED" =>
            \A h \in ToSet(subscribers) : received[m][h] > 0]_outboxVars

\* Retries are bounded.  A pending message has failed fewer than five times,
\* so a handler is given it at most once for each of these failures and once
\* more by every flush that is under way when it is settled; and a message is
\* given up only when it failed at least five times.
BoundedRedelivery ==
    \A m \in Messages :
        /\ \A h \in Handlers : received[m][h] <= 4 + Cardinality(Flushers)
        /\ message[m].status = "DEAD_LETTER" => message[m].retryCount >= 5
        /\ message[m].status = "PENDING" => message[m].retryCount < 5

\* Every message is published or given up in the end, even when handlers keep
\* failing and the batch is smaller than the backlog.
EventuallySettled ==
    \A m \in Messages : (message[m].status = "PENDING") ~> (message[m].status \in Settled)
=============================================================================
