---------------------------- MODULE RetryDelivery ----------------------------
(***************************************************************************)
(* Message delivery through MessageBrokerService: publish, send and        *)
(* subscribe of infrastructure/messaging/message-broker.ts, the retry      *)
(* wrapper of infrastructure/messaging/retry-handler.ts, and as much of    *)
(* RabbitMQ as they rely on (queues, bindings, acknowledgements, dead      *)
(* lettering, per-message TTL, redelivery when a channel dies).            *)
(*                                                                         *)
(* The service has one channel at a time.  Losing it (ChannelLost) starts  *)
(* a new epoch at the next Reconnect; handler calls started on the old     *)
(* channel keep running and settle their message on a channel that no      *)
(* longer exists.  A channel can also be let go of while it lives: a       *)
(* reconnect that follows a set-up which failed sets this.channel to null  *)
(* first (Detach).  The old channel is then taken to end before the new    *)
(* one is there; in the code it may live on beside it.  Payloads are left  *)
(* out; a copy carries the headers the wrapper reads and writes.           *)
(***************************************************************************)
EXTENDS Naturals, FiniteSets

CONSTANTS
  Messages,      \* messages the application publishes or sends
  Queues,        \* queues it subscribes to
  TempQueues,    \* those subscribe() creates: exclusive, autoDelete, no DLX
  Topics,        \* routing keys given to publish()
  Bind,          \* the topic exchange: routing key -> queues bound to match it
  TopicExchange, \* the configuration has a topic exchange
  Reasons,       \* failure reasons a handler can throw
  ChannelClosed, \* the failure reason when ack() throws on a dead channel
  NoReason,      \* no x-failure-reason header
  MaxRetries,    \* RetryConfig.maxRetries
  Prefetch,      \* unacknowledged copies a consumer may hold
  MaxLosses      \* bound on the number of times the channel is lost

Keys == Topics \cup Queues        \* send() uses the queue name as routing key
Durable == Queues \ TempQueues    \* config.queues: durable, with a DLX

ASSUME RetryDeliveryAssumption ==
  /\ IsFiniteSet(Queues) /\ TempQueues \subseteq Queues
  /\ Bind \in [Keys -> SUBSET Queues]
  /\ TopicExchange \in BOOLEAN
  /\ NoReason \notin Reasons \cup {ChannelClosed}
  /\ MaxRetries \in Nat
  /\ Prefetch \in Nat \ {0}
  /\ MaxLosses \in Nat

VARIABLES
  channel,    \* "open", "closed", or "detached": alive, but no longer this.channel
  epoch,      \* which channel it is: one more at every reconnect
  declared,   \* temporary queues that exist
  consuming,  \* queues with a consumer on the current channel
  queued,     \* copies waiting in a queue
  unacked,    \* copies delivered on the current channel and not settled
  dlq,        \* dead-lettered copies: the copy, and why it ended there
  calls,      \* running calls of the wrapped handler
  nextId,     \* identity of the next copy
  subscribed, \* queues the application holds an uncancelled Subscription to
  sent,       \* history: messages published or sent
  accepted,   \* history: pairs of which a copy was put in a durable queue
  handled,    \* history: pairs a handler completed without throwing
  deliveries  \* history: how often each pair was handed to a handler

vars == <<channel, epoch, declared, consuming, queued, unacked, dlq, calls,
          nextId, subscribed, sent, accepted, handled, deliveries>>

AllReasons == Reasons \cup {ChannelClosed, NoReason}
Pairs == Messages \X Queues

Copy == [id : Nat, queue : Queues, msg : Messages, key : Keys,
         retry : 0..MaxRetries, reason : AllReasons]
Call == [copy : Copy, epoch : Nat, phase : {"running", "ok", "failed"},
         why : AllReasons]
DeadLetter == [copy : Copy, why : AllReasons]

PairOf(c) == <<c.msg, c.queue>>

TypeOK ==
  /\ channel \in {"open", "detached", "closed"}
  /\ epoch \in Nat
  /\ declared \subseteq TempQueues
  /\ consuming \subseteq Queues
  /\ queued \subseteq Copy
  /\ unacked \subseteq Copy
  /\ dlq \subseteq DeadLetter
  /\ calls \subseteq Call
  /\ nextId \in Nat
  /\ subscribed \subseteq Queues
  /\ sent \subseteq Messages
  /\ accepted \subseteq Pairs
  /\ handled \subseteq Pairs
  /\ deliveries \in [Pairs -> Nat]

Init ==
  /\ channel = "open"
  /\ epoch = 0
  /\ declared = {}
  /\ consuming = {}
  /\ queued = {}
  /\ unacked = {}
  /\ dlq = {}
  /\ calls = {}
  /\ nextId = 0
  /\ subscribed = {}
  /\ sent = {}
  /\ accepted = {}
  /\ handled = {}
  /\ deliveries = [p \in Pairs |-> 0]

(***************************************************************************)
(* RabbitMQ: the exchange puts one copy in every existing target queue; no *)
(* target means the message is dropped without an error.                   *)
(***************************************************************************)
Existing == Durable \cup declared

Copies(m, k, retry, reason, targets) ==
  [id : {nextId}, queue : targets, msg : {m}, key : {k}, retry : {retry},
   reason : {reason}]

Enqueue(m, k, retry, reason, targets) ==
  /\ queued' = queued \cup Copies(m, k, retry, reason, targets)
  /\ accepted' = accepted \cup ({m} \X (targets \cap Durable))
  /\ nextId' = nextId + 1

(***************************************************************************)
(* The publisher's side.  Every message is published or sent once.         *)
(***************************************************************************)
Post(m, k, targets) ==
  /\ channel = "open"
  /\ m \notin sent
  /\ sent' = sent \cup {m}
  /\ Enqueue(m, k, 0, NoReason, targets)
  /\ UNCHANGED <<channel, epoch, declared, consuming, unacked, dlq, calls,
                 subscribed, handled, deliveries>>

\* getDefaultTopicExchange throws when the configuration has none.
Publish(m, t) == TopicExchange /\ Post(m, t, Bind[t] \cap Existing)

Send(m, q) == Post(m, q, {q} \cap Existing)

(***************************************************************************)
(* The consumer's side.                                                    *)
(***************************************************************************)
Subscribe(q) ==
  /\ channel = "open"
  /\ q \in TempQueues => TopicExchange
  /\ consuming' = consuming \cup {q}
  /\ declared' = declared \cup ({q} \cap TempQueues)
  /\ subscribed' = subscribed \cup {q}
  /\ UNCHANGED <<channel, epoch, queued, unacked, dlq, calls, nextId, sent,
                 accepted, handled, deliveries>>

\* Subscription.cancel, on the channel it was made on.  A temporary queue goes
\* with its last consumer.
Cancel(q) ==
  /\ channel # "closed"
  /\ q \in consuming
  /\ consuming' = consuming \ {q}
  /\ declared' = declared \ {q}
  /\ queued' = {c \in queued : c.queue = q => q \in Durable}
  /\ subscribed' = subscribed \ {q}
  /\ UNCHANGED <<channel, epoch, unacked, dlq, calls, nextId, sent, accepted,
                 handled, deliveries>>

Held(q) == {c \in unacked : c.queue = q}


\* Mutant: consume with noAck: true.
DeliverNoAck(c) ==
  /\ channel = "open"
  /\ c \in queued
  /\ c.queue \in consuming
  /\ queued' = queued \ {c}
  /\ calls' = calls \cup {[copy |-> c, epoch |-> epoch, phase |-> "running",
                           why |-> NoReason]}
  /\ deliveries' = [deliveries EXCEPT ![PairOf(c)] = @ + 1]
  /\ UNCHANGED <<channel, epoch, declared, consuming, unacked, dlq, nextId,
                 subscribed, sent, accepted, handled>>

Deliver(c) ==
  /\ channel = "open"
  /\ c \in queued
  /\ c.queue \in consuming
  /\ Cardinality(Held(c.queue)) < Prefetch
  /\ queued' = queued \ {c}
  /\ unacked' = unacked \cup {c}
  /\ calls' = calls \cup {[copy |-> c, epoch |-> epoch, phase |-> "running",
                           why |-> NoReason]}
  /\ deliveries' = [deliveries EXCEPT ![PairOf(c)] = @ + 1]
  /\ UNCHANGED <<channel, epoch, declared, consuming, dlq, nextId, subscribed,
                 sent, accepted, handled>>

Advance(k, phase, why) ==
  calls' = (calls \ {k}) \cup {[k EXCEPT !.phase = phase, !.why = why]}

HandlerReturns(k) ==
  /\ k.phase = "running"
  /\ Advance(k, "ok", NoReason)
  /\ handled' = handled \cup {PairOf(k.copy)}
  /\ UNCHANGED <<channel, epoch, declared, consuming, queued, unacked, dlq,
                 nextId, subscribed, sent, accepted, deliveries>>

HandlerThrows(k, r) ==
  /\ k.phase = "running"
  /\ Advance(k, "failed", r)
  /\ UNCHANGED <<channel, epoch, declared, consuming, queued, unacked, dlq,
                 nextId, subscribed, sent, accepted, handled, deliveries>>

(***************************************************************************)
(* The wrapper of RetryHandler.wrapHandler.  ack() and nack() act on the   *)
(* channel the message came on and throw when that channel is closed;      *)
(* republish() publishes on whatever this.channel is and throws when it is *)
(* null.                                                                   *)
(***************************************************************************)
OnItsChannel(k) == channel # "closed" /\ k.epoch = epoch

Settled(k) == IF OnItsChannel(k) THEN unacked \ {k.copy} ELSE unacked

Ack(k) ==
  /\ k.phase = "ok"
  /\ OnItsChannel(k)
  /\ unacked' = Settled(k)
  /\ calls' = calls \ {k}
  /\ UNCHANGED <<channel, epoch, declared, consuming, queued, dlq, nextId,
                 subscribed, sent, accepted, handled, deliveries>>

\* The ack() of a successful call throws: the wrapper takes it for a failure.
AckThrows(k) ==
  /\ k.phase = "ok"
  /\ ~OnItsChannel(k)
  /\ Advance(k, "failed", ChannelClosed)
  /\ UNCHANGED <<channel, epoch, declared, consuming, queued, unacked, dlq,
                 nextId, subscribed, sent, accepted, handled, deliveries>>


RetryAs(k, limit, retry, reason) ==
  /\ k.phase = "failed"
  /\ k.copy.retry < limit
  /\ channel = "open" /\ TopicExchange
  /\ Enqueue(k.copy.msg, k.copy.key, retry, reason,
             Bind[k.copy.key] \cap Existing)
  /\ unacked' = Settled(k)
  /\ calls' = calls \ {k}
  /\ UNCHANGED <<channel, epoch, declared, consuming, dlq, subscribed, sent,
                 handled, deliveries>>

\* Mutants: one retry too many; the count is not updated.
RetryOnceMore(k) == RetryAs(k, MaxRetries + 1, k.copy.retry + 1, k.why)
RetryUncounted(k) == RetryAs(k, MaxRetries, k.copy.retry, k.why)

\* Republish to the topic exchange under the same routing key, then ack.
Retry(k) == RetryAs(k, MaxRetries, k.copy.retry + 1, k.why)

\* Mutant: the queue is declared without its dead letter exchange.
BuryNoDlx(c, why) == dlq' = dlq

\* The copy c leaves its queue without a requeue; a temporary queue has no DLX.
Bury(c, why) ==
  dlq' = IF c.queue \in Durable
         THEN dlq \cup {[copy |-> c, why |-> why]} ELSE dlq

\* Mutant: the fallback acks the message it could not republish.
RetryFailsAcked(k) ==
  /\ k.phase = "failed"
  /\ k.copy.retry < MaxRetries
  /\ channel # "open" \/ ~TopicExchange
  /\ unacked' = Settled(k)
  /\ calls' = calls \ {k}
  /\ UNCHANGED <<channel, epoch, declared, consuming, queued, dlq, nextId,
                 subscribed, sent, accepted, handled, deliveries>>

\* republish() throws, for want of a channel or of an exchange.  The nack()
\* after it works if the message's own channel is alive: the message is
\* dead-lettered with the headers it came with.
RetryFails(k) ==
  /\ k.phase = "failed"
  /\ k.copy.retry < MaxRetries
  /\ channel # "open" \/ ~TopicExchange
  /\ IF OnItsChannel(k) THEN Bury(k.copy, k.why) ELSE dlq' = dlq
  /\ unacked' = Settled(k)
  /\ calls' = calls \ {k}
  /\ UNCHANGED <<channel, epoch, declared, consuming, queued, nextId,
                 subscribed, sent, accepted, handled, deliveries>>

\* Mutant: the last failure is not nacked.
GiveUpNoNack(k) ==
  /\ k.phase = "failed"
  /\ k.copy.retry >= MaxRetries
  /\ calls' = calls \ {k}
  /\ UNCHANGED <<channel, epoch, declared, consuming, queued, unacked, dlq,
                 nextId, subscribed, sent, accepted, handled, deliveries>>

GiveUp(k) ==
  /\ k.phase = "failed"
  /\ k.copy.retry >= MaxRetries
  /\ IF OnItsChannel(k) THEN Bury(k.copy, k.why) ELSE dlq' = dlq
  /\ unacked' = Settled(k)
  /\ calls' = calls \ {k}
  /\ UNCHANGED <<channel, epoch, declared, consuming, queued, nextId,
                 subscribed, sent, accepted, handled, deliveries>>

(***************************************************************************)
(* RabbitMQ and the connection.                                            *)
(***************************************************************************)
\* A retry is published with expiration = its backoff delay: not consumed by
\* then, it is dead-lettered.
Expire(c) ==
  /\ c \in queued
  /\ c.retry > 0
  /\ queued' = queued \ {c}
  /\ Bury(c, c.reason)
  /\ UNCHANGED <<channel, epoch, declared, consuming, unacked, calls, nextId,
                 subscribed, sent, accepted, handled, deliveries>>

\* The timer of a reconnect whose set-up had failed after it had connected: it
\* nulls this.channel, and the connection behind it lives on.
Detach ==
  /\ channel = "open"
  /\ epoch < MaxLosses
  /\ channel' = "detached"
  /\ UNCHANGED <<epoch, declared, consuming, queued, unacked, dlq, calls,
                 nextId, subscribed, sent, accepted, handled, deliveries>>

\* Unacknowledged copies go back to their queue; temporary queues are deleted.
ChannelLost ==
  /\ channel # "closed"
  /\ epoch < MaxLosses
  /\ channel' = "closed"
  /\ consuming' = {}
  /\ declared' = {}
  /\ queued' = {c \in queued \cup unacked : c.queue \in Durable}
  /\ unacked' = {}
  /\ UNCHANGED <<epoch, dlq, calls, nextId, subscribed, sent, accepted,
                 handled, deliveries>>

\* The reconnect timer's callback: exchanges and configured queues are set up
\* again, consumers are not.
Reconnect ==
  /\ channel = "closed"
  /\ channel' = "open"
  /\ epoch' = epoch + 1
  /\ UNCHANGED <<declared, consuming, queued, unacked, dlq, calls, nextId,
                 subscribed, sent, accepted, handled, deliveries>>

-----------------------------------------------------------------------------
Publishing == \/ \E m \in Messages, t \in Topics : Publish(m, t)
              \/ \E m \in Messages, q \in Queues : Send(m, q)

CallStep(k) == \/ HandlerReturns(k)
               \/ \E r \in Reasons : HandlerThrows(k, r)
               \/ Ack(k)
               \/ AckThrows(k)
               \/ Retry(k)
               \/ RetryFails(k)
               \/ GiveUp(k)

Next == \/ Publishing
        \/ \E q \in Queues : Subscribe(q) \/ Cancel(q)
        \/ \E c \in queued : Deliver(c) \/ Expire(c)
        \/ \E k \in calls : CallStep(k)
        \/ Detach
        \/ ChannelLost
        \/ Reconnect

Spec == Init /\ [][Next]_vars

(***************************************************************************)
(* Fairness.  Handlers terminate and the event loop runs their             *)
(* continuations; the reconnect timer fires and a reconnect succeeds in    *)
(* the end; a connection the service has let go of ends (a delivery on it  *)
(* throws in the consumer's callback, which amqplib answers by closing     *)
(* it); RabbitMQ does not starve a queue that has a consumer again and     *)
(* again (strong fairness, since Cancel can take the consumer away).       *)
(***************************************************************************)
LeftAloneEnds == channel = "detached" /\ ChannelLost

Fairness == /\ WF_vars(\E k \in calls : CallStep(k))
            /\ WF_vars(LeftAloneEnds)
            /\ WF_vars(Reconnect)
            /\ \A q \in Queues :
                 SF_vars(\E c \in queued : c.queue = q /\ Deliver(c))

\* The application does nothing more once it has subscribed.
FairSpec == Spec /\ Fairness

\* The application subscribes anew whenever a queue has lost its consumer.
Resubscribe(q) == q \notin consuming /\ Subscribe(q)

ResubscribingSpec ==
  FairSpec /\ \A q \in Queues : WF_vars(Resubscribe(q))

-----------------------------------------------------------------------------
(***************************************************************************)
(* Properties.                                                             *)
(***************************************************************************)
DurablePairs == Messages \X Durable

LivePairs == {PairOf(c) : c \in {d \in queued \cup unacked : d.queue \in Durable}}
DeadPairs == {PairOf(d.copy) : d \in dlq}

\* The topic exchange brings a message sent to queue q back to q when it is
\* republished under the routing key q.
SendsCanRetry == \A q \in Queues : q \in Bind[q]

RetriesReturn == TopicExchange => SendsCanRetry

(***************************************************************************)
(* At-least-once (requirement 6.2): a message a durable queue has accepted *)
(* is waiting, in a consumer's hands, handled, or dead-lettered.  Retry    *)
(* acks the original in exchange for new copies, so it is Retry that can   *)
(* break this: it needs RetriesReturn.                                     *)
(***************************************************************************)
NeverForgotten == accepted \subseteq LivePairs \cup handled \cup DeadPairs

(***************************************************************************)
(* No ack() or nack() ever names a delivery the channel does not know      *)
(* (RabbitMQ would close the channel), and every unacknowledged delivery   *)
(* still has a call that will settle it, so that none occupies the         *)
(* prefetch window for ever.                                               *)
(***************************************************************************)
DeliveriesAreSettledOnce ==
  /\ \A k \in calls : OnItsChannel(k) => k.copy \in unacked
  /\ \A j, k \in calls : (j.copy = k.copy /\ j.epoch = k.epoch) => j = k
  /\ \A c \in unacked : \E k \in calls : k.copy = c /\ OnItsChannel(k)

(***************************************************************************)
(* Requirement 6.3 and the header comment of RetryHandler: a dead-lettered *)
(* message carries the reason it failed for in x-failure-reason.  The      *)
(* header is only written on the copy that is republished, so the message  *)
(* that is given up carries the reason of the attempt before, and one that *)
(* is dead-lettered without a retry carries none.                          *)
(***************************************************************************)
DeadLettersSayWhy == \A d \in dlq : d.copy.reason = d.why

(***************************************************************************)
(* Retries are bounded.  A retry goes back through the topic exchange to   *)
(* every queue bound to the key, so with n queues on one key a queue's     *)
(* handler may see a message 1 + n + ... + n^MaxRetries times, and         *)
(* 1 + MaxRetries times only when n = 1 ("at most 5 retries", task 3.2).   *)
(* A lost channel requeues what its calls may still retry: each at most    *)
(* doubles what a handler can see.                                         *)
(***************************************************************************)
Fan == CHOOSE n \in 0..Cardinality(Queues) :
         /\ \E k \in Keys : Cardinality(Bind[k]) = n
         /\ \A k \in Keys : Cardinality(Bind[k]) <= n

Budget[r \in Nat] == IF r = 0 THEN 1 ELSE 1 + Fan * Budget[r - 1]
Doubled[e \in Nat] == IF e = 0 THEN 1 ELSE 2 * Doubled[e - 1]

RetryBudget == \A p \in Pairs : deliveries[p] <= Doubled[epoch] * Budget[MaxRetries]

(***************************************************************************)
(* Every accepted message is eventually handled or dead-lettered.          *)
(***************************************************************************)
EventuallySettled ==
  \A p \in DurablePairs : p \in accepted ~> p \in handled \cup DeadPairs

\* Property 10 of the design: so it is while the application is subscribed.
SubscribersAreServed ==
  \A p \in DurablePairs :
    (p \in accepted /\ p[2] \in subscribed)
      ~> (p \in handled \cup DeadPairs \/ p[2] \notin subscribed)

(***************************************************************************)
(* RetryDelivery implements Delivery, for the durable queues.              *)
(***************************************************************************)
Promise == INSTANCE Delivery WITH
  Pairs <- DurablePairs,
  accepted <- accepted,
  live <- LivePairs,
  handled <- handled \cap DurablePairs,
  dead <- DeadPairs

ImplementsDelivery == Promise!Spec
=============================================================================
