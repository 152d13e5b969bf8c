------------------------ MODULE RetryDelivery_proofs ------------------------
(***************************************************************************)
(* Proofs about RetryDelivery, for all sets of messages and queues, all    *)
(* bindings, and all values of MaxRetries, Prefetch and MaxLosses.         *)
(***************************************************************************)
EXTENDS RetryDelivery, FiniteSetTheorems, TLAPS

-----------------------------------------------------------------------------
(***************************************************************************)
(* Type correctness.                                                       *)
(***************************************************************************)
LEMMA TypeInit == Init => TypeOK
  BY RetryDeliveryAssumption DEF Init, TypeOK, Pairs

\* New copies are well-typed when their retry count is.
LEMMA CopiesTyped ==
  ASSUME TypeOK, NEW m \in Messages, NEW k \in Keys, NEW r \in 0..MaxRetries,
         NEW w \in AllReasons, NEW T \in SUBSET Queues
  PROVE  Copies(m, k, r, w, T) \subseteq Copy
  BY DEF Copies, Copy, TypeOK

LEMMA EnqueueTyped ==
  ASSUME TypeOK, NEW m \in Messages, NEW k \in Keys, NEW r \in 0..MaxRetries,
         NEW w \in AllReasons, NEW T \in SUBSET Queues,
         Enqueue(m, k, r, w, T)
  PROVE  queued' \subseteq Copy /\ nextId' \in Nat /\ accepted' \subseteq Pairs
  <1>1. queued' \subseteq Copy
    BY CopiesTyped DEF Enqueue, TypeOK
  <1>2. nextId' \in Nat
    BY DEF Enqueue, TypeOK
  <1>3. accepted' \subseteq Pairs
    BY DEF Enqueue, TypeOK, Pairs, Durable
  <1> QED BY <1>1, <1>2, <1>3

\* What a well-typed call is made of.
LEMMA CallTyped ==
  ASSUME TypeOK, NEW k \in calls
  PROVE  /\ k \in Call
         /\ k.copy \in Copy
         /\ k.copy.msg \in Messages /\ k.copy.queue \in Queues
         /\ k.copy.key \in Keys /\ k.copy.retry \in 0..MaxRetries
         /\ k.why \in AllReasons /\ k.epoch \in Nat
         /\ PairOf(k.copy) \in Pairs
         /\ Bind[k.copy.key] \cap Existing \in SUBSET Queues
  <1>1. k \in Call /\ k.copy \in Copy
    BY DEF TypeOK, Call
  <1>2. k.copy.key \in Keys
    BY <1>1 DEF Copy
  <1>3. Bind[k.copy.key] \in SUBSET Queues
    BY <1>2, RetryDeliveryAssumption
  <1> QED BY <1>1, <1>2, <1>3 DEF Call, Copy, PairOf, Pairs

LEMMA AdvanceTyped ==
  ASSUME TypeOK, NEW k \in calls, NEW ph \in {"running", "ok", "failed"},
         NEW w \in AllReasons, Advance(k, ph, w)
  PROVE  calls' \subseteq Call
  BY CallTyped DEF Advance, TypeOK, Call

LEMMA TypeNext == TypeOK /\ [Next]_vars => TypeOK'
  <1> SUFFICES ASSUME TypeOK, [Next]_vars PROVE TypeOK'
    OBVIOUS
  <1>1. ASSUME NEW m \in Messages, NEW t \in Topics, Publish(m, t)
        PROVE  TypeOK'
    <2>1. t \in Keys /\ Bind[t] \cap Existing \in SUBSET Queues
      BY RetryDeliveryAssumption DEF Keys
    <2>2. 0 \in 0..MaxRetries /\ NoReason \in AllReasons
      BY RetryDeliveryAssumption DEF AllReasons
    <2> QED BY <1>1, <2>1, <2>2, EnqueueTyped DEF Publish, Post, TypeOK
  <1>2. ASSUME NEW m \in Messages, NEW q \in Queues, Send(m, q)
        PROVE  TypeOK'
    <2>1. q \in Keys /\ {q} \cap Existing \in SUBSET Queues
      BY DEF Keys
    <2>2. 0 \in 0..MaxRetries /\ NoReason \in AllReasons
      BY RetryDeliveryAssumption DEF AllReasons
    <2> QED BY <1>2, <2>1, <2>2, EnqueueTyped DEF Send, Post, TypeOK
  <1>3. ASSUME NEW q \in Queues, Subscribe(q) PROVE TypeOK'
    BY <1>3 DEF Subscribe, TypeOK
  <1>4. ASSUME NEW q \in Queues, Cancel(q) PROVE TypeOK'
    BY <1>4 DEF Cancel, TypeOK
  <1>5. ASSUME NEW c \in queued, Deliver(c) PROVE TypeOK'
    <2>1. c \in Copy /\ PairOf(c) \in Pairs
      BY DEF TypeOK, Copy, PairOf, Pairs
    <2>2. calls' \subseteq Call
      BY <1>5, <2>1 DEF Deliver, TypeOK, Call, AllReasons
    <2>3. deliveries' \in [Pairs -> Nat]
      BY <1>5, <2>1 DEF Deliver, TypeOK
    <2> QED BY <1>5, <2>1, <2>2, <2>3 DEF Deliver, TypeOK
  <1>6. ASSUME NEW c \in queued, Expire(c) PROVE TypeOK'
    <2>1. c \in Copy /\ c.reason \in AllReasons
      BY DEF TypeOK, Copy
    <2> QED BY <1>6, <2>1 DEF Expire, Bury, TypeOK, DeadLetter
  <1>7. ASSUME NEW k \in calls, CallStep(k) PROVE TypeOK'
    <2> USE CallTyped
    <2>1. CASE HandlerReturns(k)
      BY <2>1, AdvanceTyped DEF HandlerReturns, TypeOK, AllReasons
    <2>2. ASSUME NEW r \in Reasons, HandlerThrows(k, r) PROVE TypeOK'
      BY <2>2, AdvanceTyped DEF HandlerThrows, TypeOK, AllReasons
    <2>3. CASE Ack(k)
      BY <2>3 DEF Ack, Settled, TypeOK
    <2>4. CASE AckThrows(k)
      BY <2>4, AdvanceTyped DEF AckThrows, TypeOK, AllReasons
    <2>5. CASE Retry(k)
      <3>1. k.copy.retry + 1 \in 0..MaxRetries
        BY <2>5, RetryDeliveryAssumption DEF Retry, RetryAs
      <3> QED BY <2>5, <3>1, EnqueueTyped DEF Retry, RetryAs, Settled, TypeOK
    <2>6. CASE RetryFails(k)
      BY <2>6 DEF RetryFails, Bury, Settled, TypeOK, DeadLetter
    <2>7. CASE GiveUp(k)
      BY <2>7 DEF GiveUp, Bury, Settled, TypeOK, DeadLetter
    <2> QED BY <1>7, <2>1, <2>2, <2>3, <2>4, <2>5, <2>6, <2>7 DEF CallStep
  <1>8. CASE Detach \/ ChannelLost
    BY <1>8 DEF Detach, ChannelLost, TypeOK
  <1>9. CASE Reconnect
    BY <1>9 DEF Reconnect, TypeOK
  <1>10. CASE UNCHANGED vars
    BY <1>10 DEF vars, TypeOK
  <1> QED
    BY <1>1, <1>2, <1>3, <1>4, <1>5, <1>6, <1>7, <1>8, <1>9, <1>10
    DEF Next, Publishing

(***************************************************************************)
(* Every variable keeps its type; in particular no copy is ever retried    *)
(* more than MaxRetries times (wrapHandler's comparison with maxRetries).  *)
(***************************************************************************)
THEOREM TypeCorrect == Spec => []TypeOK
  BY TypeInit, TypeNext, PTL DEF Spec

-----------------------------------------------------------------------------
(***************************************************************************)
(* Settlement.  DeliveriesAreSettledOnce is not inductive alone: a         *)
(* delivery must not find a call already at work on its copy, so a copy is *)
(* never queued and unacknowledged at once, which the identities of new    *)
(* copies ensure; and no call may belong to a channel yet to come.         *)
(***************************************************************************)
Settlement ==
  /\ \A c \in queued \cup unacked : c.id < nextId
  /\ queued \cap unacked = {}
  /\ channel = "closed" => unacked = {}
  /\ \A k \in calls : k.epoch <= epoch
  /\ DeliveriesAreSettledOnce

LEMMA SettlementInit == Init => Settlement
  BY DEF Init, Settlement, DeliveriesAreSettledOnce

\* Enqueueing makes copies that are nowhere yet.
LEMMA EnqueueFresh ==
  ASSUME TypeOK, Settlement, NEW m, NEW k, NEW r, NEW w, NEW T,
         Enqueue(m, k, r, w, T), unacked' \subseteq unacked
  PROVE  /\ \A c \in queued' \cup unacked' : c.id < nextId'
         /\ queued' \cap unacked' = {}
  <1>1. \A c \in Copies(m, k, r, w, T) : c.id = nextId
    BY DEF Copies
  <1>2. nextId \in Nat /\ nextId' = nextId + 1
    BY DEF TypeOK, Enqueue
  <1>3. \A c \in queued \cup unacked : c.id \in Nat /\ c.id < nextId
    BY DEF TypeOK, Copy, Settlement
  <1> QED BY <1>1, <1>2, <1>3 DEF Enqueue, Settlement

\* A step in which calls are only relabelled.
LEMMA AdvanceKeeps ==
  ASSUME TypeOK, Settlement, NEW k \in calls, NEW ph, NEW w,
         Advance(k, ph, w),
         UNCHANGED <<channel, epoch, queued, unacked, nextId>>
  PROVE  Settlement'
  <1> DEFINE n == [k EXCEPT !.phase = ph, !.why = w]
  <1>1. k \in Call
    BY DEF TypeOK
  <1>2. n.copy = k.copy /\ n.epoch = k.epoch
    BY <1>1 DEF Call
  <1>3. calls' = (calls \ {k}) \cup {n}
    BY DEF Advance
  <1> HIDE DEF n
  <1>4. \A c \in unacked : \E j \in calls' : j.copy = c /\ OnItsChannel(j)'
    <2> SUFFICES ASSUME NEW c \in unacked
                 PROVE  \E j \in calls' : j.copy = c /\ OnItsChannel(j)'
      OBVIOUS
    <2>1. PICK j \in calls : j.copy = c /\ OnItsChannel(j)
      BY DEF Settlement, DeliveriesAreSettledOnce
    <2>2. CASE j = k
      BY <1>2, <1>3, <2>1, <2>2 DEF OnItsChannel
    <2>3. CASE j # k
      BY <1>3, <2>1, <2>3 DEF OnItsChannel
    <2> QED BY <2>2, <2>3
  <1> QED
    BY <1>2, <1>3, <1>4 DEF Settlement, DeliveriesAreSettledOnce, OnItsChannel

\* A step in which the call k settles its copy and ends.
LEMMA SettleKeeps ==
  ASSUME TypeOK, Settlement, NEW k \in calls,
         calls' = calls \ {k}, unacked' = Settled(k),
         UNCHANGED <<channel, epoch>>
  PROVE  /\ DeliveriesAreSettledOnce'
         /\ channel' = "closed" => unacked' = {}
         /\ \A j \in calls' : j.epoch <= epoch'
  <1>1. \A j \in calls' : OnItsChannel(j)' => j.copy \in unacked'
    BY DEF Settlement, DeliveriesAreSettledOnce, Settled, OnItsChannel
  <1>2. \A c \in unacked' : \E j \in calls' : j.copy = c /\ OnItsChannel(j)'
    <2> SUFFICES ASSUME NEW c \in unacked'
                 PROVE  \E j \in calls' : j.copy = c /\ OnItsChannel(j)'
      OBVIOUS
    <2>1. PICK j \in calls : j.copy = c /\ OnItsChannel(j)
      BY DEF Settlement, DeliveriesAreSettledOnce, Settled
    <2>2. j # k
      BY <2>1 DEF Settled
    <2> QED BY <2>1, <2>2 DEF OnItsChannel
  <1> QED
    BY <1>1, <1>2 DEF Settlement, DeliveriesAreSettledOnce, Settled

LEMMA SettlementNext == TypeOK /\ Settlement /\ [Next]_vars => Settlement'
  <1> SUFFICES ASSUME TypeOK, Settlement, [Next]_vars PROVE Settlement'
    OBVIOUS
  <1>1. ASSUME NEW m, NEW k, NEW T, Post(m, k, T) PROVE Settlement'
    <2>1. /\ \A c \in queued' \cup unacked' : c.id < nextId'
          /\ queued' \cap unacked' = {}
      BY <1>1, EnqueueFresh DEF Post
    <2> QED
      BY <1>1, <2>1
      DEF Post, Settlement, DeliveriesAreSettledOnce, OnItsChannel
  <1>2. ASSUME NEW q \in Queues, Subscribe(q) PROVE Settlement'
    BY <1>2 DEF Subscribe, Settlement, DeliveriesAreSettledOnce, OnItsChannel
  <1>3. ASSUME NEW q \in Queues, Cancel(q) PROVE Settlement'
    BY <1>3 DEF Cancel, Settlement, DeliveriesAreSettledOnce, OnItsChannel
  <1>4. ASSUME NEW c \in queued, Deliver(c) PROVE Settlement'
    <2> DEFINE n == [copy |-> c, epoch |-> epoch, phase |-> "running",
                     why |-> NoReason]
    <2>1. /\ calls' = calls \cup {n}
          /\ queued' = queued \ {c}
          /\ unacked' = unacked \cup {c}
          /\ UNCHANGED <<channel, epoch, nextId>>
          /\ channel = "open"
      BY <1>4 DEF Deliver
    <2>2. n.copy = c /\ n.epoch = epoch /\ epoch \in Nat
      BY DEF TypeOK
    <2> HIDE DEF n
    <2>3. c \notin unacked
      BY DEF Settlement
    <2>4. \A k \in calls : ~(k.copy = c /\ k.epoch = epoch)
      BY <2>1, <2>3 DEF Settlement, DeliveriesAreSettledOnce, OnItsChannel
    <2>5. \A k \in calls' : OnItsChannel(k)' => k.copy \in unacked'
      BY <2>1, <2>2 DEF Settlement, DeliveriesAreSettledOnce, OnItsChannel
    <2>6. \A j, k \in calls' : (j.copy = k.copy /\ j.epoch = k.epoch) => j = k
      BY <2>1, <2>2, <2>4 DEF Settlement, DeliveriesAreSettledOnce
    <2>7. \A d \in unacked' : \E k \in calls' : k.copy = d /\ OnItsChannel(k)'
      BY <2>1, <2>2 DEF Settlement, DeliveriesAreSettledOnce, OnItsChannel
    <2> QED
      BY <2>1, <2>2, <2>5, <2>6, <2>7 DEF Settlement, DeliveriesAreSettledOnce
  <1>5. ASSUME NEW c \in queued, Expire(c) PROVE Settlement'
    BY <1>5 DEF Expire, Settlement, DeliveriesAreSettledOnce, OnItsChannel
  <1>6. ASSUME NEW k \in calls, CallStep(k) PROVE Settlement'
    <2>1. CASE HandlerReturns(k)
      BY <2>1, AdvanceKeeps DEF HandlerReturns
    <2>2. ASSUME NEW r \in Reasons, HandlerThrows(k, r) PROVE Settlement'
      BY <2>2, AdvanceKeeps DEF HandlerThrows
    <2>3. CASE Ack(k)
      BY <2>3, SettleKeeps DEF Ack, Settlement, Settled
    <2>4. CASE AckThrows(k)
      BY <2>4, AdvanceKeeps DEF AckThrows
    <2>5. CASE Retry(k)
      <3>1. unacked' \subseteq unacked
        BY <2>5 DEF Retry, RetryAs, Settled
      <3>2. /\ \A c \in queued' \cup unacked' : c.id < nextId'
            /\ queued' \cap unacked' = {}
        BY <2>5, <3>1, EnqueueFresh DEF Retry, RetryAs
      <3> QED BY <2>5, <3>2, SettleKeeps DEF Retry, RetryAs, Settlement
    <2>6. CASE RetryFails(k)
      BY <2>6, SettleKeeps DEF RetryFails, Settlement, Settled
    <2>7. CASE GiveUp(k)
      BY <2>7, SettleKeeps DEF GiveUp, Settlement, Settled
    <2> QED BY <1>6, <2>1, <2>2, <2>3, <2>4, <2>5, <2>6, <2>7 DEF CallStep
  <1>7. CASE Detach \/ ChannelLost
    BY <1>7
    DEF Detach, ChannelLost, Settlement, DeliveriesAreSettledOnce, OnItsChannel
  <1>8. CASE Reconnect
    <2>1. \A k \in calls : k.epoch \in Nat /\ k.epoch <= epoch
      BY DEF TypeOK, Call, Settlement
    <2>2. epoch \in Nat
      BY DEF TypeOK
    <2> QED
      BY <1>8, <2>1, <2>2
      DEF Reconnect, Settlement, DeliveriesAreSettledOnce, OnItsChannel
  <1>9. CASE UNCHANGED vars
    BY <1>9 DEF vars, Settlement, DeliveriesAreSettledOnce, OnItsChannel
  <1> QED
    BY <1>1, <1>2, <1>3, <1>4, <1>5, <1>6, <1>7, <1>8, <1>9
    DEF Next, Publishing, Publish, Send

(***************************************************************************)
(* ack() and nack() only ever name deliveries the channel knows, and no    *)
(* delivery is left unsettled without a handler call at work on it, across *)
(* any number of lost channels.                                            *)
(***************************************************************************)
THEOREM SettledOnce == Spec => []DeliveriesAreSettledOnce
  <1>1. Init => TypeOK /\ Settlement
    BY TypeInit, SettlementInit
  <1>2. TypeOK /\ Settlement /\ [Next]_vars => (TypeOK /\ Settlement)'
    BY TypeNext, SettlementNext
  <1>3. Settlement => DeliveriesAreSettledOnce
    BY DEF Settlement
  <1> QED BY <1>1, <1>2, <1>3, PTL DEF Spec

-----------------------------------------------------------------------------
(***************************************************************************)
(* Refinement.  The invariant it needs: every copy and every call is of an *)
(* accepted pair, a call whose handler has returned is of a handled pair,  *)
(* and, when sends can be retried, the exchange, if there is one, routes a *)
(* copy's key back to the copy's own queue.                                *)
(***************************************************************************)
Known(c) == /\ c.queue \in Durable => PairOf(c) \in accepted
            /\ TopicExchange => c.queue \in Bind[c.key]

Accounting ==
  /\ \A c \in queued \cup unacked : Known(c)
  /\ \A k \in calls : Known(k.copy)
  /\ \A k \in calls : k.phase = "ok" => PairOf(k.copy) \in handled

LEMMA AccountingInit == Init => Accounting
  BY DEF Init, Accounting

LEMMA EnqueueKnown ==
  ASSUME NEW m, NEW k, NEW r, NEW w, NEW T,
         TopicExchange => T \subseteq Bind[k],
         Enqueue(m, k, r, w, T)
  PROVE  /\ \A c \in Copies(m, k, r, w, T) : Known(c)'
         /\ accepted \subseteq accepted'
  BY DEF Enqueue, Copies, Known, PairOf

LEMMA AdvanceAccounts ==
  ASSUME TypeOK, Accounting, NEW k \in calls, NEW ph, NEW w,
         Advance(k, ph, w), handled \subseteq handled',
         ph = "ok" => PairOf(k.copy) \in handled',
         UNCHANGED <<queued, unacked, accepted>>
  PROVE  Accounting'
  <1> DEFINE n == [k EXCEPT !.phase = ph, !.why = w]
  <1>1. k \in Call
    BY DEF TypeOK
  <1>2. n.copy = k.copy /\ n.phase = ph
    BY <1>1 DEF Call
  <1>3. calls' = (calls \ {k}) \cup {n}
    BY DEF Advance
  <1> HIDE DEF n
  <1> QED BY <1>2, <1>3 DEF Accounting, Known

LEMMA AccountingNext ==
  ASSUME RetriesReturn
  PROVE  TypeOK /\ Accounting /\ [Next]_vars => Accounting'
  <1> SUFFICES ASSUME TypeOK, Accounting, [Next]_vars PROVE Accounting'
    OBVIOUS
  <1>1. ASSUME NEW m, NEW k, NEW T, TopicExchange => T \subseteq Bind[k],
               Post(m, k, T)
        PROVE  Accounting'
    BY <1>1, EnqueueKnown DEF Post, Enqueue, Accounting, Known
  <1>2. ASSUME NEW m \in Messages, NEW t \in Topics, Publish(m, t)
        PROVE  Accounting'
    BY <1>1, <1>2 DEF Publish
  <1>3. ASSUME NEW m \in Messages, NEW q \in Queues, Send(m, q)
        PROVE  Accounting'
    BY <1>1, <1>3 DEF Send, RetriesReturn, SendsCanRetry
  <1>4. ASSUME NEW q \in Queues, Subscribe(q) \/ Cancel(q) PROVE Accounting'
    BY <1>4 DEF Subscribe, Cancel, Accounting, Known
  <1>5. ASSUME NEW c \in queued, Deliver(c) PROVE Accounting'
    BY <1>5 DEF Deliver, Accounting, Known
  <1>6. ASSUME NEW c \in queued, Expire(c) PROVE Accounting'
    BY <1>6 DEF Expire, Accounting, Known
  <1>7. ASSUME NEW k \in calls, CallStep(k) PROVE Accounting'
    <2>1. CASE HandlerReturns(k)
      BY <2>1, AdvanceAccounts DEF HandlerReturns
    <2>2. ASSUME NEW r \in Reasons, HandlerThrows(k, r) PROVE Accounting'
      BY <2>2, AdvanceAccounts DEF HandlerThrows
    <2>3. CASE Ack(k)
      BY <2>3 DEF Ack, Settled, Accounting, Known
    <2>4. CASE AckThrows(k)
      BY <2>4, AdvanceAccounts DEF AckThrows
    <2>5. CASE Retry(k)
      BY <2>5, EnqueueKnown
      DEF Retry, RetryAs, Enqueue, Settled, Accounting, Known
    <2>6. CASE RetryFails(k)
      BY <2>6 DEF RetryFails, Settled, Accounting, Known
    <2>7. CASE GiveUp(k)
      BY <2>7 DEF GiveUp, Settled, Accounting, Known
    <2> QED BY <1>7, <2>1, <2>2, <2>3, <2>4, <2>5, <2>6, <2>7 DEF CallStep
  <1>8. CASE Detach \/ ChannelLost
    BY <1>8 DEF Detach, ChannelLost, Accounting, Known
  <1>9. CASE Reconnect
    BY <1>9 DEF Reconnect, Accounting, Known
  <1>10. CASE UNCHANGED vars
    BY <1>10 DEF vars, Accounting, Known
  <1> QED
    BY <1>2, <1>3, <1>4, <1>5, <1>6, <1>7, <1>8, <1>9, <1>10
    DEF Next, Publishing

IInv == TypeOK /\ Settlement /\ Accounting

LEMMA InvariantInit == Init => IInv
  BY TypeInit, SettlementInit, AccountingInit DEF IInv

LEMMA InvariantNext == ASSUME RetriesReturn PROVE IInv /\ [Next]_vars => IInv'
  BY TypeNext, SettlementNext, AccountingNext DEF IInv

-----------------------------------------------------------------------------
\* A pair of a durable queue.
LEMMA DurablePair ==
  ASSUME NEW c \in Copy, c.queue \in Durable
  PROVE  PairOf(c) \in DurablePairs
  BY DEF Copy, PairOf, DurablePairs

\* What putting copies in the queues T does to the live pairs.
LEMMA EnqueueLive ==
  ASSUME NEW m, NEW k, NEW r, NEW w, NEW T, Enqueue(m, k, r, w, T),
         NEW gone, unacked' = unacked \ gone,
         \A c \in gone : c.queue \in Durable => PairOf(c) \in {m} \X T
  PROVE  LivePairs' = LivePairs \cup ({m} \X (T \cap Durable))
  <1> DEFINE new == Copies(m, k, r, w, T)
  <1>1. queued' = queued \cup new
    BY DEF Enqueue
  <1>2. \A c \in new : c.queue \in T /\ PairOf(c) = <<m, c.queue>>
    BY DEF Copies, PairOf
  <1>3. \A q \in T : \E c \in new : c.queue = q /\ PairOf(c) = <<m, q>>
    <2> SUFFICES ASSUME NEW q \in T
                 PROVE  \E c \in new : c.queue = q /\ PairOf(c) = <<m, q>>
      OBVIOUS
    <2> DEFINE c == [id |-> nextId, queue |-> q, msg |-> m, key |-> k,
                     retry |-> r, reason |-> w]
    <2>1. c \in new
      BY DEF Copies
    <2> QED BY <2>1 DEF PairOf
  <1> HIDE DEF new
  <1>4. LivePairs' \subseteq LivePairs \cup ({m} \X (T \cap Durable))
    BY <1>1, <1>2 DEF LivePairs
  <1>5. {m} \X (T \cap Durable) \subseteq LivePairs'
    <2> SUFFICES ASSUME NEW q \in T \cap Durable
                 PROVE  <<m, q>> \in LivePairs'
      OBVIOUS
    <2>1. PICK c \in new : c.queue = q /\ PairOf(c) = <<m, q>>
      BY <1>3
    <2> QED BY <1>1, <2>1 DEF LivePairs, PairOf
  <1>6. LivePairs \subseteq LivePairs'
    <2> SUFFICES ASSUME NEW c \in queued \cup unacked, c.queue \in Durable
                 PROVE  PairOf(c) \in LivePairs'
      BY DEF LivePairs
    <2>1. CASE c \in gone
      <3>1. PairOf(c) = <<c.msg, c.queue>>
        BY DEF PairOf
      <3>2. c.msg = m /\ c.queue \in T
        BY <2>1, <3>1
      <3> QED BY <1>5, <3>1, <3>2
    <2>2. CASE c \notin gone
      BY <1>1, <2>2 DEF LivePairs, PairOf
    <2> QED BY <2>1, <2>2
  <1> QED BY <1>4, <1>5, <1>6

\* What the departure of one copy does to them.
LEMMA DepartLive ==
  ASSUME NEW c, c \in queued \cup unacked, c.queue \in Durable,
         queued' \cup unacked' = (queued \cup unacked) \ {c}
  PROVE  /\ PairOf(c) \in LivePairs
         /\ LivePairs' \in {LivePairs, LivePairs \ {PairOf(c)}}
  <1>1. PairOf(c) \in LivePairs
    BY DEF LivePairs
  <1>2. LivePairs' \subseteq LivePairs
    BY DEF LivePairs, PairOf
  <1>3. \A p \in LivePairs : p # PairOf(c) => p \in LivePairs'
    BY DEF LivePairs, PairOf
  <1> QED BY <1>1, <1>2, <1>3

\* Copies of temporary queues are no part of the promise.
LEMMA SameLive ==
  ASSUME \A c : c.queue \in Durable =>
           (c \in queued' \cup unacked' <=> c \in queued \cup unacked)
  PROVE  LivePairs' = LivePairs
  BY DEF LivePairs, PairOf

LEMMA SameDead == ASSUME dlq' = dlq PROVE DeadPairs' = DeadPairs
  BY DEF DeadPairs, PairOf

LEMMA BuryDead ==
  ASSUME NEW c, NEW w, c.queue \in Durable, Bury(c, w)
  PROVE  DeadPairs' = DeadPairs \cup {PairOf(c)}
  <1> DEFINE n == [copy |-> c, why |-> w]
  <1>1. dlq' = dlq \cup {n}
    BY DEF Bury
  <1>2. n.copy = c
    OBVIOUS
  <1> HIDE DEF n
  <1> QED BY <1>1, <1>2 DEF DeadPairs, PairOf

LEMMA RefinementInit == Init => Promise!Init
  BY DEF Init, Promise!Init, LivePairs, DeadPairs

LEMMA RefinementNext ==
  ASSUME IInv, IInv', [Next]_vars
  PROVE  [Promise!Next]_Promise!vars
  <1> USE DEF IInv
  <1> DEFINE Same == UNCHANGED <<accepted, handled, LivePairs, DeadPairs>>
  <1>0. Same => [Promise!Next]_Promise!vars
    BY DEF Promise!vars
  <1> HIDE DEF Same
  <1>1. ASSUME NEW m \in Messages, NEW k, NEW T, T \subseteq Queues,
               Post(m, k, T)
        PROVE  [Promise!Next]_Promise!vars
    <2> DEFINE S == {m} \X (T \cap Durable)
    <2>1. LivePairs' = LivePairs \cup S
      <3> DEFINE gone == {}
      <3>1. Enqueue(m, k, 0, NoReason, T) /\ unacked' = unacked \ gone
        BY <1>1 DEF Post
      <3>2. \A c \in gone : c.queue \in Durable => PairOf(c) \in {m} \X T
        OBVIOUS
      <3> HIDE DEF gone
      <3> QED BY <3>1, <3>2, EnqueueLive
    <2>2. accepted' = accepted \cup S /\ handled' = handled /\ dlq' = dlq
      BY <1>1 DEF Post, Enqueue
    <2>3. S \in SUBSET DurablePairs
      BY <1>1 DEF DurablePairs, Durable
    <2>4. Promise!Accept(S)
      BY <2>1, <2>2, SameDead DEF Promise!Accept
    <2> QED BY <2>3, <2>4 DEF Promise!Next
  <1>2. ASSUME NEW m \in Messages, NEW t \in Topics, Publish(m, t)
        PROVE  [Promise!Next]_Promise!vars
    BY <1>1, <1>2, RetryDeliveryAssumption DEF Publish, Keys
  <1>3. ASSUME NEW m \in Messages, NEW q \in Queues, Send(m, q)
        PROVE  [Promise!Next]_Promise!vars
    BY <1>1, <1>3 DEF Send
  <1>4. ASSUME NEW q \in Queues, Subscribe(q) PROVE Same
    BY <1>4, SameLive, SameDead DEF Subscribe, Same
  <1>5. ASSUME NEW q \in Queues, Cancel(q) PROVE Same
    BY <1>5, SameLive, SameDead DEF Cancel, Same
  <1>6. ASSUME NEW c \in queued, Deliver(c) PROVE Same
    BY <1>6, SameLive, SameDead DEF Deliver, Same
  <1>7. ASSUME NEW c \in queued \cup unacked, NEW w, Bury(c, w),
               queued' \cup unacked' = (queued \cup unacked) \ {c},
               UNCHANGED <<accepted, handled>>
        PROVE  [Promise!Next]_Promise!vars
    <2>1. CASE c.queue \in Durable
      <3> DEFINE p == PairOf(c)
      <3>1. p \in DurablePairs
        BY <2>1, DurablePair DEF TypeOK
      <3>2. /\ p \in LivePairs
            /\ LivePairs' \in {LivePairs, LivePairs \ {p}}
        BY <1>7, <2>1, DepartLive
      <3>3. DeadPairs' = DeadPairs \cup {p}
        BY <1>7, <2>1, BuryDead
      <3> HIDE DEF p
      <3>4. Promise!Bury(p)
        BY <1>7, <3>2, <3>3 DEF Promise!Bury
      <3> QED BY <3>1, <3>4 DEF Promise!Next
    <2>2. CASE c.queue \notin Durable
      <3>1. dlq' = dlq
        BY <1>7, <2>2 DEF Bury
      <3> QED BY <1>0, <1>7, <2>2, <3>1, SameLive, SameDead DEF Same
    <2> QED BY <2>1, <2>2
  <1>8. ASSUME NEW c \in queued, Expire(c)
        PROVE  [Promise!Next]_Promise!vars
    <2>1. queued' \cup unacked' = (queued \cup unacked) \ {c}
      BY <1>8 DEF Expire, Settlement
    <2> QED BY <1>7, <1>8, <2>1 DEF Expire
  <1>9. ASSUME NEW k \in calls, CallStep(k)
        PROVE  [Promise!Next]_Promise!vars
    <2> DEFINE c == k.copy
               p == PairOf(c)
    <2>0. c \in Copy /\ k \in Call
      BY CallTyped
    <2>1. CASE HandlerReturns(k)
      <3>1. /\ handled' = handled \cup {p}
            /\ UNCHANGED <<accepted, queued, unacked, dlq>>
        BY <2>1 DEF HandlerReturns
      <3>2. UNCHANGED <<LivePairs, DeadPairs>>
        BY <3>1, SameLive, SameDead
      <3>3. CASE c.queue \in Durable
        <4>1. p \in DurablePairs /\ p \in accepted
          BY <2>0, <3>3, DurablePair DEF Accounting, Known
        <4>2. Promise!Handle(p)
          BY <3>1, <3>2, <4>1 DEF Promise!Handle
        <4> QED BY <4>1, <4>2 DEF Promise!Next
      <3>4. CASE c.queue \notin Durable
        <4>1. p \notin DurablePairs
          BY <3>4 DEF PairOf, DurablePairs
        <4> QED BY <3>1, <3>2, <4>1 DEF Promise!vars
      <3> QED BY <3>3, <3>4
    <2>2. ASSUME NEW r \in Reasons, HandlerThrows(k, r)
          PROVE  [Promise!Next]_Promise!vars
      BY <1>0, <2>2, SameLive, SameDead DEF HandlerThrows, Same
    <2>3. CASE Ack(k)
      <3>1. /\ c \in unacked /\ c \notin queued
            /\ queued' \cup unacked' = (queued \cup unacked) \ {c}
            /\ UNCHANGED <<accepted, handled, dlq>>
            /\ p \in handled
        BY <2>3
        DEF Ack, Settled, Settlement, DeliveriesAreSettledOnce, Accounting
      <3>2. CASE c.queue \in Durable
        <4>1. p \in DurablePairs
          BY <2>0, <3>2, DurablePair
        <4>2. /\ p \in LivePairs
              /\ LivePairs' \in {LivePairs, LivePairs \ {p}}
          BY <3>1, <3>2, DepartLive
        <4>3. DeadPairs' = DeadPairs
          BY <3>1, SameDead
        <4> HIDE DEF p
        <4>4. Promise!Retire(p)
          BY <3>1, <4>1, <4>2, <4>3 DEF Promise!Retire
        <4> QED BY <4>1, <4>4 DEF Promise!Next
      <3>3. CASE c.queue \notin Durable
        BY <1>0, <3>1, <3>3, SameLive, SameDead DEF Same
      <3> QED BY <3>2, <3>3
    <2>4. CASE AckThrows(k)
      BY <1>0, <2>4, SameLive, SameDead DEF AckThrows, Same
    <2>5. CASE Retry(k)
      <3> DEFINE T == Bind[c.key] \cap Existing
                 S == {c.msg} \X (T \cap Durable)
                 gone == IF OnItsChannel(k) THEN {c} ELSE {}
      <3>1. Enqueue(c.msg, c.key, c.retry + 1, k.why, T)
        BY <2>5 DEF Retry, RetryAs
      <3>2. unacked' = unacked \ gone
        BY <2>5 DEF Retry, RetryAs, Settled
      <3>3. \A d \in gone : d.queue \in Durable => PairOf(d) \in {c.msg} \X T
        BY <2>5 DEF Retry, RetryAs, PairOf, Accounting, Known, Existing
      <3>4. T \subseteq Queues /\ c.msg \in Messages
        BY CallTyped
      <3> HIDE DEF T, gone
      <3>5. LivePairs' = LivePairs \cup S
        BY <3>1, <3>2, <3>3, EnqueueLive
      <3>6. accepted' = accepted \cup S
        BY <3>1 DEF Enqueue
      <3>7. handled' = handled /\ DeadPairs' = DeadPairs
        BY <2>5, SameDead DEF Retry, RetryAs
      <3>8. S \in SUBSET DurablePairs
        BY <3>4 DEF DurablePairs
      <3> HIDE DEF S
      <3>9. Promise!Accept(S)
        BY <3>5, <3>6, <3>7 DEF Promise!Accept
      <3> QED BY <3>8, <3>9 DEF Promise!Next
    <2>6. CASE RetryFails(k) \/ GiveUp(k)
      <3>1. CASE OnItsChannel(k)
        <4>1. /\ c \in unacked /\ c \notin queued
              /\ queued' \cup unacked' = (queued \cup unacked) \ {c}
          BY <2>6, <3>1
          DEF RetryFails, GiveUp, Settled, Settlement, DeliveriesAreSettledOnce
        <4> QED BY <1>7, <2>6, <3>1, <4>1 DEF RetryFails, GiveUp
      <3>2. CASE ~OnItsChannel(k)
        BY <1>0, <2>6, <3>2, SameLive, SameDead
        DEF RetryFails, GiveUp, Settled, Same
      <3> QED BY <3>1, <3>2
    <2> QED BY <1>9, <2>1, <2>2, <2>3, <2>4, <2>5, <2>6 DEF CallStep
  <1>10. CASE Detach \/ ChannelLost
    <2>1. CASE Detach
      BY <1>0, <2>1, SameLive, SameDead DEF Detach, Same
    <2>2. CASE ChannelLost
      <3>1. Same
        BY <2>2, SameLive, SameDead DEF ChannelLost, Same
      <3> QED BY <1>0, <3>1
    <2> QED BY <1>10, <2>1, <2>2
  <1>11. CASE Reconnect
    BY <1>0, <1>11, SameLive, SameDead DEF Reconnect, Same
  <1>12. CASE UNCHANGED vars
    BY <1>0, <1>12, SameLive, SameDead DEF vars, Same
  <1> QED
    BY <1>0, <1>2, <1>3, <1>4, <1>5, <1>6, <1>8, <1>9, <1>10, <1>11, <1>12
    DEF Next, Publishing

(***************************************************************************)
(* RetryDelivery implements Delivery: seen through the durable queues, all *)
(* that publish, the retry wrapper, dead-lettering, expiry and lost        *)
(* channels do is accept, handle, bury and retire messages.                *)
(***************************************************************************)
THEOREM Refinement == ASSUME RetriesReturn PROVE Spec => ImplementsDelivery
  <1>1. Init => IInv /\ Promise!Init
    BY InvariantInit, RefinementInit
  <1>2. IInv /\ [Next]_vars => IInv'
    BY InvariantNext
  <1>3. IInv /\ IInv' /\ [Next]_vars => [Promise!Next]_Promise!vars
    BY RefinementNext
  <1> QED BY <1>1, <1>2, <1>3, PTL DEF Spec, ImplementsDelivery, Promise!Spec

(***************************************************************************)
(* At-least-once delivery (requirement 6.2), from the abstract steps: of a *)
(* message that a durable queue accepted there is always a copy queued,    *)
(* unacknowledged or dead-lettered, or a handler has succeeded on it.      *)
(***************************************************************************)
THEOREM AtLeastOnce == ASSUME RetriesReturn PROVE Spec => []NeverForgotten
  <1> DEFINE Kept == Promise!NeverForgotten
  <1>1. Promise!Init => Kept
    BY DEF Promise!Init, Promise!NeverForgotten
  <1>2. Kept /\ [Promise!Next]_Promise!vars => Kept'
    <2> SUFFICES ASSUME Promise!NeverForgotten, [Promise!Next]_Promise!vars
                 PROVE  Promise!NeverForgotten'
      OBVIOUS
    <2>1. ASSUME NEW S \in SUBSET DurablePairs, Promise!Accept(S)
          PROVE  Promise!NeverForgotten'
      BY <2>1 DEF Promise!Accept, Promise!NeverForgotten
    <2>2. ASSUME NEW p \in DurablePairs, Promise!Handle(p)
          PROVE  Promise!NeverForgotten'
      BY <2>2 DEF Promise!Handle, Promise!NeverForgotten
    <2>3. ASSUME NEW p \in DurablePairs, Promise!Bury(p)
          PROVE  Promise!NeverForgotten'
      BY <2>3 DEF Promise!Bury, Promise!NeverForgotten
    <2>4. ASSUME NEW p \in DurablePairs, Promise!Retire(p)
          PROVE  Promise!NeverForgotten'
      BY <2>4 DEF Promise!Retire, Promise!NeverForgotten
    <2>5. CASE UNCHANGED Promise!vars
      BY <2>5 DEF Promise!vars, Promise!NeverForgotten
    <2> QED BY <2>1, <2>2, <2>3, <2>4, <2>5 DEF Promise!Next
  <1>3. Kept => NeverForgotten
    BY DEF Promise!NeverForgotten, NeverForgotten
  <1>4. Spec => Promise!Spec
    BY Refinement DEF ImplementsDelivery
  <1> QED BY <1>1, <1>2, <1>3, <1>4, PTL DEF Promise!Spec

-----------------------------------------------------------------------------
(***************************************************************************)
(* Numbers.  The principle of the least number takes the place of an       *)
(* induction; Budget and Doubled are the functions their definitions say.  *)
(***************************************************************************)
LEMMA LeastNumber ==
  ASSUME NEW T \in SUBSET Nat, T # {}
  PROVE  \E x \in T : \A y \in T : x <= y
  <1> DEFINE R == OpToRel(<, Nat)
  <1>1. IsWellFoundedOn(R, Nat)
    BY NatLessThanWellFounded
  <1>2. \A x, y \in Nat : y < x => <<y, x>> \in R
    BY DEF OpToRel
  <1> HIDE DEF R
  <1>3. PICK x \in T : \A y \in T : <<y, x>> \notin R
    BY <1>1, WFMin
  <1>4. \A y \in T : x \in Nat /\ y \in Nat /\ ~(y < x)
    BY <1>2, <1>3
  <1> QED BY <1>3, <1>4

\* What holds of 0 and passes from each number to the next.
LEMMA EveryNumber ==
  ASSUME NEW S \in SUBSET Nat, 0 \in S, \A n \in S : n + 1 \in S
  PROVE  \A n \in Nat : n \in S
  <1> DEFINE T == Nat \ S
  <1> SUFFICES ASSUME T # {} PROVE FALSE
    OBVIOUS
  <1>1. PICK x \in T : \A y \in T : x <= y
    <2>1. T \in SUBSET Nat
      OBVIOUS
    <2> HIDE DEF T
    <2> QED BY <2>1, LeastNumber
  <1>2. x - 1 \in Nat /\ x - 1 \notin T
    BY <1>1
  <1>3. x - 1 \in S
    BY <1>2
  <1>4. (x - 1) + 1 = x
    BY <1>1
  <1>5. x \in S
    BY <1>3, <1>4
  <1> QED BY <1>1, <1>5

\* g begins with 1 and goes on by next, as far as n.
Tally(next, n, g) ==
  g \in [0..n -> Nat] /\ g[0] = 1 /\ \A i \in 1..n : g[i] = next[g[i - 1]]

LEMMA TallyThere ==
  ASSUME NEW next \in [Nat -> Nat]
  PROVE  \A n \in Nat : \E g : Tally(next, n, g)
  <1> DEFINE T == {i \in Nat : \E g : Tally(next, i, g)}
  <1>1. 0 \in T
    <2>1. Tally(next, 0, [i \in 0..0 |-> 1])
      BY DEF Tally
    <2> QED BY <2>1
  <1>2. ASSUME NEW n \in T PROVE n + 1 \in T
    <2>0. n \in Nat /\ \E g : Tally(next, n, g)
      OBVIOUS
    <2>1. PICK g : Tally(next, n, g)
      BY <2>0
    <2> DEFINE x == n + 1
               h == [i \in 0..x |-> IF i = x THEN next[g[n]] ELSE g[i]]
    <2> HIDE DEF T
    <2>2. (\A i \in 0..n : g[i] \in Nat) /\ next[g[n]] \in Nat
      <3>1. g \in [0..n -> Nat]
        BY <2>1 DEF Tally
      <3>2. \A i \in 0..n : g[i] \in Nat
        BY <3>1
      <3>3. g[n] \in Nat
        BY <2>0, <3>2
      <3> QED BY <3>2, <3>3
    <2>3. h \in [0..x -> Nat] /\ h[0] = 1
      <3>1. h \in [0..x -> Nat]
        BY <2>0, <2>2
      <3>2. 0 \in 0..x /\ 0 # x /\ g[0] = 1
        BY <2>0, <2>1 DEF Tally
      <3> QED BY <3>1, <3>2
    <2>4. ASSUME NEW i \in 1..x PROVE h[i] = next[h[i - 1]]
      <3>1. i - 1 \in 0..n /\ h[i - 1] = g[i - 1]
        BY <2>0
      <3>2. CASE i = x
        BY <2>0, <3>1, <3>2
      <3>3. CASE i # x
        BY <2>0, <2>1, <3>1, <3>3 DEF Tally
      <3> QED BY <3>2, <3>3
    <2> HIDE DEF h
    <2>5. Tally(next, x, h)
      BY <2>3, <2>4 DEF Tally
    <2> QED BY <2>0, <2>5 DEF T
  <1>3. T \in SUBSET Nat
    OBVIOUS
  <1> HIDE DEF T
  <1>4. \A n \in Nat : n \in T
    BY <1>1, <1>2, <1>3, EveryNumber
  <1> QED BY <1>4 DEF T

LEMMA TallyUnique ==
  ASSUME NEW next, NEW m \in Nat, NEW n \in Nat, NEW g, NEW h,
         Tally(next, m, g), Tally(next, n, h)
  PROVE  \A j \in Nat : j <= m /\ j <= n => g[j] = h[j]
  <1> DEFINE T == {j \in Nat : j <= m /\ j <= n => g[j] = h[j]}
  <1>1. 0 \in T
    BY DEF Tally
  <1>2. ASSUME NEW j \in T PROVE j + 1 \in T
    <2> SUFFICES ASSUME j + 1 <= m, j + 1 <= n PROVE g[j + 1] = h[j + 1]
      OBVIOUS
    <2>1. g[j] = h[j]
      OBVIOUS
    <2>2. j + 1 \in 1..m /\ j + 1 \in 1..n /\ (j + 1) - 1 = j
      OBVIOUS
    <2> HIDE DEF T
    <2> QED BY <2>1, <2>2 DEF Tally
  <1>3. T \in SUBSET Nat
    OBVIOUS
  <1> HIDE DEF T
  <1>4. \A j \in Nat : j \in T
    BY <1>1, <1>2, <1>3, EveryNumber
  <1> QED BY <1>4 DEF T

\* There is a function that begins with 1 and goes on by next.
LEMMA StepsThere ==
  ASSUME NEW next \in [Nat -> Nat]
  PROVE  \E b \in [Nat -> Nat] : b[0] = 1 /\ \A n \in Nat : b[n + 1] = next[b[n]]
  <1> DEFINE Part(n) == CHOOSE g : Tally(next, n, g)
             b == [n \in Nat |-> Part(n)[n]]
  <1>1. \A n \in Nat : Tally(next, n, Part(n))
    BY TallyThere
  <1> HIDE DEF Part
  <1>2. b \in [Nat -> Nat]
    BY <1>1 DEF Tally
  <1>3. b[0] = 1
    BY <1>1 DEF Tally
  <1>4. ASSUME NEW n \in Nat PROVE b[n + 1] = next[b[n]]
    <2>1. n + 1 \in Nat /\ Tally(next, n, Part(n)) /\ Tally(next, n + 1, Part(n + 1))
      BY <1>1
    <2>2. Part(n + 1)[n] = Part(n)[n]
      BY <2>1, TallyUnique
    <2>3. n + 1 \in 1..(n + 1) /\ (n + 1) - 1 = n
      OBVIOUS
    <2>4. Part(n + 1)[n + 1] = next[Part(n + 1)[n]]
      BY <2>1, <2>3 DEF Tally
    <2> QED BY <2>1, <2>2, <2>4
  <1> HIDE DEF b
  <1> QED BY <1>2, <1>3, <1>4

\* Two functions that begin alike and go on alike are one.
LEMMA StepsAlike ==
  ASSUME NEW b, NEW f, f[0] = b[0], \A n \in Nat : f[n] = b[n] => f[n + 1] = b[n + 1]
  PROVE  \A n \in Nat : f[n] = b[n]
  <1> DEFINE T == {n \in Nat : f[n] = b[n]}
  <1>1. 0 \in T /\ \A n \in T : n + 1 \in T
    OBVIOUS
  <1>2. T \in SUBSET Nat
    OBVIOUS
  <1> HIDE DEF T
  <1>3. \A n \in Nat : n \in T
    BY <1>1, <1>2, EveryNumber
  <1> QED BY <1>3 DEF T

\* One more round of retries.
Round(v) == 1 + Fan * v

LEMMA BudgetRounds ==
  ASSUME Fan \in Nat
  PROVE  /\ Budget \in [Nat -> Nat]
         /\ Budget[0] = 1
         /\ \A n \in Nat : Budget[n + 1] = Round(Budget[n])
  <1>1. [v \in Nat |-> Round(v)] \in [Nat -> Nat]
    BY DEF Round
  <1>2. PICK b \in [Nat -> Nat] : b[0] = 1 /\ \A n \in Nat : b[n + 1] = Round(b[n])
    <2>1. PICK b \in [Nat -> Nat] :
            b[0] = 1 /\ \A n \in Nat : b[n + 1] = [v \in Nat |-> Round(v)][b[n]]
      BY <1>1, StepsThere
    <2> QED BY <2>1
  <1>3. b = [n \in Nat |-> IF n = 0 THEN 1 ELSE 1 + Fan * b[n - 1]]
    <2>1. \A n \in Nat : b[n] = IF n = 0 THEN 1 ELSE 1 + Fan * b[n - 1]
      <3> SUFFICES ASSUME NEW n \in Nat, n # 0 PROVE b[n] = 1 + Fan * b[n - 1]
        BY <1>2
      <3>1. n - 1 \in Nat /\ (n - 1) + 1 = n
        OBVIOUS
      <3> QED BY <1>2, <3>1 DEF Round
    <2> QED BY <1>2, <2>1
  <1>4. Budget = [n \in Nat |-> IF n = 0 THEN 1 ELSE 1 + Fan * Budget[n - 1]]
    BY <1>3 DEF Budget
  <1>5. Budget[0] = 1
    BY <1>4
  <1>6. \A n \in Nat : Budget[n + 1] = Round(Budget[n])
    <2> SUFFICES ASSUME NEW n \in Nat PROVE Budget[n + 1] = Round(Budget[n])
      OBVIOUS
    <2>1. n + 1 \in Nat /\ n + 1 # 0 /\ (n + 1) - 1 = n
      OBVIOUS
    <2> QED BY <1>4, <2>1 DEF Round
  <1>7. \A n \in Nat : Budget[n] = b[n]
    <2>1. \A n \in Nat : Budget[n] = b[n] => Budget[n + 1] = b[n + 1]
      BY <1>2, <1>6
    <2> QED BY <1>2, <1>5, <2>1, StepsAlike
  <1>8. Budget = b
    BY <1>2, <1>4, <1>7
  <1> QED BY <1>2, <1>8

LEMMA Doubling ==
  /\ Doubled \in [Nat -> Nat]
  /\ Doubled[0] = 1
  /\ \A n \in Nat : Doubled[n + 1] = 2 * Doubled[n] /\ 1 <= Doubled[n]
  /\ \A m, n \in Nat : Doubled[n] <= Doubled[m + n]
  <1>1. [v \in Nat |-> 2 * v] \in [Nat -> Nat]
    OBVIOUS
  <1>2. PICK b \in [Nat -> Nat] : b[0] = 1 /\ \A n \in Nat : b[n + 1] = 2 * b[n]
    <2>1. PICK b \in [Nat -> Nat] :
            b[0] = 1 /\ \A n \in Nat : b[n + 1] = [v \in Nat |-> 2 * v][b[n]]
      BY <1>1, StepsThere
    <2> QED BY <2>1
  <1>3. b = [n \in Nat |-> IF n = 0 THEN 1 ELSE 2 * b[n - 1]]
    <2>1. \A n \in Nat : b[n] = IF n = 0 THEN 1 ELSE 2 * b[n - 1]
      <3> SUFFICES ASSUME NEW n \in Nat, n # 0 PROVE b[n] = 2 * b[n - 1]
        BY <1>2
      <3>1. n - 1 \in Nat /\ (n - 1) + 1 = n
        OBVIOUS
      <3> QED BY <1>2, <3>1
    <2> QED BY <1>2, <2>1
  <1>4. Doubled = [n \in Nat |-> IF n = 0 THEN 1 ELSE 2 * Doubled[n - 1]]
    BY <1>3 DEF Doubled
  <1>5. Doubled[0] = 1
    BY <1>4
  <1>6. \A n \in Nat : Doubled[n + 1] = 2 * Doubled[n]
    <2> SUFFICES ASSUME NEW n \in Nat PROVE Doubled[n + 1] = 2 * Doubled[n]
      OBVIOUS
    <2>1. n + 1 \in Nat /\ n + 1 # 0 /\ (n + 1) - 1 = n
      OBVIOUS
    <2> QED BY <1>4, <2>1
  <1>7. \A n \in Nat : Doubled[n] = b[n]
    <2>1. \A n \in Nat : Doubled[n] = b[n] => Doubled[n + 1] = b[n + 1]
      BY <1>2, <1>6
    <2> QED BY <1>2, <1>5, <2>1, StepsAlike
  <1>8. Doubled = b
    BY <1>2, <1>4, <1>7
  <1>9. Doubled \in [Nat -> Nat]
    BY <1>8
  <1>10. \A n \in Nat : 1 <= Doubled[n]
    <2> DEFINE T == {n \in Nat : 1 <= Doubled[n]}
    <2>1. 0 \in T /\ \A n \in T : n + 1 \in T
      BY <1>5, <1>6, <1>9
    <2>2. T \in SUBSET Nat
      OBVIOUS
    <2> HIDE DEF T
    <2>3. \A n \in Nat : n \in T
      BY <2>1, <2>2, EveryNumber
    <2> QED BY <2>3 DEF T
  <1>11. ASSUME NEW n \in Nat PROVE \A m \in Nat : Doubled[n] <= Doubled[m + n]
    <2> DEFINE T == {m \in Nat : Doubled[n] <= Doubled[m + n]}
    <2>1. 0 \in T
      BY <1>9
    <2>2. ASSUME NEW m \in T PROVE m + 1 \in T
      <3>1. m + n \in Nat /\ (m + 1) + n = (m + n) + 1 /\ (m + n) + 1 \in Nat
        OBVIOUS
      <3>2. Doubled[(m + 1) + n] = 2 * Doubled[m + n]
        BY <1>6, <3>1
      <3>3. Doubled[m + n] \in Nat /\ Doubled[n] \in Nat
        BY <1>9, <3>1
      <3> QED BY <3>2, <3>3
    <2>3. T \in SUBSET Nat
      OBVIOUS
    <2> HIDE DEF T
    <2>4. \A m \in Nat : m \in T
      BY <2>1, <2>2, <2>3, EveryNumber
    <2> QED BY <2>4 DEF T
  <1> QED BY <1>5, <1>6, <1>9, <1>10, <1>11

\* Fan is what it says, if there is a queue at all.
LEMMA FanBounds ==
  ASSUME Keys # {}
  PROVE  Fan \in Nat /\ \A k \in Keys : Cardinality(Bind[k]) <= Fan
  <1> DEFINE M == Cardinality(Queues)
             T == {n \in 0..M : \A k \in Keys : Cardinality(Bind[k]) <= n}
             Right(n) == /\ \E k \in Keys : Cardinality(Bind[k]) = n
                         /\ \A k \in Keys : Cardinality(Bind[k]) <= n
  <1>1. M \in Nat /\ \A k \in Keys : Cardinality(Bind[k]) \in Nat /\ Cardinality(Bind[k]) <= M
    <2>1. IsFiniteSet(Queues) /\ \A k \in Keys : Bind[k] \in SUBSET Queues
      BY RetryDeliveryAssumption
    <2>2. \A k \in Keys : IsFiniteSet(Bind[k]) /\ Cardinality(Bind[k]) <= M
      BY <2>1, FS_Subset
    <2> QED BY <2>1, <2>2, FS_CardinalityType
  <1>2. M \in T
    BY <1>1
  <1> HIDE DEF M
  <1>3. PICK n \in T : \A y \in T : n <= y
    <2>1. T \in SUBSET Nat
      BY <1>1
    <2> HIDE DEF T
    <2> QED BY <1>2, <2>1, LeastNumber
  <1>4. n \in 0..M /\ \A k \in Keys : Cardinality(Bind[k]) <= n
    OBVIOUS
  <1>5. \E k \in Keys : Cardinality(Bind[k]) = n
    <2> SUFFICES ASSUME \A k \in Keys : Cardinality(Bind[k]) # n PROVE FALSE
      OBVIOUS
    <2>1. \A k \in Keys : Cardinality(Bind[k]) <= n - 1 /\ 0 <= n - 1
      BY <1>1, <1>4
    <2>2. n - 1 \in T
      BY <1>1, <1>4, <2>1
    <2> QED BY <1>1, <1>3, <1>4, <2>2
  <1>6. Fan \in 0..M /\ Right(Fan)
    <2>1. \E i \in 0..M : Right(i)
      BY <1>4, <1>5
    <2> HIDE DEF Right
    <2>2. Fan = CHOOSE i \in 0..M : Right(i)
      BY DEF Fan, M, Right
    <2> QED BY <2>1, <2>2
  <1> QED BY <1>1, <1>6
-----------------------------------------------------------------------------
(***************************************************************************)
(* Retries are bounded.  The argument counts the deliveries still owed, if *)
(* l more channels are lost.  A copy with r retries behind it owes a queue *)
(* Weight(r) deliveries through its retry, and one of its own if that is   *)
(* its queue: its Share.  A loss may put it back in its queue while a call *)
(* on it still retries, so a queued copy owes its share as often as l      *)
(* doublings say, an unacknowledged one as often as l - 1, and the call on *)
(* it the rest.  Owed(p, l) has one element for each: those of a copy have *)
(* 0 in the second place, those of a call its epoch and one.               *)
(***************************************************************************)
Weight(r) == IF r < MaxRetries /\ Fan > 0 THEN Budget[MaxRetries - r - 1] ELSE 0

Share(c, q) == Weight(c.retry) + (IF c.queue = q THEN 1 ELSE 0)

Requeued(l) == IF l = 0 THEN 0 ELSE Doubled[l - 1]

CopyTimes(c, l) == IF c \in queued THEN Doubled[l] ELSE Requeued(l)
CallTimes(k, l) == IF OnItsChannel(k) THEN Doubled[l] - Requeued(l) ELSE Doubled[l]

CopyOwes(t, q, l) ==
  /\ t[2] = 0 /\ t[1] \in queued \cup unacked
  /\ t[3] \in 1..CopyTimes(t[1], l) * Share(t[1], q)

CallOwes(t, l) ==
  \E k \in calls : /\ t[1] = k.copy /\ t[2] = k.epoch + 1
                   /\ t[3] \in 1..CallTimes(k, l) * Weight(k.copy.retry)

Owed(p, l) ==
  {t \in Copy \X Nat \X Nat :
     t[1].msg = p[1] /\ l \in Nat /\ (CopyOwes(t, p[2], l) \/ CallOwes(t, l))}

\* Of n channels still to be lost, the present one may be lost already.
Left(n) == IF channel # "closed" THEN n ELSE n - 1

Fits(p, l, n) ==
  /\ IsFiniteSet(Owed(p, l))
  /\ deliveries[p] + Cardinality(Owed(p, l)) <= Doubled[epoch + n] * Budget[MaxRetries]

Affordable ==
  \A n \in Nat, l \in Int, p \in Pairs : l = Left(n) => Fits(p, l, n)

Unsent ==
  /\ \A c \in queued \cup unacked : c.msg \in sent
  /\ \A k \in calls : k.copy.msg \in sent
  /\ \A p \in Pairs : p[1] \notin sent => deliveries[p] = 0

Thrift == Unsent /\ Affordable

LEMMA WeightSteps ==
  ASSUME Fan \in Nat
  PROVE  /\ \A r \in 0..MaxRetries : Weight(r) \in Nat
         /\ 1 + Fan * Weight(0) <= Budget[MaxRetries]
         /\ \A r \in 0..MaxRetries : r < MaxRetries /\ Fan > 0
              => 1 + Fan * Weight(r + 1) <= Weight(r)
         /\ Budget[MaxRetries] \in Nat /\ 1 <= Budget[MaxRetries]
  <1>1. MaxRetries \in Nat
    BY RetryDeliveryAssumption
  <1>2. /\ Budget \in [Nat -> Nat] /\ Budget[0] = 1
        /\ \A n \in Nat : Budget[n + 1] = Round(Budget[n])
    BY BudgetRounds
  <1>3. \A r \in 0..MaxRetries : Weight(r) \in Nat
    BY <1>1, <1>2 DEF Weight
  <1>4. \A n \in Nat : n # 0 => Budget[n] = Round(Budget[n - 1]) /\ Budget[n - 1] \in Nat
    <2> SUFFICES ASSUME NEW n \in Nat, n # 0
                 PROVE  Budget[n] = Round(Budget[n - 1]) /\ Budget[n - 1] \in Nat
      OBVIOUS
    <2>1. n - 1 \in Nat /\ (n - 1) + 1 = n
      OBVIOUS
    <2> QED BY <1>2, <2>1
  <1>5. \A n \in Nat : 1 <= Budget[n]
    <2> SUFFICES ASSUME NEW n \in Nat PROVE 1 <= Budget[n]
      OBVIOUS
    <2>1. CASE n = 0
      BY <1>2, <2>1
    <2>2. CASE n # 0
      <3>1. Budget[n] = 1 + Fan * Budget[n - 1] /\ Budget[n - 1] \in Nat
        BY <1>4, <2>2 DEF Round
      <3>2. Fan * Budget[n - 1] \in Nat
        BY <3>1
      <3> QED BY <3>1, <3>2
    <2> QED BY <2>1, <2>2
  <1>6. 1 + Fan * Weight(0) <= Budget[MaxRetries]
    <2>1. CASE MaxRetries = 0 \/ Fan = 0
      <3>1. Weight(0) = 0 \/ Fan = 0
        BY <1>1, <2>1 DEF Weight
      <3>2. Fan * Weight(0) = 0
        BY <1>1, <1>3, <3>1
      <3> QED BY <1>1, <1>5, <3>2
    <2>2. CASE MaxRetries # 0 /\ Fan # 0
      <3>1. Weight(0) = Budget[MaxRetries - 1]
        BY <1>1, <2>2 DEF Weight
      <3>2. Budget[MaxRetries] = Round(Budget[MaxRetries - 1]) /\ Budget[MaxRetries] \in Nat
        BY <1>1, <1>2, <1>4, <2>2
      <3> QED BY <3>1, <3>2 DEF Round
    <2> QED BY <2>1, <2>2
  <1>7. ASSUME NEW r \in 0..MaxRetries, r < MaxRetries, Fan > 0
        PROVE  1 + Fan * Weight(r + 1) <= Weight(r)
    <2> DEFINE n == MaxRetries - r - 1
    <2>1. n \in Nat /\ Weight(r) = Budget[n] /\ Budget[n] \in Nat
      BY <1>1, <1>2, <1>7 DEF Weight
    <2>2. CASE n = 0
      <3>1. Weight(r + 1) = 0 /\ Fan * 0 = 0
        BY <1>1, <1>7, <2>2 DEF Weight
      <3> QED BY <1>2, <2>1, <2>2, <3>1
    <2>3. CASE n # 0
      <3>1. r + 1 < MaxRetries /\ MaxRetries - (r + 1) - 1 = n - 1
        BY <1>1, <1>7, <2>1, <2>3
      <3>2. Weight(r + 1) = Budget[n - 1]
        BY <1>7, <3>1 DEF Weight
      <3>3. Budget[n] = 1 + Fan * Budget[n - 1]
        BY <1>4, <2>1, <2>3 DEF Round
      <3> QED BY <2>1, <3>2, <3>3
    <2> QED BY <2>2, <2>3
  <1> QED BY <1>1, <1>2, <1>3, <1>5, <1>6, <1>7

\* There is a queue, hence a budget.
LEMMA Budgeted ==
  ASSUME TypeOK, NEW p \in Pairs
  PROVE  /\ deliveries[p] \in Nat /\ Budget[MaxRetries] \in Nat
         /\ Fan \in Nat /\ \A k \in Keys : Cardinality(Bind[k]) <= Fan
         /\ \A r \in 0..MaxRetries : Weight(r) \in Nat
  <1>1. Keys # {}
    BY DEF Pairs, Keys
  <1> QED BY <1>1, FanBounds, WeightSteps DEF TypeOK

LEMMA SomeWeight ==
  ASSUME TypeOK, NEW c \in Copy
  PROVE  c.queue \in Queues /\ c.retry \in 0..MaxRetries /\ Weight(c.retry) \in Nat
  <1>1. <<c.msg, c.queue>> \in Pairs /\ c.retry \in 0..MaxRetries
    BY DEF Copy, Pairs
  <1>2. \A r \in 0..MaxRetries : Weight(r) \in Nat
    BY <1>1, Budgeted
  <1> QED BY <1>1, <1>2 DEF Copy

LEMMA ShareTyped ==
  ASSUME TypeOK, NEW c \in Copy, NEW q
  PROVE  /\ Share(c, q) \in Nat /\ Weight(c.retry) <= Share(c, q)
         /\ c.queue = q => Share(c, q) = Weight(c.retry) + 1
  BY SomeWeight DEF Share

LEMMA WithinBudget ==
  ASSUME TypeOK, NEW p \in Pairs, NEW n \in Nat
  PROVE  deliveries[p] \in Nat /\ Doubled[epoch + n] * Budget[MaxRetries] \in Nat
  <1>1. epoch + n \in Nat
    BY DEF TypeOK
  <1> QED BY <1>1, Budgeted, Doubling

\* How often a copy in either place, and the call on it, owe their share.
LEMMA TimesAre ==
  ASSUME NEW l \in Nat
  PROVE  /\ Doubled[l] \in Nat /\ Requeued(l) \in Nat
         /\ Requeued(l) + 1 <= Doubled[l]
         /\ l > 0 => Doubled[l] = 2 * Requeued(l) /\ Requeued(l) = Doubled[l - 1]
  <1>1. CASE l = 0
    BY <1>1, Doubling DEF Requeued
  <1>2. CASE l # 0
    <2>1. l - 1 \in Nat /\ (l - 1) + 1 = l
      BY <1>2
    <2>2. Doubled[l] = 2 * Doubled[l - 1] /\ Doubled[l - 1] \in Nat /\ 1 <= Doubled[l - 1]
      BY <2>1, Doubling
    <2>3. Requeued(l) = Doubled[l - 1]
      BY <1>2 DEF Requeued
    <2>4. Doubled[l] \in Nat
      BY Doubling
    <2> QED BY <2>2, <2>3, <2>4
  <1> QED BY <1>1, <1>2

\* Products of numbers, where the provers do not multiply.
LEMMA Grows ==
  ASSUME NEW x \in Nat, NEW a \in Nat, NEW b \in Nat, a <= b
  PROVE  /\ x * a \in Nat /\ x * b \in Nat /\ x * a <= x * b
         /\ a * x \in Nat /\ b * x \in Nat /\ a * x <= b * x
  OBVIOUS

LEMMA Splits ==
  ASSUME NEW x \in Nat, NEW y \in Nat, NEW a \in Nat
  PROVE  /\ (x + y) * a = x * a + y * a
         /\ x * (a + 1) = x * a + x
         /\ x * (1 + y * a) = x + y * (x * a)
  OBVIOUS

\* The elements of one copy or call.
Block(c, e, n) == {<<c, e, j>> : j \in 1..n}

LEMMA IntervalSize ==
  ASSUME NEW n \in Nat
  PROVE  IsFiniteSet(1..n) /\ Cardinality(1..n) = n
  BY FS_Interval

LEMMA BlockSize ==
  ASSUME NEW c, NEW e, NEW n \in Nat
  PROVE  IsFiniteSet(Block(c, e, n)) /\ Cardinality(Block(c, e, n)) = n
  <1> DEFINE f == [j \in 1..n |-> <<c, e, j>>]
  <1>1. f \in Bijection(1..n, Block(c, e, n))
    <2>1. f \in [1..n -> Block(c, e, n)]
      BY DEF Block
    <2>2. \A i, j \in 1..n : f[i] = f[j] => i = j
      OBVIOUS
    <2>3. \A t \in Block(c, e, n) : \E j \in 1..n : f[j] = t
      BY DEF Block
    <2> HIDE DEF f
    <2>4. f \in Injection(1..n, Block(c, e, n))
      BY <2>1, <2>2 DEF Injection, IsInjective
    <2>5. f \in Surjection(1..n, Block(c, e, n))
      BY <2>1, <2>3 DEF Surjection
    <2> QED BY <2>4, <2>5 DEF Bijection
  <1>2. IsFiniteSet(1..n) /\ Cardinality(1..n) = n
    BY IntervalSize
  <1>3. ExistsBijection(1..n, Block(c, e, n))
    BY <1>1 DEF ExistsBijection
  <1> QED BY <1>2, <1>3, FS_Bijection

\* Elements D of a set are exchanged for N, which are fewer by d.
LEMMA Exchange ==
  ASSUME NEW S, IsFiniteSet(S), NEW D \in SUBSET S, NEW N, IsFiniteSet(N),
         NEW d \in Nat, Cardinality(N) + d <= Cardinality(D),
         NEW R \in SUBSET ((S \ D) \cup N)
  PROVE  IsFiniteSet(R) /\ Cardinality(R) + d <= Cardinality(S)
  <1> DEFINE K == S \ D
  <1>1. IsFiniteSet(D) /\ S \cap D = D
    BY FS_Subset
  <1>2. IsFiniteSet(K) /\ Cardinality(K) = Cardinality(S) - Cardinality(S \cap D)
    BY FS_Difference
  <1> HIDE DEF K
  <1>3. /\ IsFiniteSet(K \cup N)
        /\ Cardinality(K \cup N) = Cardinality(K) + Cardinality(N) - Cardinality(K \cap N)
    BY <1>2, FS_Union
  <1>4. IsFiniteSet(K \cap N)
    BY <1>2, FS_Intersection
  <1>5. IsFiniteSet(R) /\ Cardinality(R) <= Cardinality(K \cup N)
    BY <1>3, FS_Subset DEF K
  <1>6. /\ Cardinality(S) \in Nat /\ Cardinality(D) \in Nat /\ Cardinality(N) \in Nat
        /\ Cardinality(K) \in Nat /\ Cardinality(K \cap N) \in Nat
        /\ Cardinality(K \cup N) \in Nat /\ Cardinality(R) \in Nat
    BY <1>1, <1>2, <1>3, <1>4, <1>5, FS_CardinalityType
  <1>7. Cardinality(K) = Cardinality(S) - Cardinality(D)
    BY <1>1, <1>2
  <1> QED BY <1>3, <1>5, <1>6, <1>7

\* What the copies new, of r retries, owe the queue q if they do so x times.
NewlyOwed(new, r, q, x) ==
  {<<c, 0, j>> : c \in new, j \in 1..x * Weight(r)}
    \cup {<<c, 0, x * Weight(r) + j>> : c \in {d \in new : d.queue = q}, j \in 1..x}

LEMMA NewlyOwedSmall ==
  ASSUME NEW m, NEW k, NEW r, NEW w, NEW T, IsFiniteSet(T), NEW q, NEW x \in Nat,
         Weight(r) \in Nat,
         NEW N, N = NewlyOwed(Copies(m, k, r, w, T), r, q, x)
  PROVE  /\ IsFiniteSet(N)
         /\ Cardinality(N) <= x + Cardinality(T) * (x * Weight(r))
         /\ T = {} => N = {}
  <1> DEFINE new == Copies(m, k, r, w, T)
             one(i) == [id |-> nextId, queue |-> i, msg |-> m, key |-> k,
                        retry |-> r, reason |-> w]
             n == x * Weight(r)
             A == {<<c, 0, j>> : c \in new, j \in 1..n}
             B == {<<c, 0, n + j>> : c \in {d \in new : d.queue = q}, j \in 1..x}
             f == [t \in T \X (1..n) |-> <<one(t[1]), 0, t[2]>>]
             g == [j \in 1..x |-> <<one(q), 0, n + j>>]
  <1>0. n \in Nat
    OBVIOUS
  <1>1. /\ \A c \in new : c.queue \in T /\ c = one(c.queue)
        /\ \A i \in T : one(i) \in new
    BY DEF Copies
  <1>2. N = A \cup B
    BY DEF NewlyOwed
  <1> HIDE DEF new, n
  <1>3. T = {} => N = {}
    BY <1>1, <1>2
  <1>4. IsFiniteSet(A) /\ Cardinality(A) <= Cardinality(T) * n
    <2>1. f \in Surjection(T \X (1..n), A)
      <3>1. ASSUME NEW t \in T \X (1..n) PROVE f[t] \in A
        <4>1. one(t[1]) \in new /\ t[2] \in 1..n
          BY <1>1
        <4>2. f[t] = <<one(t[1]), 0, t[2]>>
          OBVIOUS
        <4> HIDE DEF f, one
        <4> QED BY <4>1, <4>2
      <3>2. ASSUME NEW t \in A PROVE \E s \in T \X (1..n) : f[s] = t
        <4>1. PICK c \in new, j \in 1..n : t = <<c, 0, j>>
          OBVIOUS
        <4>2. <<c.queue, j>> \in T \X (1..n) /\ c = one(c.queue)
          BY <1>1
        <4>3. f[<<c.queue, j>>] = <<one(c.queue), 0, j>>
          BY <4>2
        <4> QED BY <4>1, <4>2, <4>3
      <3>3. f \in [T \X (1..n) -> A]
        BY <3>1
      <3> HIDE DEF f, A
      <3>4. PICK S : S = T \X (1..n)
        OBVIOUS
      <3>5. f \in [S -> A] /\ \A t \in A : \E s \in S : f[s] = t
        BY <3>2, <3>3, <3>4
      <3>6. f \in Surjection(S, A)
        BY <3>5 DEF Surjection
      <3> QED BY <3>4, <3>6
    <2> HIDE DEF f, A
    <2>2. IsFiniteSet(1..n) /\ Cardinality(1..n) = n
      BY <1>0, IntervalSize
    <2>3. IsFiniteSet(T \X (1..n)) /\ Cardinality(T \X (1..n)) = Cardinality(T) * n
      BY <2>2, FS_Product
    <2> QED BY <2>1, <2>3, FS_Surjection
  <1>5. IsFiniteSet(B) /\ Cardinality(B) <= x
    <2> DEFINE C == {<<one(q), 0, n + j>> : j \in 1..x}
    <2>1. B \subseteq C
      BY <1>1
    <2>2. g \in Surjection(1..x, C)
      <3>1. g \in [1..x -> C] /\ \A t \in C : \E j \in 1..x : g[j] = t
        OBVIOUS
      <3> HIDE DEF g, C
      <3> QED BY <3>1, Zenon DEF Surjection
    <2>3. IsFiniteSet(1..x) /\ Cardinality(1..x) = x
      BY IntervalSize
    <2> HIDE DEF g, C, B
    <2>4. IsFiniteSet(C) /\ Cardinality(C) <= x
      BY <2>2, <2>3, FS_Surjection
    <2>5. IsFiniteSet(B) /\ Cardinality(B) <= Cardinality(C)
      BY <2>1, <2>4, FS_Subset
    <2> QED BY <2>4, <2>5, FS_CardinalityType
  <1> HIDE DEF A, B
  <1>6. /\ IsFiniteSet(A \cup B)
        /\ Cardinality(A \cup B) = Cardinality(A) + Cardinality(B) - Cardinality(A \cap B)
    BY <1>4, <1>5, FS_Union
  <1>7. IsFiniteSet(A \cap B)
    BY <1>4, FS_Intersection
  <1>8. /\ Cardinality(A) \in Nat /\ Cardinality(B) \in Nat /\ Cardinality(A \cap B) \in Nat
        /\ Cardinality(T) * n \in Nat
    BY <1>0, <1>4, <1>5, <1>7, FS_CardinalityType
  <1>9. Cardinality(A \cup B) <= x + Cardinality(T) * n
    BY <1>4, <1>5, <1>6, <1>8
  <1> QED BY <1>2, <1>3, <1>6, <1>9 DEF n

\* What owes no more fits as before, the losses o being one less if one came.
LEMMA FewerFit ==
  ASSUME TypeOK, TypeOK', NEW p \in Pairs, NEW l, NEW j, NEW n \in Nat, NEW o \in Nat,
         epoch' + n = epoch + o, deliveries' = deliveries,
         Fits(p, l, o), Owed(p, j)' \subseteq Owed(p, l)
  PROVE  Fits(p, j, n)'
  <1> DEFINE now == Owed(p, l)
             then == Owed(p, j)'
  <1>1. IsFiniteSet(now) /\ deliveries[p] + Cardinality(now) <= Doubled[epoch + o] * Budget[MaxRetries]
    BY DEF Fits
  <1>2. then \subseteq now
    OBVIOUS
  <1>3. Doubled[epoch + o] \in Nat /\ Budget[MaxRetries] \in Nat /\ deliveries[p] \in Nat
    <2>1. epoch + o \in Nat
      BY DEF TypeOK
    <2> QED BY <2>1, Budgeted, Doubling
  <1>4. Doubled[epoch + o] * Budget[MaxRetries] \in Nat
    BY <1>3
  <1> HIDE DEF now, then
  <1>5. /\ IsFiniteSet(then) /\ Cardinality(then) <= Cardinality(now)
        /\ Cardinality(then) \in Nat /\ Cardinality(now) \in Nat
    BY <1>1, <1>2, FS_Subset, FS_CardinalityType
  <1>6. deliveries[p] + Cardinality(then) <= Doubled[epoch + o] * Budget[MaxRetries]
    BY <1>1, <1>3, <1>4, <1>5
  <1> QED BY <1>5, <1>6 DEF Fits, then

\* A step that delivers nothing and leaves the channel, and after which no copy
\* and no call is there that was not, owes no more than before.
LEMMA ShrinkAffords ==
  ASSUME TypeOK, TypeOK', Settlement, Affordable, UNCHANGED <<epoch, deliveries>>,
         channel' = "closed" <=> channel = "closed",
         queued' \subseteq queued, unacked' \subseteq unacked,
         \A k \in calls' : \E i \in calls : i.copy = k.copy /\ i.epoch = k.epoch
  PROVE  Affordable'
  <1>1. ASSUME NEW p, NEW l PROVE Owed(p, l)' \subseteq Owed(p, l)
    <2> SUFFICES ASSUME NEW t \in Copy \X Nat \X Nat,
                        CopyOwes(t, p[2], l)' \/ CallOwes(t, l)'
                 PROVE  CopyOwes(t, p[2], l) \/ CallOwes(t, l)
      BY DEF Owed
    <2>1. CASE CopyOwes(t, p[2], l)'
      <3>1. t[1] \in queued' \/ t[1] \in unacked'
        BY <2>1 DEF CopyOwes
      <3>2. t[1] \in queued' <=> t[1] \in queued
        BY <3>1 DEF Settlement
      <3>3. CopyTimes(t[1], l)' = CopyTimes(t[1], l)
        BY <3>2 DEF CopyTimes
      <3> QED BY <2>1, <3>1, <3>3 DEF CopyOwes
    <2>2. CASE CallOwes(t, l)'
      <3>1. PICK k \in calls' : /\ t[1] = k.copy /\ t[2] = k.epoch + 1
                                /\ t[3] \in 1..CallTimes(k, l)' * Weight(k.copy.retry)
        BY <2>2 DEF CallOwes
      <3>2. PICK i \in calls : i.copy = k.copy /\ i.epoch = k.epoch
        OBVIOUS
      <3>3. CallTimes(k, l)' = CallTimes(i, l)
        BY <3>2 DEF CallTimes, OnItsChannel
      <3> QED BY <3>1, <3>2, <3>3 DEF CallOwes
    <2> QED BY <2>1, <2>2
  <1>2. ASSUME NEW n \in Nat, NEW l \in Int, NEW p \in Pairs, l = Left(n)' PROVE Fits(p, l, n)'
    <2>1. l = Left(n)
      BY <1>2 DEF Left
    <2>2. Fits(p, l, n)
      BY <2>1 DEF Affordable
    <2> QED BY <1>1, <2>2, FewerFit
  <1> QED BY <1>2 DEF Affordable

\* A lost channel puts what was unacknowledged back, to be owed once more; its
\* calls owe as much on the channel as they do off it with one loss less to come.
LEMMA LossAffords ==
  ASSUME TypeOK, TypeOK', Settlement, Affordable, ChannelLost
  PROVE  Affordable'
  <1>1. /\ channel # "closed" /\ channel' = "closed" /\ UNCHANGED <<epoch, deliveries, calls>>
        /\ queued' \subseteq queued \cup unacked /\ unacked' = {}
    BY DEF ChannelLost
  <1>2. ASSUME NEW p, NEW l \in Nat, l > 0 PROVE Owed(p, l - 1)' \subseteq Owed(p, l)
    <2>0. /\ Doubled[l] \in Nat /\ Requeued(l) \in Nat /\ Requeued(l) <= Doubled[l]
          /\ Doubled[l] = 2 * Requeued(l) /\ Requeued(l) = Doubled[l - 1] /\ l - 1 \in Nat
      BY <1>2, TimesAre
    <2> SUFFICES ASSUME NEW t \in Copy \X Nat \X Nat, t[1].msg = p[1],
                        CopyOwes(t, p[2], l - 1)' \/ CallOwes(t, l - 1)'
                 PROVE  CopyOwes(t, p[2], l) \/ CallOwes(t, l)
      BY DEF Owed
    <2>1. CASE CopyOwes(t, p[2], l - 1)'
      <3>1. /\ t[2] = 0 /\ t[1] \in queued' /\ t[1] \in queued \cup unacked
            /\ t[3] \in 1..Requeued(l) * Share(t[1], p[2])
        BY <1>1, <2>0, <2>1 DEF CopyOwes, CopyTimes
      <3>2. CopyTimes(t[1], l) \in Nat /\ Requeued(l) <= CopyTimes(t[1], l)
        BY <2>0 DEF CopyTimes
      <3>3. Share(t[1], p[2]) \in Nat
        BY ShareTyped
      <3>4. /\ Requeued(l) * Share(t[1], p[2]) <= CopyTimes(t[1], l) * Share(t[1], p[2])
            /\ Requeued(l) * Share(t[1], p[2]) \in Nat
            /\ CopyTimes(t[1], l) * Share(t[1], p[2]) \in Nat
        <4>1. \A x, y, z \in Nat : x <= y => x * z <= y * z /\ x * z \in Nat /\ y * z \in Nat
          BY Grows
        <4> QED BY <2>0, <3>2, <3>3, <4>1
      <3>5. t[3] \in 1..CopyTimes(t[1], l) * Share(t[1], p[2])
        BY <3>1, <3>4
      <3> QED BY <3>1, <3>5 DEF CopyOwes
    <2>2. CASE CallOwes(t, l - 1)'
      <3>1. PICK k \in calls : /\ t[1] = k.copy /\ t[2] = k.epoch + 1
                               /\ t[3] \in 1..Requeued(l) * Weight(k.copy.retry)
        BY <1>1, <2>0, <2>2 DEF CallOwes, CallTimes, OnItsChannel
      <3>2. CallTimes(k, l) \in Nat /\ Requeued(l) <= CallTimes(k, l)
        BY <2>0 DEF CallTimes
      <3>3. Weight(k.copy.retry) \in Nat
        BY CallTyped, SomeWeight
      <3>4. /\ Requeued(l) * Weight(k.copy.retry) <= CallTimes(k, l) * Weight(k.copy.retry)
            /\ Requeued(l) * Weight(k.copy.retry) \in Nat
            /\ CallTimes(k, l) * Weight(k.copy.retry) \in Nat
        <4>1. \A x, y, z \in Nat : x <= y => x * z <= y * z /\ x * z \in Nat /\ y * z \in Nat
          BY Grows
        <4> QED BY <2>0, <3>2, <3>3, <4>1
      <3>5. t[3] \in 1..CallTimes(k, l) * Weight(k.copy.retry)
        BY <3>1, <3>4
      <3> QED BY <3>1, <3>5 DEF CallOwes
    <2> QED BY <2>1, <2>2
  <1>3. ASSUME NEW n \in Nat, NEW l \in Int, NEW p \in Pairs, l = Left(n)' PROVE Fits(p, l, n)'
    <2>1. l = n - 1
      BY <1>1, <1>3 DEF Left
    <2>2. n = Left(n) /\ Fits(p, n, n)
      BY <1>1 DEF Left, Affordable
    <2>3. Owed(p, l)' \subseteq Owed(p, n)
      <3>1. CASE n = 0
        <4>1. l \notin Nat
          BY <2>1, <3>1
        <4> QED BY <4>1 DEF Owed
      <3>2. CASE n > 0
        BY <1>2, <2>1, <3>2
      <3> QED BY <3>1, <3>2
    <2> QED BY <1>1, <2>2, <2>3, FewerFit
  <1> QED BY <1>3 DEF Affordable

\* A new channel knows no call.
LEMMA ReconnectAffords ==
  ASSUME TypeOK, TypeOK', Settlement, Affordable, Reconnect
  PROVE  Affordable'
  <1>1. /\ channel = "closed" /\ channel' = "open" /\ epoch' = epoch + 1 /\ epoch \in Nat
        /\ UNCHANGED <<queued, unacked, calls, deliveries>>
    BY DEF Reconnect, TypeOK
  <1>2. ASSUME NEW p, NEW l PROVE Owed(p, l)' \subseteq Owed(p, l)
    <2>1. ASSUME NEW t PROVE CopyOwes(t, p[2], l)' => CopyOwes(t, p[2], l)
      BY <1>1 DEF CopyOwes, CopyTimes
    <2>2. ASSUME NEW k \in calls PROVE CallTimes(k, l)' = CallTimes(k, l)
      <3>1. k.epoch \in Nat /\ k.epoch <= epoch
        BY CallTyped DEF Settlement
      <3>2. ~OnItsChannel(k) /\ ~OnItsChannel(k)'
        BY <1>1, <3>1 DEF OnItsChannel
      <3> QED BY <3>2 DEF CallTimes
    <2>3. ASSUME NEW t PROVE CallOwes(t, l)' => CallOwes(t, l)
      BY <1>1, <2>2 DEF CallOwes
    <2> QED BY <2>1, <2>3 DEF Owed
  <1>3. ASSUME NEW n \in Nat, NEW l \in Int, NEW p \in Pairs, l = Left(n)' PROVE Fits(p, l, n)'
    <2>1. l = n /\ n + 1 \in Nat /\ l = (n + 1) - 1 /\ epoch' + n = epoch + (n + 1)
      BY <1>1, <1>3 DEF Left
    <2>2. Fits(p, l, n + 1)
      BY <1>1, <2>1 DEF Left, Affordable
    <2> QED BY <1>1, <1>2, <2>1, <2>2, FewerFit
  <1> QED BY <1>3 DEF Affordable

LEMMA NewlyOwes ==
  ASSUME NEW new, NEW r, Weight(r) \in Nat, \A c \in new : c.retry = r,
         NEW q, NEW x \in Nat, NEW c \in new, NEW j \in 1..x * Share(c, q)
  PROVE  <<c, 0, j>> \in NewlyOwed(new, r, q, x)
  <1> DEFINE n == x * Weight(r)
  <1>1. n \in Nat /\ x * (Weight(r) + 1) = n + x /\ x * (Weight(r) + 0) = n
    BY Splits
  <1>2. c.retry = r
    OBVIOUS
  <1> HIDE DEF n
  <1>3. CASE j \in 1..n
    BY <1>3 DEF NewlyOwed, n
  <1>4. CASE j \notin 1..n
    <2>1. c.queue = q /\ j \in 1..(n + x)
      BY <1>1, <1>2, <1>4 DEF Share
    <2>2. j - n \in 1..x /\ j = n + (j - n)
      BY <1>1, <1>4, <2>1
    <2>3. \E i \in 1..x : j = n + i
      BY <2>2
    <2> QED BY <2>1, <2>3 DEF NewlyOwed, n
  <1> QED BY <1>3, <1>4

\* z copies that weigh b cost x times no more than x times what pays for a round.
LEMMA RoundPays ==
  ASSUME NEW x \in Nat, NEW b \in Nat, NEW f \in Nat, NEW z \in Nat, NEW w \in Nat,
         z <= f \/ b = 0, 1 + f * b <= w
  PROVE  z * (x * b) \in Nat /\ x * w \in Nat /\ x + z * (x * b) <= x * w
  <1>1. x * b \in Nat /\ f * b \in Nat /\ x * (1 + f * b) = x + f * (x * b)
    BY Splits
  <1>2. z * (x * b) \in Nat /\ f * (x * b) \in Nat
    BY <1>1
  <1>3. x * (1 + f * b) <= x * w /\ x * w \in Nat
    <2>1. 1 + f * b \in Nat
      BY <1>1
    <2> QED BY <2>1, Grows
  <1>4. CASE b = 0
    <2>1. z * (x * b) = 0 /\ f * (x * b) = 0
      BY <1>4
    <2> QED BY <1>1, <1>2, <1>3, <2>1
  <1>5. CASE z <= f
    <2>1. z * (x * b) <= f * (x * b)
      <3>1. \A y \in Nat : z * y <= f * y
        BY <1>5
      <3> QED BY <1>1, <3>1
    <2> QED BY <1>1, <1>2, <1>3, <2>1
  <1> QED BY <1>4, <1>5

\* A new message is put in the queues its key is bound to, or in one.
LEMMA PostAffords ==
  ASSUME TypeOK, TypeOK', Unsent, Affordable, NEW m \in Messages, NEW k \in Keys,
         NEW T \in SUBSET Queues, T \subseteq Bind[k] \/ \E q \in Queues : T \subseteq {q},
         Post(m, k, T)
  PROVE  Affordable'
  <1> SUFFICES ASSUME NEW n \in Nat, NEW p \in Pairs PROVE Fits(p, n, n)'
    <2>1. channel' = "open"
      BY DEF Post
    <2>2. \A i \in Nat : Left(i)' = i
      BY <2>1 DEF Left
    <2> QED BY <2>2 DEF Affordable
  <1>0. Fits(p, n, n)
    <2>1. channel = "open"
      BY DEF Post
    <2>2. n = Left(n)
      BY <2>1 DEF Left
    <2> QED BY <2>2 DEF Affordable
  <1> DEFINE new == Copies(m, k, 0, NoReason, T)
             x == Doubled[n]
             N == NewlyOwed(new, 0, p[2], x)
  <1>1. /\ queued' = queued \cup new /\ m \notin sent /\ channel = "open"
        /\ UNCHANGED <<channel, epoch, unacked, deliveries, calls>>
    BY DEF Post, Enqueue
  <1>2. \A c \in new : c.msg = m /\ c.retry = 0
    BY DEF Copies
  <1>3. /\ 0 \in 0..MaxRetries /\ Weight(0) \in Nat /\ Fan \in Nat
        /\ Budget[MaxRetries] \in Nat /\ 1 + Fan * Weight(0) <= Budget[MaxRetries]
    BY Budgeted, WeightSteps, RetryDeliveryAssumption
  <1>4. IsFiniteSet(T) /\ (Cardinality(T) <= Fan \/ Cardinality(T) <= 1)
    <2>1. IsFiniteSet(Queues) /\ Bind[k] \in SUBSET Queues
      BY RetryDeliveryAssumption
    <2>2. CASE T \subseteq Bind[k]
      <3>1. IsFiniteSet(Bind[k]) /\ Cardinality(Bind[k]) <= Fan
        BY <2>1, FS_Subset, Budgeted
      <3>2. IsFiniteSet(T) /\ Cardinality(T) <= Cardinality(Bind[k])
        BY <2>2, <3>1, FS_Subset
      <3> QED BY <3>1, <3>2, FS_CardinalityType, Budgeted
    <2>3. CASE \E q \in Queues : T \subseteq {q}
      <3>1. PICK q \in Queues : T \subseteq {q}
        BY <2>3
      <3>2. IsFiniteSet({q}) /\ Cardinality({q}) = 1
        BY FS_Singleton
      <3> QED BY <3>1, <3>2, FS_Subset
    <2> QED BY <2>2, <2>3
  <1>5. /\ x \in Nat /\ epoch + n \in Nat
        /\ x <= Doubled[epoch + n] /\ Doubled[epoch + n] \in Nat
    <2>1. epoch \in Nat
      BY DEF TypeOK
    <2>2. epoch + n \in Nat
      BY <2>1
    <2>3. /\ Doubled[n] \in Nat /\ Doubled[epoch + n] \in Nat
          /\ Doubled[n] <= Doubled[epoch + n]
      BY <2>1, <2>2, Doubling
    <2> QED BY <2>1, <2>2, <2>3
  <1> HIDE DEF x
  <1>6. CASE p[1] = m
    <2>1. deliveries[p] = 0
      BY <1>1, <1>6 DEF Unsent
    <2>2. Owed(p, n)' \subseteq N
      <3> SUFFICES ASSUME NEW t \in Owed(p, n)' PROVE t \in N
        OBVIOUS
      <3>1. /\ t \in Copy \X Nat \X Nat /\ t[1].msg = m
            /\ CopyOwes(t, p[2], n)' \/ CallOwes(t, n)'
        BY <1>6 DEF Owed
      <3>2. ~CallOwes(t, n)' /\ t[1] \notin queued /\ t[1] \notin unacked
        BY <1>1, <3>1 DEF CallOwes, Unsent
      <3>3. t[1] \in new /\ t[2] = 0 /\ t[3] \in 1..x * Share(t[1], p[2])
        BY <1>1, <3>1, <3>2 DEF CopyOwes, CopyTimes, x
      <3>4. t = <<t[1], 0, t[3]>>
        BY <3>1, <3>3
      <3> HIDE DEF new
      <3>5. <<t[1], 0, t[3]>> \in N
        BY <1>2, <1>3, <1>5, <3>3, NewlyOwes
      <3> QED BY <3>4, <3>5
    <2>3. IsFiniteSet(N) /\ Cardinality(N) <= x + Cardinality(T) * (x * Weight(0))
      BY <1>3, <1>4, <1>5, NewlyOwedSmall
    <2> HIDE DEF N
    <2>4. /\ IsFiniteSet(Owed(p, n)') /\ Cardinality(Owed(p, n)') <= Cardinality(N)
          /\ Cardinality(N) \in Nat /\ Cardinality(Owed(p, n)') \in Nat
          /\ Cardinality(T) \in Nat
      BY <1>4, <2>2, <2>3, FS_Subset, FS_CardinalityType
    <2>5. Cardinality(T) <= Fan \/ Weight(0) = 0
      BY <1>3, <1>4, <2>4 DEF Weight
    <2>6. /\ Cardinality(T) * (x * Weight(0)) \in Nat /\ x * Budget[MaxRetries] \in Nat
          /\ x + Cardinality(T) * (x * Weight(0)) <= x * Budget[MaxRetries]
      BY <1>3, <1>5, <2>4, <2>5, RoundPays
    <2>7. /\ Doubled[epoch + n] * Budget[MaxRetries] \in Nat
          /\ x * Budget[MaxRetries] <= Doubled[epoch + n] * Budget[MaxRetries]
      BY <1>3, <1>5, Grows
    <2>8. Cardinality(Owed(p, n)') <= Doubled[epoch + n] * Budget[MaxRetries]
      <3>1. PICK b \in Nat : b = Doubled[epoch + n] * Budget[MaxRetries]
        BY <2>7
      <3>2. PICK y \in Nat : y = x * Budget[MaxRetries]
        BY <2>6
      <3>3. PICK z \in Nat : z = Cardinality(T) * (x * Weight(0))
        BY <2>6
      <3>4. Cardinality(N) <= x + z /\ x + z <= y /\ y <= b
        BY <2>3, <2>6, <2>7, <3>1, <3>2, <3>3
      <3> QED BY <1>5, <2>4, <3>1, <3>4
    <2> QED BY <1>1, <2>1, <2>4, <2>8 DEF Fits
  <1>7. CASE p[1] # m
    <2>1. Owed(p, n)' \subseteq Owed(p, n)
      <3> SUFFICES ASSUME NEW t, t[1].msg = p[1],
                          CopyOwes(t, p[2], n)' \/ CallOwes(t, n)'
                   PROVE  CopyOwes(t, p[2], n) \/ CallOwes(t, n)
        BY DEF Owed
      <3>1. CallOwes(t, n)' => CallOwes(t, n)
        BY <1>1 DEF CallOwes, CallTimes, OnItsChannel
      <3>2. t[1] \notin new
        BY <1>2, <1>7
      <3>3. CopyOwes(t, p[2], n)' => CopyOwes(t, p[2], n)
        BY <1>1, <3>2 DEF CopyOwes, CopyTimes
      <3> QED BY <3>1, <3>3
    <2>2. Fits(p, n, n)
      BY <1>0
    <2> QED BY <1>1, <2>1, <2>2, FewerFit
  <1> QED BY <1>6, <1>7

\* A delivery pays what the queued copy owed: it leaves the copy to be requeued
\* as often as may be, and the call the rest.
LEMMA DeliverAffords ==
  ASSUME TypeOK, TypeOK', Settlement, Affordable, NEW c \in queued, Deliver(c)
  PROVE  Affordable'
  <1> SUFFICES ASSUME NEW n \in Nat, NEW p \in Pairs PROVE Fits(p, n, n)'
    <2>1. channel' = "open"
      BY DEF Deliver
    <2>2. \A i \in Nat : Left(i)' = i
      BY <2>1 DEF Left
    <2> QED BY <2>2 DEF Affordable
  <1>0. Fits(p, n, n)
    <2>1. channel = "open"
      BY DEF Deliver
    <2>2. n = Left(n)
      BY <2>1 DEF Left
    <2> QED BY <2>2 DEF Affordable
  <1>1. /\ queued' = queued \ {c} /\ unacked' = unacked \cup {c}
        /\ deliveries' = [deliveries EXCEPT ![PairOf(c)] = @ + 1]
        /\ channel = "open" /\ UNCHANGED <<channel, epoch>>
        /\ calls' = calls \cup {[copy |-> c, epoch |-> epoch, phase |-> "running",
                                 why |-> NoReason]}
    BY DEF Deliver
  <1>2. epoch \in Nat
    BY DEF TypeOK
  <1>3. /\ c \in Copy /\ PairOf(c) \in Pairs /\ Weight(c.retry) \in Nat
        /\ Share(c, p[2]) \in Nat
    BY SomeWeight, ShareTyped DEF TypeOK, PairOf, Pairs, Copy
  <1>4. Fits(p, n, n)
    BY <1>0
  <1> DEFINE x == Doubled[n]
             y == Requeued(n)
             w == Weight(c.retry)
             s == Share(c, p[2])
             D == Block(c, 0, x * s)
             N1 == Block(c, 0, y * s)
             N2 == Block(c, epoch + 1, (x - y) * w)
             S == Owed(p, n)
             R == Owed(p, n)'
  <1>5. x \in Nat /\ y \in Nat /\ y + 1 <= x /\ x - y \in Nat
    <2>1. x \in Nat /\ y \in Nat /\ y + 1 <= x
      BY TimesAre
    <2> HIDE DEF x, y
    <2> QED BY <2>1
  <1>6. /\ s = w \/ s = w + 1
        /\ p = PairOf(c) => s = w + 1
        /\ x * s \in Nat /\ y * s \in Nat /\ (x - y) * w \in Nat
        /\ y * s <= x * s
    <2>1. /\ s = w \/ s = w + 1
          /\ p = PairOf(c) => s = w + 1
      BY <1>3 DEF Share, PairOf
    <2>2. s \in Nat /\ w \in Nat
      BY <1>3
    <2> HIDE DEF x, y, s, w
    <2>3. x * s \in Nat /\ y * s \in Nat /\ (x - y) * w \in Nat
      BY <1>5, <2>2
    <2>4. \A i, j, z \in Nat : i <= j => i * z <= j * z
      OBVIOUS
    <2>5. y <= x
      BY <1>5
    <2> QED BY <1>5, <2>1, <2>2, <2>3, <2>4, <2>5
  <1>7. CASE p[1] # c.msg
    <2>1. R \subseteq S
      <3> SUFFICES ASSUME NEW t, t[1].msg = p[1],
                          CopyOwes(t, p[2], n)' \/ CallOwes(t, n)'
                   PROVE  CopyOwes(t, p[2], n) \/ CallOwes(t, n)
        BY DEF Owed
      <3>1. t[1] # c
        BY <1>7
      <3>2. CopyOwes(t, p[2], n)' => CopyOwes(t, p[2], n)
        BY <1>1, <3>1 DEF CopyOwes, CopyTimes
      <3>3. CallOwes(t, n)' => CallOwes(t, n)
        BY <1>1, <3>1 DEF CallOwes, CallTimes, OnItsChannel
      <3> QED BY <3>2, <3>3
    <2>2. deliveries'[p] = deliveries[p]
      BY <1>1, <1>3, <1>7 DEF PairOf, TypeOK
    <2> HIDE DEF S, R
    <2>3. Fits(p, n, n)' <=> /\ IsFiniteSet(R)
                             /\ deliveries[p] + Cardinality(R) <= Doubled[epoch + n] * Budget[MaxRetries]
      BY <1>1, <2>2 DEF Fits, R
    <2>4. /\ IsFiniteSet(S)
          /\ deliveries[p] + Cardinality(S) <= Doubled[epoch + n] * Budget[MaxRetries]
      BY <1>4 DEF Fits, S
    <2>5. IsFiniteSet(R) /\ Cardinality(R) <= Cardinality(S)
          /\ Cardinality(R) \in Nat /\ Cardinality(S) \in Nat
      BY <2>1, <2>4, FS_Subset, FS_CardinalityType
    <2>6. PICK b \in Nat : b = Doubled[epoch + n] * Budget[MaxRetries] /\ deliveries[p] \in Nat
      BY WithinBudget
    <2>7. deliveries[p] + Cardinality(R) <= b
      BY <2>4, <2>5, <2>6
    <2> QED BY <2>3, <2>5, <2>6, <2>7
  <1>8. CASE p[1] = c.msg
    <2>1. D \subseteq S
      <3> SUFFICES ASSUME NEW j \in 1..x * s PROVE <<c, 0, j>> \in S
        BY DEF Block
      <3>1. CopyOwes(<<c, 0, j>>, p[2], n)
        BY DEF CopyOwes, CopyTimes
      <3>2. <<c, 0, j>> \in Copy \X Nat \X Nat
        BY <1>3, <1>6
      <3> QED BY <1>2, <1>8, <3>1, <3>2 DEF Owed
    <2>2. R \subseteq (S \ D) \cup (N1 \cup N2)
      <3> SUFFICES ASSUME NEW t \in R PROVE t \in (S \ D) \cup (N1 \cup N2)
        OBVIOUS
      <3>1. /\ t \in Copy \X Nat \X Nat /\ t[1].msg = p[1]
            /\ CopyOwes(t, p[2], n)' \/ CallOwes(t, n)'
        BY DEF Owed
      <3>2. t = <<t[1], t[2], t[3]>> /\ t[2] \in Nat
        BY <3>1
      <3>3. CASE CopyOwes(t, p[2], n)' /\ t[1] = c
        <4>1. t[2] = 0 /\ t[3] \in 1..y * s
          BY <1>1, <3>3 DEF CopyOwes, CopyTimes
        <4> QED BY <3>2, <3>3, <4>1 DEF Block
      <3>4. CASE CopyOwes(t, p[2], n)' /\ t[1] # c
        <4>1. CopyOwes(t, p[2], n)
          BY <1>1, <3>4 DEF CopyOwes, CopyTimes
        <4>2. t \notin D
          BY <3>2, <3>4 DEF Block
        <4> QED BY <1>2, <3>1, <4>1, <4>2 DEF Owed
      <3>5. CASE CallOwes(t, n)'
        <4>1. PICK k \in calls' : /\ t[1] = k.copy /\ t[2] = k.epoch + 1
                                  /\ t[3] \in 1..CallTimes(k, n)' * Weight(k.copy.retry)
          BY <3>5 DEF CallOwes
        <4>2. CallTimes(k, n)' = CallTimes(k, n)
          BY <1>1 DEF CallTimes, OnItsChannel
        <4>3. CASE k \in calls
          <5>1. CallOwes(t, n)
            BY <4>1, <4>2, <4>3 DEF CallOwes
          <5>2. t[2] # 0
            BY <4>1, <4>3, CallTyped
          <5>3. t \notin D
            BY <3>2, <5>2 DEF Block
          <5> QED BY <1>2, <3>1, <5>1, <5>3 DEF Owed
        <4>4. CASE k \notin calls
          <5>1. k.copy = c /\ k.epoch = epoch
            BY <1>1, <4>4
          <5>2. t[1] = c /\ t[2] = epoch + 1 /\ t[3] \in 1..(x - y) * w
            BY <1>1, <4>1, <4>2, <5>1 DEF CallTimes, OnItsChannel
          <5> QED BY <3>2, <5>2 DEF Block
        <4> QED BY <4>3, <4>4
      <3> QED BY <3>1, <3>3, <3>4, <3>5
    <2>3. /\ IsFiniteSet(D) /\ Cardinality(D) = x * s
          /\ IsFiniteSet(N1) /\ Cardinality(N1) = y * s
          /\ IsFiniteSet(N2) /\ Cardinality(N2) = (x - y) * w
      BY <1>6, BlockSize
    <2>4. PICK d \in {0, 1} : /\ deliveries'[p] = deliveries[p] + d
                              /\ d = 1 => s = w + 1
      <3>1. CASE p = PairOf(c)
        BY <1>1, <1>3, <1>6, <3>1 DEF TypeOK
      <3>2. CASE p # PairOf(c)
        <4>1. deliveries'[p] = deliveries[p] /\ deliveries[p] \in Nat
          BY <1>1, <1>3, <3>2 DEF TypeOK
        <4> QED BY <4>1
      <3> QED BY <3>1, <3>2
    <2>5. w \in Nat /\ s \in Nat
      BY <1>3
    <2>6. /\ IsFiniteSet(S)
          /\ deliveries[p] + Cardinality(S) <= Doubled[epoch + n] * Budget[MaxRetries]
      BY <1>4 DEF Fits
    <2>7. Fits(p, n, n)' <=> /\ IsFiniteSet(R)
                             /\ deliveries'[p] + Cardinality(R) <= Doubled[epoch + n] * Budget[MaxRetries]
      BY <1>1 DEF Fits
    <2> HIDE DEF x, y, w, s, D, N1, N2, S, R
    <2>8. y * s + (x - y) * w + d <= x * s
      <3>1. CASE s = w
        <4>1. d = 0
          BY <2>4, <2>5, <3>1
        <4>2. (y + (x - y)) * w = y * w + (x - y) * w /\ y + (x - y) = x
          BY <1>5, <2>5, Splits
        <4>3. y * w \in Nat /\ (x - y) * w \in Nat /\ x * w \in Nat
          BY <1>5, <2>5
        <4> QED BY <3>1, <4>1, <4>2, <4>3
      <3>2. CASE s = w + 1
        <4>1. /\ y * (w + 1) = y * w + y /\ x * (w + 1) = x * w + x
              /\ (y + (x - y)) * w = y * w + (x - y) * w /\ y + (x - y) = x
          BY <1>5, <2>5, Splits
        <4>2. y * w \in Nat /\ (x - y) * w \in Nat /\ x * w \in Nat
          BY <1>5, <2>5
        <4> QED BY <1>5, <2>4, <3>2, <4>1, <4>2
      <3> QED BY <1>6, <3>1, <3>2
    <2>9. /\ IsFiniteSet(N1 \cup N2) /\ Cardinality(N1 \cup N2) \in Nat
          /\ Cardinality(N1 \cup N2) <= y * s + (x - y) * w
      <3>1. /\ IsFiniteSet(N1 \cup N2) /\ IsFiniteSet(N1 \cap N2)
            /\ Cardinality(N1 \cup N2) = Cardinality(N1) + Cardinality(N2) - Cardinality(N1 \cap N2)
        BY <2>3, FS_Union, FS_Intersection
      <3>2. Cardinality(N1 \cup N2) \in Nat /\ Cardinality(N1 \cap N2) \in Nat
        BY <3>1, FS_CardinalityType
      <3> QED BY <1>6, <2>3, <3>1, <3>2
    <2>10. Cardinality(N1 \cup N2) + d <= Cardinality(D) /\ d \in Nat
      BY <1>6, <2>3, <2>4, <2>8, <2>9
    <2>11. IsFiniteSet(R) /\ Cardinality(R) + d <= Cardinality(S)
      BY <2>1, <2>2, <2>6, <2>9, <2>10, Exchange
    <2>12. Cardinality(R) \in Nat /\ Cardinality(S) \in Nat
      BY <2>6, <2>11, FS_CardinalityType
    <2>13. PICK b \in Nat : b = Doubled[epoch + n] * Budget[MaxRetries] /\ deliveries[p] \in Nat
      BY WithinBudget
    <2>14. deliveries[p] + d + Cardinality(R) <= b
      BY <2>6, <2>10, <2>11, <2>12, <2>13
    <2> QED BY <2>4, <2>7, <2>11, <2>13, <2>14
  <1> QED BY <1>7, <1>8

\* A call owes, with the copy it may put back, its weight as often as l says.
LEMMA RetryPays ==
  ASSUME TypeOK, Settlement, NEW k \in calls, NEW p \in Pairs, p[1] = k.copy.msg,
         NEW n \in Nat
  PROVE  \E D \in SUBSET Owed(p, n) :
           /\ IsFiniteSet(D) /\ Cardinality(D) = Doubled[n] * Weight(k.copy.retry)
           /\ \A t \in D : /\ t[1] = k.copy
                           /\ t[2] = k.epoch + 1 \/ (t[2] = 0 /\ OnItsChannel(k))
  <1> DEFINE c == k.copy
             x == Doubled[n]
             y == Requeued(n)
             w == Weight(c.retry)
             u == CallTimes(k, n) * w
             A == Block(c, k.epoch + 1, u)
             B == Block(c, 0, y * w)
  <1>1. /\ c \in Copy /\ k.epoch \in Nat /\ w \in Nat /\ Share(c, p[2]) \in Nat
        /\ w <= Share(c, p[2])
    BY CallTyped, SomeWeight, ShareTyped
  <1>2. x \in Nat /\ y \in Nat /\ y + 1 <= x
    BY TimesAre
  <1>3. CallTimes(k, n) \in Nat /\ u \in Nat /\ y * w \in Nat
    <2>1. CallTimes(k, n) = x - y \/ CallTimes(k, n) = x
      BY DEF CallTimes
    <2>2. w \in Nat
      BY <1>1
    <2> HIDE DEF x, y, w
    <2> QED BY <1>2, <2>1, <2>2
  <1>4. A \subseteq Owed(p, n)
    <2> SUFFICES ASSUME NEW j \in 1..u PROVE <<c, k.epoch + 1, j>> \in Owed(p, n)
      BY DEF Block
    <2>1. CallOwes(<<c, k.epoch + 1, j>>, n)
      BY DEF CallOwes
    <2>2. <<c, k.epoch + 1, j>> \in Copy \X Nat \X Nat
      BY <1>1, <1>3
    <2> QED BY <2>1, <2>2 DEF Owed
  <1>5. IsFiniteSet(A) /\ Cardinality(A) = u /\ IsFiniteSet(B) /\ Cardinality(B) = y * w
    BY <1>3, BlockSize
  <1>6. \A t \in A : t[1] = c /\ t[2] = k.epoch + 1
    BY DEF Block
  <1>7. \A t \in B : t[1] = c /\ t[2] = 0
    BY DEF Block
  <1>8. CASE ~OnItsChannel(k)
    <2>1. u = x * w
      BY <1>8 DEF CallTimes
    <2> HIDE DEF A
    <2> QED BY <1>4, <1>5, <1>6, <2>1
  <1>9. CASE OnItsChannel(k)
    <2>1. c \in unacked /\ c \notin queued
      BY <1>9 DEF Settlement, DeliveriesAreSettledOnce
    <2>2. B \subseteq Owed(p, n)
      <3> SUFFICES ASSUME NEW j \in 1..y * w PROVE <<c, 0, j>> \in Owed(p, n)
        BY DEF Block
      <3>1. j \in 1..y * Share(c, p[2])
        <4>1. y * w <= y * Share(c, p[2]) /\ y * Share(c, p[2]) \in Nat
          <5>1. PICK s \in Nat : s = Share(c, p[2]) /\ w <= s
            BY <1>1
          <5>2. PICK v \in Nat : v = w
            BY <1>1
          <5>3. PICK z \in Nat : z = y
            BY <1>2
          <5>4. z * v <= z * s /\ z * s \in Nat
            BY <5>1, <5>2, Grows
          <5> QED BY <5>1, <5>2, <5>3, <5>4
        <4> QED BY <1>3, <4>1
      <3>2. CopyOwes(<<c, 0, j>>, p[2], n)
        BY <2>1, <3>1 DEF CopyOwes, CopyTimes
      <3>3. <<c, 0, j>> \in Copy \X Nat \X Nat
        BY <1>1, <1>3
      <3> QED BY <3>2, <3>3 DEF Owed
    <2>3. u = (x - y) * w
      BY <1>9 DEF CallTimes
    <2>4. A \cap B = {}
      BY <1>1, <1>6, <1>7
    <2>5. w \in Nat
      BY <1>1
    <2> HIDE DEF A, B, x, y, w, u
    <2>6. u + y * w = x * w
      <3>1. ((x - y) + y) * w = (x - y) * w + y * w
        BY <1>2, <2>5, Splits
      <3>2. (x - y) + y = x
        BY <1>2
      <3> QED BY <2>3, <3>1, <3>2
    <2>7. /\ IsFiniteSet(A \cup B)
          /\ Cardinality(A \cup B) = Cardinality(A) + Cardinality(B) - Cardinality(A \cap B)
      BY <1>5, FS_Union
    <2>8. Cardinality(A \cup B) = u + y * w
      <3>1. Cardinality(A \cap B) = 0
        BY <2>4, FS_EmptySet
      <3>2. PICK z \in Nat : z = y * w
        BY <1>3
      <3>3. Cardinality(A) = u /\ Cardinality(B) = z /\ u \in Nat
        BY <1>3, <1>5, <3>2
      <3>4. Cardinality(A \cup B) = u + z
        BY <2>7, <3>1, <3>3
      <3> QED BY <3>2, <3>4
    <2>9. A \cup B \in SUBSET Owed(p, n) /\ Cardinality(A \cup B) = x * w
      BY <1>4, <2>2, <2>6, <2>8
    <2>10. \A t \in A \cup B : t[1] = c /\ (t[2] = k.epoch + 1 \/ t[2] = 0)
      BY <1>6, <1>7, Zenon
    <2> QED BY <1>9, <2>7, <2>9, <2>10, Zenon DEF c, x, w
  <1> QED BY <1>8, <1>9

\* A retry exchanges what its call and copy owe for at most Fan copies that
\* weigh less.
LEMMA RetryAffords ==
  ASSUME TypeOK, TypeOK', Settlement, Affordable, NEW k \in calls, Retry(k)
  PROVE  Affordable'
  <1> SUFFICES ASSUME NEW n \in Nat, NEW p \in Pairs PROVE Fits(p, n, n)'
    <2>1. channel' = "open"
      BY DEF Retry, RetryAs
    <2>2. \A i \in Nat : Left(i)' = i
      BY <2>1 DEF Left
    <2> QED BY <2>2 DEF Affordable
  <1>0. Fits(p, n, n)
    <2>1. channel = "open"
      BY DEF Retry, RetryAs
    <2>2. n = Left(n)
      BY <2>1 DEF Left
    <2> QED BY <2>2 DEF Affordable
  <1> DEFINE c == k.copy
             r == k.copy.retry
             T == Bind[k.copy.key] \cap Existing
             new == Copies(c.msg, c.key, r + 1, k.why, T)
             x == Doubled[n]
             N == NewlyOwed(new, r + 1, p[2], x)
             S == Owed(p, n)
             R == Owed(p, n)'
  <1>1. /\ queued' = queued \cup new /\ unacked' = Settled(k) /\ calls' = calls \ {k}
        /\ UNCHANGED <<channel, epoch, deliveries>>
    BY DEF Retry, RetryAs, Enqueue
  <1>2. \A d \in new : d.msg = c.msg /\ d.retry = r + 1 /\ d.id = nextId
    BY DEF Copies
  <1>3. \A d \in queued \cup unacked : d \notin new
    <2>1. \A d \in queued \cup unacked : d.id \in Nat /\ d.id < nextId /\ nextId \in Nat
      BY DEF Settlement, TypeOK, Copy
    <2>2. \A d \in queued \cup unacked : d.id # nextId
      BY <2>1
    <2> HIDE DEF new
    <2> QED BY <1>2, <2>2
  <1>4. OnItsChannel(k) => c \in unacked /\ c \notin queued /\ c \notin unacked'
    BY <1>1 DEF Settlement, DeliveriesAreSettledOnce, Settled
  <1>5. /\ unacked' \subseteq unacked
        /\ \A i : CallTimes(i, n)' = CallTimes(i, n)
    BY <1>1 DEF Settled, CallTimes, OnItsChannel
  <1>6. /\ r \in 0..MaxRetries /\ r + 1 \in 0..MaxRetries /\ r < MaxRetries
        /\ MaxRetries \in Nat /\ k.epoch \in Nat
    BY CallTyped, RetryDeliveryAssumption DEF Retry, RetryAs
  <1>7. Weight(r) \in Nat /\ Weight(r + 1) \in Nat /\ Fan \in Nat
    BY <1>6, Budgeted
  <1>8. IsFiniteSet(T) /\ Cardinality(T) \in Nat /\ Cardinality(T) <= Fan
    <2>1. IsFiniteSet(Queues) /\ Bind[c.key] \in SUBSET Queues /\ c.key \in Keys
      BY CallTyped, RetryDeliveryAssumption
    <2>2. IsFiniteSet(Bind[c.key]) /\ Cardinality(Bind[c.key]) <= Fan
      BY <2>1, FS_Subset, Budgeted
    <2>3. T \in SUBSET Bind[c.key]
      OBVIOUS
    <2> HIDE DEF T
    <2>4. IsFiniteSet(T) /\ Cardinality(T) <= Cardinality(Bind[c.key])
      BY <2>2, <2>3, FS_Subset
    <2> QED BY <1>7, <2>2, <2>4, FS_CardinalityType
  <1>9. x \in Nat
    BY TimesAre
  <1> HIDE DEF T, x
  <1>10. CASE p[1] # c.msg
    <2>1. R \subseteq S
      <3> SUFFICES ASSUME NEW t, t[1].msg = p[1],
                          CopyOwes(t, p[2], n)' \/ CallOwes(t, n)'
                   PROVE  CopyOwes(t, p[2], n) \/ CallOwes(t, n)
        BY DEF Owed
      <3>1. CallOwes(t, n)' => CallOwes(t, n)
        BY <1>1, <1>5 DEF CallOwes
      <3>2. t[1] \notin new
        BY <1>2, <1>10
      <3>3. CopyOwes(t, p[2], n)' => CopyOwes(t, p[2], n)
        BY <1>1, <1>5, <3>2 DEF CopyOwes, CopyTimes
      <3> QED BY <3>1, <3>3
    <2> QED BY <1>0, <1>1, <2>1, FewerFit
  <1>11. CASE p[1] = c.msg
    <2>1. PICK D \in SUBSET S :
            /\ IsFiniteSet(D) /\ Cardinality(D) = x * Weight(r)
            /\ \A t \in D : /\ t[1] = c
                            /\ t[2] = k.epoch + 1 \/ (t[2] = 0 /\ OnItsChannel(k))
      BY <1>11, RetryPays DEF x
    <2>2. R \subseteq (S \ D) \cup N
      <3> SUFFICES ASSUME NEW t \in R PROVE t \in (S \ D) \cup N
        OBVIOUS
      <3>1. /\ t \in Copy \X Nat \X Nat /\ t[1].msg = p[1]
            /\ CopyOwes(t, p[2], n)' \/ CallOwes(t, n)'
        BY DEF Owed
      <3>2. CASE CopyOwes(t, p[2], n)' /\ t[1] \in new
        <4>1. t[2] = 0 /\ t[3] \in 1..x * Share(t[1], p[2]) /\ t = <<t[1], 0, t[3]>>
          BY <1>1, <3>1, <3>2 DEF CopyOwes, CopyTimes, x
        <4> HIDE DEF new, r
        <4>2. <<t[1], 0, t[3]>> \in N
          BY <1>2, <1>7, <1>9, <3>2, <4>1, NewlyOwes
        <4> QED BY <4>1, <4>2
      <3>3. CASE CopyOwes(t, p[2], n)' /\ t[1] \notin new
        <4>1. CopyOwes(t, p[2], n)
          BY <1>1, <1>5, <3>3 DEF CopyOwes, CopyTimes
        <4>2. t[2] = 0 /\ (t[1] \in queued \/ t[1] \in unacked')
          BY <1>1, <3>3 DEF CopyOwes
        <4>3. t \notin D
          BY <1>4, <1>6, <2>1, <4>2
        <4> QED BY <3>1, <4>1, <4>3 DEF Owed
      <3>4. CASE CallOwes(t, n)'
        <4>1. PICK i \in calls' : /\ t[1] = i.copy /\ t[2] = i.epoch + 1
                                  /\ t[3] \in 1..CallTimes(i, n)' * Weight(i.copy.retry)
          BY <3>4 DEF CallOwes
        <4>2. i \in calls /\ i # k /\ i.epoch \in Nat
          BY <1>1, <4>1, CallTyped
        <4>3. CallOwes(t, n)
          BY <1>5, <4>1, <4>2 DEF CallOwes
        <4>4. t \notin D
          <5>1. ~(i.copy = c /\ i.epoch = k.epoch)
            BY <4>2 DEF Settlement, DeliveriesAreSettledOnce
          <5>2. t[2] # 0 /\ (t[2] = k.epoch + 1 => i.epoch = k.epoch)
            BY <1>6, <4>1, <4>2
          <5> QED BY <2>1, <4>1, <5>1, <5>2
        <4> QED BY <3>1, <4>3, <4>4 DEF Owed
      <3> QED BY <3>1, <3>2, <3>3, <3>4
    <2>3. /\ IsFiniteSet(N) /\ Cardinality(N) <= x + Cardinality(T) * (x * Weight(r + 1))
          /\ T = {} => N = {}
      BY <1>7, <1>8, <1>9, NewlyOwedSmall
    <2>4. /\ IsFiniteSet(S)
          /\ deliveries[p] + Cardinality(S) <= Doubled[epoch + n] * Budget[MaxRetries]
      BY <1>0 DEF Fits
    <2>5. Fits(p, n, n)' <=> /\ IsFiniteSet(R)
                             /\ deliveries[p] + Cardinality(R) <= Doubled[epoch + n] * Budget[MaxRetries]
      BY <1>1 DEF Fits
    <2> HIDE DEF N, S, R, r
    <2>6. Cardinality(N) \in Nat /\ x * Weight(r) \in Nat /\ Cardinality(N) <= x * Weight(r)
      <3>1. Cardinality(N) \in Nat
        BY <2>3, FS_CardinalityType
      <3>2. x * Weight(r) \in Nat
        BY <1>7, <1>9, Grows
      <3>3. CASE Fan = 0
        <4>1. T = {}
          BY <1>8, <3>3, FS_EmptySet
        <4>2. Cardinality(N) = 0
          BY <2>3, <4>1, FS_EmptySet
        <4> QED BY <3>1, <3>2, <4>2
      <3>4. CASE Fan # 0
        <4>1. 1 + Fan * Weight(r + 1) <= Weight(r)
          BY <1>6, <1>7, <3>4, WeightSteps
        <4>2. /\ Cardinality(T) * (x * Weight(r + 1)) \in Nat
              /\ x + Cardinality(T) * (x * Weight(r + 1)) <= x * Weight(r)
          BY <1>7, <1>8, <1>9, <4>1, RoundPays
        <4>3. PICK a \in Nat : a = Cardinality(T) * (x * Weight(r + 1))
          BY <4>2
        <4>4. PICK b \in Nat : b = x * Weight(r)
          BY <3>2
        <4>5. Cardinality(N) <= x + a /\ x + a <= b
          BY <2>3, <4>2, <4>3, <4>4
        <4> QED BY <1>9, <3>1, <4>4, <4>5
      <3> QED BY <3>3, <3>4
    <2>7. Cardinality(N) + 0 <= Cardinality(D)
      BY <2>1, <2>6
    <2>8. IsFiniteSet(R) /\ Cardinality(R) + 0 <= Cardinality(S)
      BY <2>1, <2>2, <2>3, <2>4, <2>7, Exchange
    <2>9. Cardinality(R) \in Nat /\ Cardinality(S) \in Nat
      BY <2>4, <2>8, FS_CardinalityType
    <2>10. PICK b \in Nat : b = Doubled[epoch + n] * Budget[MaxRetries] /\ deliveries[p] \in Nat
      BY WithinBudget
    <2>11. deliveries[p] + Cardinality(R) <= b
      BY <2>4, <2>8, <2>9, <2>10
    <2> QED BY <2>5, <2>8, <2>10, <2>11
  <1> QED BY <1>10, <1>11

\* Only messages that have been sent are about.
LEMMA UnsentNext == TypeOK /\ Unsent /\ [Next]_vars => Unsent'
  <1> SUFFICES ASSUME TypeOK, Unsent, [Next]_vars PROVE Unsent'
    OBVIOUS
  <1>1. ASSUME NEW m, NEW k, NEW T, Post(m, k, T) PROVE Unsent'
    BY <1>1 DEF Post, Enqueue, Copies, Unsent
  <1>2. ASSUME NEW q \in Queues, Subscribe(q) \/ Cancel(q) PROVE Unsent'
    BY <1>2 DEF Subscribe, Cancel, Unsent
  <1>3. ASSUME NEW c \in queued, Deliver(c) PROVE Unsent'
    <2>1. c \in Copy /\ c.msg \in sent
      BY DEF TypeOK, Unsent
    <2>2. \A p \in Pairs : p # PairOf(c) => deliveries'[p] = deliveries[p]
      BY <1>3 DEF Deliver, TypeOK
    <2>3. \A p \in Pairs : p[1] \notin sent => p # PairOf(c)
      BY <2>1 DEF PairOf
    <2>4. \A k \in calls' : k.copy.msg \in sent
      BY <1>3, <2>1 DEF Deliver, Unsent
    <2> QED BY <1>3, <2>1, <2>2, <2>3, <2>4 DEF Deliver, Unsent
  <1>4. ASSUME NEW c \in queued, Expire(c) PROVE Unsent'
    BY <1>4 DEF Expire, Unsent
  <1>5. ASSUME NEW k \in calls, CallStep(k) PROVE Unsent'
    <2>1. ASSUME NEW ph, NEW w, Advance(k, ph, w),
                 UNCHANGED <<queued, unacked, sent, deliveries>>
          PROVE  Unsent'
      <3> DEFINE n == [k EXCEPT !.phase = ph, !.why = w]
      <3>1. n.copy = k.copy
        BY DEF TypeOK, Call
      <3>2. calls' = (calls \ {k}) \cup {n}
        BY <2>1 DEF Advance
      <3> HIDE DEF n
      <3> QED BY <2>1, <3>1, <3>2 DEF Unsent
    <2>2. CASE HandlerReturns(k)
      BY <2>1, <2>2 DEF HandlerReturns
    <2>3. ASSUME NEW r \in Reasons, HandlerThrows(k, r) PROVE Unsent'
      BY <2>1, <2>3 DEF HandlerThrows
    <2>4. CASE Ack(k) \/ RetryFails(k) \/ GiveUp(k)
      BY <2>4 DEF Ack, RetryFails, GiveUp, Settled, Unsent
    <2>5. CASE AckThrows(k)
      BY <2>1, <2>5 DEF AckThrows
    <2>6. CASE Retry(k)
      BY <2>6 DEF Retry, RetryAs, Enqueue, Copies, Settled, Unsent
    <2> QED BY <1>5, <2>2, <2>3, <2>4, <2>5, <2>6 DEF CallStep
  <1>6. CASE Detach \/ ChannelLost \/ Reconnect
    BY <1>6 DEF Detach, ChannelLost, Reconnect, Unsent
  <1>7. CASE UNCHANGED vars
    BY <1>7 DEF vars, Unsent
  <1> QED
    BY <1>1, <1>2, <1>3, <1>4, <1>5, <1>6, <1>7
    DEF Next, Publishing, Publish, Send

LEMMA ThriftNext == TypeOK /\ Settlement /\ Thrift /\ [Next]_vars => Thrift'
  <1> SUFFICES ASSUME TypeOK, TypeOK', Settlement, Affordable, Unsent, [Next]_vars
               PROVE  Affordable'
    BY UnsentNext, TypeNext DEF Thrift
  <1> DEFINE Less == /\ UNCHANGED <<epoch, deliveries>>
                     /\ channel' = "closed" <=> channel = "closed"
                     /\ queued' \subseteq queued /\ unacked' \subseteq unacked
  <1>1. ASSUME Less, \A k \in calls' : \E i \in calls : i.copy = k.copy /\ i.epoch = k.epoch
        PROVE  Affordable'
    BY <1>1, ShrinkAffords
  <1>2. ASSUME Less, calls' \subseteq calls PROVE Affordable'
    <2>1. \A k \in calls' : \E i \in calls : i.copy = k.copy /\ i.epoch = k.epoch
      BY <1>2
    <2> QED BY <1>1, <1>2, <2>1
  <1>3. ASSUME Less, NEW k \in calls, NEW ph, NEW w, Advance(k, ph, w) PROVE Affordable'
    <2> DEFINE i == [k EXCEPT !.phase = ph, !.why = w]
    <2>1. i.copy = k.copy /\ i.epoch = k.epoch
      BY CallTyped DEF Call
    <2>2. calls' = (calls \ {k}) \cup {i}
      BY <1>3 DEF Advance
    <2> HIDE DEF i, Less
    <2>3. \A j \in calls' : \E h \in calls : h.copy = j.copy /\ h.epoch = j.epoch
      BY <2>1, <2>2
    <2> QED BY <1>1, <1>3, <2>3
  <1> HIDE DEF Less
  <1>4. ASSUME NEW m \in Messages, NEW t \in Topics, Publish(m, t) PROVE Affordable'
    <2>1. t \in Keys /\ Bind[t] \cap Existing \in SUBSET Queues
      BY RetryDeliveryAssumption DEF Keys
    <2> QED BY <1>4, <2>1, PostAffords DEF Publish
  <1>5. ASSUME NEW m \in Messages, NEW q \in Queues, Send(m, q) PROVE Affordable'
    <2>1. /\ q \in Keys /\ {q} \cap Existing \in SUBSET Queues
          /\ \E i \in Queues : {q} \cap Existing \subseteq {i}
      BY DEF Keys
    <2> QED BY <1>5, <2>1, PostAffords DEF Send
  <1>6. ASSUME NEW q \in Queues, Subscribe(q) \/ Cancel(q) PROVE Affordable'
    <2>1. Less /\ calls' \subseteq calls
      BY <1>6 DEF Subscribe, Cancel, Less
    <2> QED BY <1>2, <2>1
  <1>7. ASSUME NEW d \in queued, Deliver(d) PROVE Affordable'
    BY <1>7, DeliverAffords
  <1>8. ASSUME NEW d \in queued, Expire(d) PROVE Affordable'
    <2>1. Less /\ calls' \subseteq calls
      BY <1>8 DEF Expire, Less
    <2> QED BY <1>2, <2>1
  <1>9. ASSUME NEW k \in calls, CallStep(k) PROVE Affordable'
    <2>1. CASE Ack(k) \/ RetryFails(k) \/ GiveUp(k)
      <3>1. Less /\ calls' \subseteq calls
        BY <2>1 DEF Ack, RetryFails, GiveUp, Settled, Less
      <3> QED BY <1>2, <3>1
    <2>2. CASE HandlerReturns(k) \/ AckThrows(k)
      <3>1. Less /\ \E ph, w : Advance(k, ph, w)
        BY <2>2 DEF HandlerReturns, AckThrows, Less
      <3> QED BY <1>3, <3>1
    <2>3. ASSUME NEW r \in Reasons, HandlerThrows(k, r) PROVE Affordable'
      <3>1. Less /\ Advance(k, "failed", r)
        BY <2>3 DEF HandlerThrows, Less
      <3> QED BY <1>3, <3>1
    <2>4. CASE Retry(k)
      BY <2>4, RetryAffords
    <2> QED BY <1>9, <2>1, <2>2, <2>3, <2>4 DEF CallStep
  <1>10. CASE Detach \/ ChannelLost
    <2>1. CASE Detach
      <3>1. Less /\ calls' \subseteq calls
        BY <2>1 DEF Detach, Less
      <3> QED BY <1>2, <3>1
    <2> QED BY <1>10, <2>1, LossAffords
  <1>11. CASE Reconnect
    BY <1>11, ReconnectAffords
  <1>12. CASE UNCHANGED vars
    <2>1. Less /\ calls' \subseteq calls
      BY <1>12 DEF vars, Less
    <2> QED BY <1>2, <2>1
  <1> QED
    BY <1>4, <1>5, <1>6, <1>7, <1>8, <1>9, <1>10, <1>11, <1>12
    DEF Next, Publishing

LEMMA ThriftInit == Init => Thrift
  <1> SUFFICES ASSUME Init PROVE Thrift
    OBVIOUS
  <1>1. /\ Unsent /\ queued = {} /\ unacked = {} /\ calls = {}
        /\ \A p \in Pairs : deliveries[p] = 0
    BY DEF Init, Unsent
  <1>2. ASSUME NEW n \in Nat, NEW l \in Int, NEW p \in Pairs PROVE Fits(p, l, n)
    <2>1. Owed(p, l) = {}
      BY <1>1 DEF Owed, CopyOwes, CallOwes
    <2>2. PICK b \in Nat : b = Doubled[epoch + n] * Budget[MaxRetries]
      BY TypeInit, WithinBudget
    <2>3. IsFiniteSet({}) /\ Cardinality({}) = 0
      BY FS_EmptySet
    <2>4. deliveries[p] + 0 <= b
      BY <1>1, <2>2
    <2> QED BY <2>1, <2>2, <2>3, <2>4 DEF Fits
  <1> QED BY <1>1, <1>2 DEF Thrift, Affordable

(***************************************************************************)
(* With at most n queues bound to one key, no handler sees a message more  *)
(* than 1 + n + ... + n^MaxRetries times while no channel is lost, and at  *)
(* most twice as often for each channel that is, however deliveries,       *)
(* retries, expiries, cancellations and losses interleave.                 *)
(***************************************************************************)
THEOREM RetriesAreBounded == Spec => []RetryBudget
  <1>1. Init => TypeOK /\ Settlement /\ Thrift
    BY TypeInit, SettlementInit, ThriftInit
  <1>2. TypeOK /\ Settlement /\ Thrift /\ [Next]_vars => (TypeOK /\ Settlement /\ Thrift)'
    BY TypeNext, SettlementNext, ThriftNext
  <1>3. TypeOK /\ Settlement /\ Thrift => RetryBudget
    <2> SUFFICES ASSUME TypeOK, Thrift, NEW p \in Pairs
                 PROVE  deliveries[p] <= Doubled[epoch] * Budget[MaxRetries]
      BY DEF RetryBudget
    <2>1. epoch + 0 = epoch /\ 0 \in Nat
      BY DEF TypeOK
    <2>2. PICK l \in Int : l = Left(0)
      BY DEF Left
    <2>3. Fits(p, l, 0)
      BY <2>1, <2>2 DEF Thrift, Affordable
    <2>4. PICK b \in Nat : b = Doubled[epoch] * Budget[MaxRetries] /\ deliveries[p] \in Nat
      BY <2>1, WithinBudget
    <2>5. /\ Cardinality(Owed(p, l)) \in Nat
          /\ deliveries[p] + Cardinality(Owed(p, l)) <= b
      BY <2>1, <2>3, <2>4, FS_CardinalityType DEF Fits
    <2>6. deliveries[p] <= b
      BY <2>4, <2>5
    <2> QED BY <2>4, <2>6
  <1> QED BY <1>1, <1>2, <1>3, PTL DEF Spec
=============================================================================
