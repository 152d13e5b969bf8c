---------------------------- MODULE QueueMetrics ----------------------------
(***************************************************************************)
(* MessageBrokerMetrics of src/infrastructure/messaging/metrics.ts: every  *)
(* interval a poll asks the broker for the statistics of each queue, one   *)
(* after the other, and turns them into rates with what was published and  *)
(* what the poll before has seen.                                          *)
(*                                                                         *)
(* A poll that takes longer than the interval overlaps the next.  Their    *)
(* requests go over one channel, which answers in order, so an older poll  *)
(* is ahead of a younger at each queue.  Messages are published, recorded, *)
(* delivered to their queue and consumed between any two answers; whoever  *)
(* publishes (external) records each message before it arrives.  Warnings, *)
(* times and the count of consumers are left out.                          *)
(***************************************************************************)
EXTENDS Naturals, Sequences, Functions

CONSTANTS
  QueueCount,   \* the length of config.queues
  MaxMessages,  \* bound: messages published
  MaxPolls,     \* bound: polls in flight
  MaxFaults     \* bound: statistics that cannot be read

MetricsAssumption ==
  /\ QueueCount \in Nat \ {0} /\ MaxMessages \in Nat
  /\ MaxPolls \in Nat \ {0} /\ MaxFaults \in Nat

VARIABLES
  recorded, arrived, consumed,  \* per queue: messages so far (history but for
                                \* what is in the queue, arrived - consumed)
  running,        \* isRunning, and with it the interval timer
  publishCounts,
  polls,          \* the polls in flight, oldest first: the statistics read
  previousStats,
  currentMetrics,
  reported,       \* history: the sum of a queue's publishedRates
  truth,          \* history: what the last report of a queue was about
  faults

vars == <<recorded, arrived, consumed, running, publishCounts, polls, previousStats,
          currentMetrics, reported, truth, faults>>

Queues == 1..QueueCount
Zero == [q \in Queues |-> 0]
None == [known |-> FALSE]

(* messageCount is arrived - consumed; the two are kept apart for truth.   *)
Stats(q) == [known |-> TRUE, arrived |-> arrived[q], consumed |-> consumed[q]]
MessageCount(stats) == stats.arrived - stats.consumed

Init ==
  /\ recorded = Zero /\ arrived = Zero /\ consumed = Zero
  /\ running = FALSE
  /\ publishCounts = Zero
  /\ polls = <<>>
  /\ previousStats = [q \in Queues |-> None]
  /\ currentMetrics = [q \in Queues |-> [publishedRate |-> 0, consumedRate |-> 0]]
  /\ reported = Zero
  /\ truth = [q \in Queues |-> [consumed |-> 0, late |-> 0, early |-> 0]]
  /\ faults = 0

-----------------------------------------------------------------------------
(* The publisher, the broker and the consumers.                            *)

RecordPublish(q) ==
  /\ FoldFunction(+, 0, recorded) < MaxMessages
  /\ recorded' = [recorded EXCEPT ![q] = @ + 1]
  /\ publishCounts' = [publishCounts EXCEPT ![q] = @ + 1]
  /\ UNCHANGED <<arrived, consumed, running, polls, previousStats, currentMetrics,
                 reported, truth, faults>>

Arrive(q) ==
  /\ arrived[q] < recorded[q]
  /\ arrived' = [arrived EXCEPT ![q] = @ + 1]
  /\ UNCHANGED <<recorded, consumed, running, publishCounts, polls, previousStats,
                 currentMetrics, reported, truth, faults>>

Consume(q) ==
  /\ consumed[q] < arrived[q]
  /\ consumed' = [consumed EXCEPT ![q] = @ + 1]
  /\ UNCHANGED <<recorded, arrived, running, publishCounts, polls, previousStats,
                 currentMetrics, reported, truth, faults>>

-----------------------------------------------------------------------------
(* The collector.  A poll begins at once with start and with each tick,    *)
(* whether or not others are under way; stop ends none of them.            *)

Begin ==
  /\ Len(polls) < MaxPolls
  /\ polls' = Append(polls, <<>>)
  /\ UNCHANGED <<recorded, arrived, consumed, publishCounts, previousStats,
                 currentMetrics, reported, truth, faults>>

Start == ~running /\ running' = TRUE /\ Begin

Tick == running /\ UNCHANGED running /\ Begin

Stop ==
  /\ running
  /\ running' = FALSE
  /\ UNCHANGED <<recorded, arrived, consumed, publishCounts, polls, previousStats,
                 currentMetrics, reported, truth, faults>>

(* One getQueueStats of getAllQueueStats: the broker counts, or the call   *)
(* fails and the queue is skipped.                                         *)
GetQueueStats(p) ==
  LET q == Len(polls[p]) + 1 IN
  /\ q \in Queues
  /\ \A older \in 1..(p - 1) : Len(polls[older]) >= q
  /\ \/ /\ polls' = [polls EXCEPT ![p] = Append(@, Stats(q))]
        /\ UNCHANGED faults
     \/ /\ faults < MaxFaults
        /\ polls' = [polls EXCEPT ![p] = Append(@, None)]
        /\ faults' = faults + 1
  /\ UNCHANGED <<recorded, arrived, consumed, running, publishCounts, previousStats,
                 currentMetrics, reported, truth>>

ConsumedRate(q, stats) ==
  LET expected == MessageCount(previousStats[q]) + publishCounts[q]
  IN  IF previousStats[q].known /\ expected > MessageCount(stats)
      THEN expected - MessageCount(stats)
      ELSE 0

(* Mutant of Counted: the counts are of all time.                          *)
CountedOn(q) == publishCounts[q]

(* publishCounts.clear(): of the queues that were skipped, too.            *)
Counted(q) == 0

(* What the rates of q should say: the messages consumed since the         *)
(* statistics before; those recorded that came too late for these          *)
(* statistics, and for those before.                                       *)
Truth(q, stats) ==
  [consumed |-> IF previousStats[q].known THEN stats.consumed - previousStats[q].consumed ELSE 0,
   late |-> recorded[q] - stats.arrived,
   early |-> truth[q].late]

(* The rest of the oldest poll once it has its answers, without an await.  *)
Report ==
  /\ polls # <<>> /\ Len(Head(polls)) = QueueCount
  /\ LET stats == Head(polls)
         Known == {q \in Queues : stats[q].known}
     IN  /\ currentMetrics' = [q \in Queues |->
              IF q \in Known
              THEN [publishedRate |-> publishCounts[q], consumedRate |-> ConsumedRate(q, stats[q])]
              ELSE currentMetrics[q]]
         /\ previousStats' = [q \in Queues |->
              IF q \in Known THEN stats[q] ELSE previousStats[q]]
         /\ reported' = [q \in Queues |->
              reported[q] + IF q \in Known THEN publishCounts[q] ELSE 0]
         /\ truth' = [q \in Queues |-> IF q \in Known THEN Truth(q, stats[q]) ELSE truth[q]]
  /\ publishCounts' = [q \in Queues |-> Counted(q)]
  /\ polls' = Tail(polls)
  /\ UNCHANGED <<recorded, arrived, consumed, running, faults>>

Next ==
  \/ \E q \in Queues : RecordPublish(q) \/ Arrive(q) \/ Consume(q)
  \/ Start \/ Tick \/ Stop
  \/ \E p \in DOMAIN polls : GetQueueStats(p)
  \/ Report

Spec == Init /\ [][Next]_vars

-----------------------------------------------------------------------------
Statistics == [known : {FALSE}] \cup [known : {TRUE}, arrived : Nat, consumed : Nat]

TypeOK ==
  /\ \A count \in {recorded, arrived, consumed, publishCounts, reported} :
       count \in [Queues -> Nat]
  /\ running \in BOOLEAN
  /\ polls \in Seq(Seq(Statistics)) /\ Len(polls) <= MaxPolls
  /\ previousStats \in [Queues -> Statistics]
  /\ currentMetrics \in [Queues -> [publishedRate : Nat, consumedRate : Nat]]
  /\ truth \in [Queues -> [consumed : Nat, late : Nat, early : Nat]]
  /\ faults \in 0..MaxFaults

(* However polls overlap and whatever happens during one, each publish is  *)
(* reported once, but for those a poll clears without the statistics of    *)
(* their queue; and the messages said to be consumed exceed those that     *)
(* were by no more than the publishes that were recorded before the report *)
(* and missed its statistics (so nothing needs to have been consumed), and *)
(* fall short by no more than those that missed the statistics before.     *)
RatesAreExplained ==
  \A q \in Queues :
    LET rate == currentMetrics[q].consumedRate IN
    /\ reported[q] + publishCounts[q] <= recorded[q]
    /\ rate <= truth[q].consumed + truth[q].late
    /\ faults = 0 =>
         /\ reported[q] + publishCounts[q] = recorded[q]
         /\ truth[q].consumed <= rate + truth[q].early
=============================================================================
