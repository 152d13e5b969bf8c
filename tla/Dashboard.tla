------------------------------ MODULE Dashboard ------------------------------
(***************************************************************************)
(* The dashboard of src/backend/dashboard, and the part of the sync        *)
(* pipeline that feeds it: a sync of orders has the KPIs of the last hour  *)
(* computed, stored in kpi_aggregations and pushed to the subscribers; the *)
(* routes answer from a cache, or from the tables and then fill the cache. *)
(*                                                                         *)
(* An aggregation computes its four metrics in four statements and then    *)
(* stores them one by one; orders change, other aggregations and answers   *)
(* run between any two.  The pipeline aggregates one bucket, the hour that *)
(* ends now.  The tenant whose board this is shares the table of orders    *)
(* with another; the average processing time is known only by the number   *)
(* of orders it averages.  An order's created_at is when the transaction   *)
(* that inserts it began (NOW()), so an order may appear with a time that  *)
(* has passed.                                                             *)
(*                                                                         *)
(* The answers about stock and shifts do not depend on the aggregations:   *)
(* each behaviour follows the answers of one kind, and the KPIs are        *)
(* followed with the aggregations.                                         *)
(***************************************************************************)
EXTENDS Naturals, Sequences, FiniteSets, FiniteSetsExt

CONSTANTS
  Orders, Aggregations, Readers,
  Length,     \* aggregationWindowMs, the length of an hour
  PeriodEnd,  \* the end of the period the KPI answers are about
  MaxTime,    \* bound: the clock
  MaxLag,     \* bound: how long the transaction that places an order lasts
  Repairs,    \* what may be mended of the source.  "names": the schema has what
              \* the statements name and the tenant condition added to a join
              \* names its table (in the source there is no column
              \* orders.fulfilled_at, there are no tables shifts and
              \* shift_tasks, and tenant_id is ambiguous).  "filter": the
              \* tenant condition of the rates goes after their own WHERE (in
              \* the source after that of the FILTER)
  MaxFaults   \* bound: calls of PostgreSQL and Redis that fail

DashboardAssumption ==
  /\ Length \in Nat \ {0} /\ PeriodEnd \in Nat
  /\ MaxTime \in Nat /\ Length <= MaxTime
  /\ MaxLag \in 0..Length
  /\ Repairs \subseteq SUBSET {"names", "filter"} /\ Repairs # {}
  /\ MaxFaults \in Nat

VARIABLES
  repaired,
  kind,        \* the kind of the answers followed
  now,
  order,       \* order[o]: the row of orders
  rows,        \* the rows of kpi_aggregations
  aggregation, \* aggregation[a]: the local variables of a call of aggregate
  pushed,      \* history: the updates handed to the subscribers
  entry,       \* the cached answer
  reader,      \* reader[r]: the local variables of a request
  faults

vars == <<repaired, kind, now, order, rows, aggregation, pushed, entry, reader, faults>>

Metrics == <<"order_count", "fulfillment_rate", "return_rate", "avg_processing_time">>
Kinds == {"kpi", "levels", "stock", "tasks", "progress"}

NoOrder == [placed |-> FALSE]
NoEntry == [held |-> FALSE]

(* The routes answer 400 or 401 to what they cannot read before any of     *)
(* this.  The tables outlive the process.                                  *)
Init ==
  /\ repaired \in Repairs
  /\ kind \in Kinds
  /\ now = Length
  /\ order = [o \in Orders |-> NoOrder]
  /\ rows = {}
  /\ aggregation = [a \in Aggregations |-> [at |-> "idle"]]
  /\ pushed = {}
  /\ entry = NoEntry
  /\ reader = [r \in Readers |-> [at |-> "idle"]]
  /\ faults = 0

Fault ==
  /\ faults < MaxFaults
  /\ faults' = faults + 1

-----------------------------------------------------------------------------
(* Orders are placed and processed by someone else; no statement tells the *)
(* status of another tenant's orders.  An order seen first now may have    *)
(* been created a while ago.                                               *)

Place(o, tenant, at) ==
  /\ kind = "kpi"
  /\ ~order[o].placed
  /\ order' = [order EXCEPT ![o] =
       [placed |-> TRUE, tenant |-> tenant, at |-> at, seen |-> now, status |-> "open"]]
  /\ UNCHANGED <<repaired, kind, now, rows, aggregation, pushed, entry, reader, faults>>

Process(o) ==
  /\ order[o].placed /\ order[o].tenant = "own"
  /\ \/ order[o].status = "open" /\ order' = [order EXCEPT ![o].status = "fulfilled"]
     \/ order[o].status = "fulfilled" /\ order' = [order EXCEPT ![o].status = "returned"]
  /\ UNCHANGED <<repaired, kind, now, rows, aggregation, pushed, entry, reader, faults>>

Tick ==
  /\ kind = "kpi"
  /\ now < MaxTime
  /\ now' = now + 1
  /\ UNCHANGED <<repaired, kind, order, rows, aggregation, pushed, entry, reader, faults>>

-----------------------------------------------------------------------------
(* KPIAggregator.                                                          *)

(* created_at >= start AND created_at < end.                               *)
InBucket(o, start) ==
  order[o].placed /\ start <= order[o].at /\ order[o].at < start + Length

Placed(start) == {o \in Orders : InBucket(o, start)}
Own(S) == {o \in S : order[o].tenant = "own"}
InState(S, statuses) == {o \in S : order[o].status \in statuses}

(* The statements of computeMetricsForBucket.  The tenant condition goes   *)
(* after the first WHERE, in the rates that of the FILTER: what they count *)
(* of the tenant's orders they divide by everyone's.                       *)
Whole(start) == IF "filter" \in repaired THEN Own(Placed(start)) ELSE Placed(start)
Value(metric, start) ==
  LET all == Placed(start)
      whole == Cardinality(Whole(start))
  IN  CASE metric = "order_count" ->
             [part |-> Cardinality(Own(all)), whole |-> 0]
        [] metric = "fulfillment_rate" ->
             [part |-> Cardinality(InState(Own(all), {"fulfilled"})),
              whole |-> whole]
        [] metric = "return_rate" ->
             [part |-> Cardinality(InState(Own(all), {"returned"})),
              whole |-> whole]
        [] OTHER ->
             [part |-> Cardinality(InState(Own(all), {"fulfilled", "returned"})), whole |-> 0]

(* onSyncComplete of a sync of orders that processed some, and             *)
(* triggerAggregation.  The subscribers are told of the sync at once, not  *)
(* when its KPIs are there.                                                *)
SyncComplete(a) ==
  /\ kind = "kpi"
  /\ aggregation[a].at = "idle"
  /\ aggregation' = [aggregation EXCEPT ![a] =
       [at |-> "computing", start |-> now - Length, values |-> <<>>, unsaved |-> {}]]
  /\ UNCHANGED <<repaired, kind, now, order, rows, pushed, entry, reader, faults>>

(* A statement that fails ends the aggregation; triggerAggregation logs it *)
Abandon(a) ==
  aggregation' = [aggregation EXCEPT ![a].at = "ended", ![a].values = <<>>]

Compute(a) ==
  /\ aggregation[a].at = "computing"
  /\ LET metric == Metrics[Len(aggregation[a].values) + 1]
         values == Append(aggregation[a].values, Value(metric, aggregation[a].start))
     IN  IF metric = "avg_processing_time" /\ "names" \notin repaired
         THEN Abandon(a)
         ELSE aggregation' = [aggregation EXCEPT
                ![a].values = values,
                ![a].at = IF Len(values) = Len(Metrics) THEN "storing" ELSE @]
  /\ UNCHANGED <<repaired, kind, now, order, rows, pushed, entry, reader, faults>>

ComputeFails(a) ==
  /\ Fault
  /\ aggregation[a].at = "computing"
  /\ Abandon(a)
  /\ UNCHANGED <<repaired, kind, now, order, rows, pushed, entry, reader>>

(* The metrics are stored in their order; values keeps those to come.      *)
Storing(a) == Metrics[Len(Metrics) - Len(aggregation[a].values) + 1]
Result(a) ==
  [metric |-> Storing(a), start |-> aggregation[a].start, value |-> Head(aggregation[a].values)]

(* Mutant of Upserted: the conflict key leaves the period out.             *)
UpsertedByMetric(row) == {r \in rows : r.metric # row.metric} \cup {row}

(* ON CONFLICT DO UPDATE.                                                  *)
Upserted(row) ==
  {r \in rows : <<r.metric, r.start>> # <<row.metric, row.start>>} \cup {row}

(* After the last, onUpdate is called for each result.                     *)
Stored(a, unsaved) ==
  LET last == Len(aggregation[a].values) = 1
  IN  /\ aggregation' = [aggregation EXCEPT
           ![a].values = Tail(@),
           ![a].unsaved = @ \cup unsaved,
           ![a].at = IF last THEN "ended" ELSE @]
      /\ pushed' = IF last THEN pushed \cup {aggregation[a].start} ELSE pushed

(* persistAggregation, and cacheAggregation, whose keys nobody reads.      *)
Persist(a) ==
  /\ aggregation[a].at = "storing"
  /\ rows' = Upserted(Result(a))
  /\ Stored(a, {})
  /\ UNCHANGED <<repaired, kind, now, order, entry, reader, faults>>

PersistFails(a) ==
  /\ Fault
  /\ aggregation[a].at = "storing"
  /\ Stored(a, {Storing(a)})
  /\ UNCHANGED <<repaired, kind, now, order, rows, entry, reader>>

-----------------------------------------------------------------------------
(* The routes and their services: tryGetFromCache, the statements, and     *)
(* cacheResult.                                                            *)

Statements == IF kind = "progress" THEN 3 ELSE 1

(* period_end <= the end of the period, so a bucket that ends later is no  *)
(* part of it.  Of the KPIs' answers, the counts of orders: those the      *)
(* metrics add up, and the trend of that metric.                           *)
Answer ==
  IF kind = "kpi"
  THEN {r \in rows : r.metric = "order_count" /\ r.start + Length <= PeriodEnd}
  ELSE {}

Respond(r) == reader' = [reader EXCEPT ![r] = [at |-> "idle"]]
Miss(r) == reader' = [reader EXCEPT ![r] = [at |-> "querying", left |-> Statements]]

CacheGet(r) ==
  /\ reader[r].at = "idle"
  /\ IF entry.held THEN Respond(r) ELSE Miss(r)
  /\ UNCHANGED <<repaired, kind, now, order, rows, aggregation, pushed, entry, faults>>

CacheGetFails(r) ==
  /\ Fault
  /\ reader[r].at = "idle"
  /\ Miss(r)
  /\ UNCHANGED <<repaired, kind, now, order, rows, aggregation, pushed, entry>>

(* The warehouses' levels join two tables; shifts and their tasks have no  *)
(* tables.  A shift that has no predecessor needs no third statement.      *)
Query(r) ==
  /\ reader[r].at = "querying"
  /\ \/ "names" \notin repaired /\ kind \in {"levels", "tasks", "progress"} /\ Respond(r)
     \/ /\ "names" \in repaired \/ kind \notin {"levels", "tasks", "progress"}
        /\ \/ reader[r].left > 1 /\ reader' = [reader EXCEPT ![r].left = @ - 1]
           \/ /\ reader[r].left <= 2 /\ (reader[r].left = 2 => kind = "progress")
              /\ reader' = [reader EXCEPT ![r] = [at |-> "filling", answer |-> Answer]]
  /\ UNCHANGED <<repaired, kind, now, order, rows, aggregation, pushed, entry, faults>>

QueryFails(r) ==
  /\ Fault
  /\ reader[r].at = "querying"
  /\ Respond(r)
  /\ UNCHANGED <<repaired, kind, now, order, rows, aggregation, pushed, entry>>

CacheSet(r) ==
  /\ reader[r].at = "filling"
  /\ entry' = [held |-> TRUE, answer |-> reader[r].answer]
  /\ Respond(r)
  /\ UNCHANGED <<repaired, kind, now, order, rows, aggregation, pushed, faults>>

CacheSetFails(r) ==
  /\ Fault
  /\ reader[r].at = "filling"
  /\ Respond(r)
  /\ UNCHANGED <<repaired, kind, now, order, rows, aggregation, pushed, entry>>

(* The entry's TTL.  Nothing else removes it.                              *)
Expire ==
  /\ entry.held
  /\ entry' = NoEntry
  /\ UNCHANGED <<repaired, kind, now, order, rows, aggregation, pushed, reader, faults>>

Next ==
  \/ \E o \in Orders :
       \/ Process(o)
       \/ \E tenant \in {"own", "other"}, at \in (now - MaxLag)..now : Place(o, tenant, at)
  \/ Tick
  \/ \E a \in Aggregations :
       \/ SyncComplete(a) \/ Compute(a) \/ ComputeFails(a)
       \/ Persist(a) \/ PersistFails(a)
  \/ \E r \in Readers :
       \/ CacheGet(r) \/ CacheGetFails(r) \/ Query(r) \/ QueryFails(r)
       \/ CacheSet(r) \/ CacheSetFails(r)
  \/ Expire

Spec == Init /\ [][Next]_vars

-----------------------------------------------------------------------------
(* The rows are those of aggregations, the orders were created before they *)
(* are seen.                                                               *)
TypeOK ==
  /\ repaired \in Repairs /\ kind \in Kinds /\ faults \in 0..MaxFaults
  /\ now \in Length..MaxTime
  /\ \A o \in Orders :
       order[o].placed =>
         order[o].seen \in Length..now /\ order[o].at \in 0..order[o].seen
  /\ rows \subseteq [metric : {Metrics[i] : i \in 1..4}, start : 0..now,
                     value : [part : Nat, whole : Nat]]
  /\ pushed \subseteq 0..now
  /\ entry.held => entry.answer \subseteq
       [metric : {Metrics[i] : i \in 1..4}, start : 0..now, value : [part : Nat, whole : Nat]]

Counted(S) == MapThenSumSet(LAMBDA r : r.value.part, S)
Overlap(r, s) == r # s /\ r.start < s.start + Length /\ s.start < r.start + Length

(* An answer counts more orders than the tenant has only if it adds the    *)
(* counts of buckets that overlap: aggregations of syncs less than an hour *)
(* apart.                                                                  *)
OvercountHasACause ==
  entry.held =>
    \/ Counted(entry.answer) <= Cardinality(Own({o \in Orders : order[o].placed}))
    \/ \E r, s \in entry.answer : Overlap(r, s)

HasRow(metric, start) == \E r \in rows : r.metric = metric /\ r.start = start

(* What is pushed has been stored, but for rows whose own statement failed *)
(* although the aggregation went on.                                       *)
PushedIsStored ==
  \A start \in pushed :
    \A i \in 1..4 :
      \/ HasRow(Metrics[i], start)
      \/ \E a \in Aggregations :
           /\ aggregation[a].at = "ended" /\ aggregation[a].start = start
           /\ Metrics[i] \in aggregation[a].unsaved

Rates == {"fulfillment_rate", "return_rate"}

(* An order of the tenant's that appeared after its hour had ended.        *)
AppearedLate(start) == \E o \in Own(Placed(start)) : order[o].seen >= start + Length

(* Rows of one bucket are written by several statements and aggregations.  *)
(* What the others count is part of the orders counted, and what the rates *)
(* divide by is their number, with a tenant condition that reaches it,     *)
(* unless an order appeared in the hour after it had ended.                *)
RatesFitTheCount ==
  \A c, r \in rows :
    c.metric = "order_count" /\ r.start = c.start =>
      \/ AppearedLate(c.start)
      \/ /\ r.value.part <= c.value.part
         /\ r.metric \in Rates /\ "filter" \in repaired => r.value.whole = c.value.part

(* The requirement (m2 5.6): a tenant's figures are of its own orders.     *)
(* That is so with the filter repaired; in the source the rates divide by  *)
(* everyone's.                                                             *)
RatesAreOwn ==
  \A r \in rows :
    r.metric \in Rates => r.value.whole <= Cardinality(Own(Placed(r.start)))

(* An aggregation that met no fault has stored its rows.                   *)
AggregationsAreStored ==
  \A a \in Aggregations :
    aggregation[a].at = "ended" /\ faults = 0 =>
      \A i \in 1..4 : HasRow(Metrics[i], aggregation[a].start)

(* The KPIs that are stored, pushed and answered belong together, and what *)
(* each repair is for holds with it.                                       *)
BoardAgrees ==
  /\ OvercountHasACause
  /\ PushedIsStored
  /\ RatesFitTheCount
  /\ "names" \in repaired => AggregationsAreStored
  /\ "filter" \in repaired => RatesAreOwn
=============================================================================
