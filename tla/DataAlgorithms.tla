--------------------------- MODULE DataAlgorithms ---------------------------
(***************************************************************************)
(* The algorithms of the data side that keep no state: the check of a      *)
(* sync job's schedule, the resolution of conflicts between records, the   *)
(* matching of SKUs by rules, the anomalies of a series, the buckets and   *)
(* sums of the KPIs, the statistics of mappings and of sync runs, and the  *)
(* channel adapters' listings.                                             *)
(*                                                                         *)
(* Each is followed by what it promises, said without its steps.  Rates    *)
(* are in hundredths of a percent, as Math.round(x * 100) / 100 leaves     *)
(* them; doubles are taken to be exact.                                    *)
(***************************************************************************)
EXTENDS Integers, Sequences, FiniteSets, FiniteSetsExt

Null == "null"

(* Math.round(a / b) for a >= 0 and b > 0.                                 *)
Rounded(a, b) == (2 * a + b) \div (2 * b)

Rate(part, whole) == IF whole = 0 THEN 0 ELSE Rounded(part * 10000, whole)

(* The sum of what a function gives.                                       *)
Sum(values) == MapThenSumSet(LAMBDA i : values[i], DOMAIN values)

-----------------------------------------------------------------------------
(* cron-validator.ts.  A field is a set of parts; a part's shape is "*",   *)
(* "*/n", "a", "a-b", "a-b/n" or "a/n", its numbers a, b and n.            *)
(***************************************************************************)

First(part, min) == IF part.shape \in {"*", "*/n"} THEN min ELSE part.a
Last(part, max) ==
  CASE part.shape = "a" -> part.a
    [] part.shape \in {"a-b", "a-b/n"} -> part.b
    [] OTHER -> max
Step(part) == IF part.shape \in {"*/n", "a-b/n", "a/n"} THEN part.n ELSE 1

PartParses(part, min, max) ==
  /\ Step(part) > 0
  /\ First(part, min) >= min
  /\ Last(part, max) <= max
  /\ First(part, min) <= Last(part, max)

PartValues(part, min, max) ==
  {v \in First(part, min)..Last(part, max) : (v - First(part, min)) % Step(part) = 0}

(* null is no value; a field that parses has one.                          *)
ParseCronField(field, min, max) ==
  IF \A part \in field : PartParses(part, min, max)
  THEN UNION {PartValues(part, min, max) : part \in field}
  ELSE {}

(* The smallest of the differences is that of two neighbours.              *)
Gaps(values) == {pair[2] - pair[1] : pair \in {p \in values \X values : p[1] < p[2]}}

(* Mutant of MinGap: the last and the first of the next round are left out *)
MinGapWithin(values, wrapAt) ==
  IF Cardinality(values) <= 1 THEN wrapAt ELSE Min(Gaps(values))

MinGap(values, wrapAt) ==
  IF Cardinality(values) <= 1
  THEN wrapAt
  ELSE Min(Gaps(values) \cup {wrapAt - Max(values) + Min(values)})

Parsed(expr) ==
  [minutes |-> ParseCronField(expr.minute, 0, 59),
   hours |-> ParseCronField(expr.hour, 0, 23),
   daysOfMonth |-> ParseCronField(expr.dayOfMonth, 1, 31),
   months |-> ParseCronField(expr.month, 1, 12),
   daysOfWeek |-> ParseCronField(expr.dayOfWeek, 0, 6)]

Parses(times) == {} \notin {times[f] : f \in DOMAIN times}

ExecutionTimes(times) == {h * 60 + m : h \in times.hours, m \in times.minutes}

(* Only the days of the week, or of the month, decide; never the months.   *)
DayGap(times) ==
  CASE Cardinality(times.daysOfWeek) < 7 /\ Cardinality(times.daysOfMonth) = 31 ->
         MinGap(times.daysOfWeek, 7)
    [] Cardinality(times.daysOfMonth) < 31 -> MinGap(times.daysOfMonth, 31)
    [] OTHER -> 1

CalculateMinInterval(times) ==
  IF DayGap(times) > 1
  THEN DayGap(times) * 24 * 60
  ELSE MinGap(ExecutionTimes(times), 24 * 60)

ValidateCronExpression(expr) ==
  LET times == Parsed(expr)
  IN  Parses(times) /\ CalculateMinInterval(times) \in 5..(24 * 60)

(* What a scheduler does with the expression, minute by minute.            *)
Matches(field, v, min, max) ==
  \E part \in field :
    v \in First(part, min)..Last(part, max) /\ (v - First(part, min)) % Step(part) = 0
RunsAt(expr, t) ==
  /\ Matches(expr.hour, (t \div 60) % 24, 0, 23)
  /\ Matches(expr.minute, t % 60, 0, 59)

(* A job never runs twice within five minutes, even over midnight: of two  *)
(* days that both have runs, the runs are that far apart.                  *)
CronKeepsItsDistance(expr) ==
  ValidateCronExpression(expr) =>
    \A t \in 0..(2 * 24 * 60 - 1) :
      RunsAt(expr, t) => \A u \in (t + 1)..(t + 4) : ~RunsAt(expr, u)

(* The part of the 24 hours that the check enforces: a job that goes by    *)
(* the days of the week runs somewhere on two days in a row.  Once a week, *)
(* or every other day, is refused.                                         *)
RunsInWeek(expr, t) ==
  RunsAt(expr, t) /\ Matches(expr.dayOfWeek, (t \div (24 * 60)) % 7, 0, 6)
CronRunsTwoDaysRunning(expr) ==
  ValidateCronExpression(expr) /\ Parsed(expr).daysOfMonth = 1..31 =>
    \E t \in 0..(7 * 24 * 60 - 1) : RunsInWeek(expr, t) /\ RunsInWeek(expr, t + 24 * 60)

(* After each run of a job that goes by the days of the week the next one  *)
(* follows within 24 hours (cron-validator: "ensures the execution         *)
(* interval is between 5 minutes and 24 hours").  It does not: the check   *)
(* looks at the smallest gap between days, so Monday to Friday is accepted *)
(* and rests over the weekend.                                             *)
CronNeverRestsADay(expr) ==
  /\ Parsed(expr).daysOfMonth = 1..31 /\ Parsed(expr).months = 1..12
  /\ ValidateCronExpression(expr)
  => \A t \in 0..(7 * 24 * 60 - 1) :
       RunsInWeek(expr, t) => \E u \in (t + 1)..(t + 24 * 60) : RunsInWeek(expr, u)

-----------------------------------------------------------------------------
(* conflict-resolver.ts.  A value is what it means and how it is written;  *)
(* valuesEqual compares what JSON.stringify writes.                        *)
(***************************************************************************)

ValuesEqual(a, b) == a.written = b.written

Conflicts(local, remote) ==
  {f \in DOMAIN local \cap DOMAIN remote : ~ValuesEqual(local[f], remote[f])}

Resolve(local, remote) ==
  [f \in DOMAIN local \cup DOMAIN remote |->
     IF f \in Conflicts(local, remote) \/ f \notin DOMAIN local THEN remote[f] ELSE local[f]]

(* The channel's values win, no local field is lost, and every field that  *)
(* changes its meaning is reported as a conflict.                          *)
RemoteWins(local, remote) ==
  LET resolved == Resolve(local, remote)
  IN  /\ \A f \in DOMAIN remote : resolved[f].means = remote[f].means
      /\ \A f \in DOMAIN local \ DOMAIN remote : resolved[f] = local[f]
      /\ \A f \in DOMAIN local :
           resolved[f].means # local[f].means => f \in Conflicts(local, remote)

-----------------------------------------------------------------------------
(* fallback-matcher.ts.  A SKU has an id, a name, the name as normalizeName*)
(* leaves it, and attributes; a correction a SKU and attributes.           *)
(***************************************************************************)

(* computeAttributeSimilarity, times ten and the number of keys.           *)
Keys(a, b) == DOMAIN a \cup DOMAIN b
Similarity(a, b) ==
  LET shared == DOMAIN a \cap DOMAIN b
      same == {k \in shared : a[k] = b[k]}
  IN  10 * Cardinality(same) + 3 * Cardinality(shared \ same)

AtLeast(a, b, tenths) ==
  Keys(a, b) # {} /\ Similarity(a, b) >= tenths * Cardinality(Keys(a, b))

MoreSimilar(sku, a, b) ==
  Similarity(sku.attributes, a.attributes) * Cardinality(Keys(sku.attributes, b.attributes))
    > Similarity(sku.attributes, b.attributes) * Cardinality(Keys(sku.attributes, a.attributes))

(* Array.find: the first place that satisfies the test.                    *)
Found(places) == IF places = {} THEN 0 ELSE Min(places)

Result(id, confidence, matchType) ==
  [systemSkuId |-> id, confidence |-> confidence, matchType |-> matchType]

(* The corrections come newest first.                                      *)
Historical(sku, skus, corrections) ==
  {c \in DOMAIN corrections :
     /\ AtLeast(sku.attributes, corrections[c].attributes, 8)
     /\ \E i \in DOMAIN skus : skus[i].id = corrections[c].sku}

MostSimilar(sku, skus) ==
  {i \in DOMAIN skus :
     /\ AtLeast(sku.attributes, skus[i].attributes, 5)
     /\ \A j \in DOMAIN skus : ~MoreSimilar(sku, skus[j], skus[i])}

AttributeMatch(sku, ssku) ==
  LET confidence == Rounded(7 * Similarity(sku.attributes, ssku.attributes),
                            Cardinality(Keys(sku.attributes, ssku.attributes)))
  IN  Result(ssku.id, confidence,
             IF confidence >= 85 THEN "high_confidence" ELSE "needs_review")

Match(sku, skus, corrections) ==
  LET exact == Found({i \in DOMAIN skus : skus[i].name = sku.name})
      normalized == Found({i \in DOMAIN skus : skus[i].normal = sku.normal})
      historical == Found(Historical(sku, skus, corrections))
      similar == Found(MostSimilar(sku, skus))
  IN  CASE exact > 0 -> Result(skus[exact].id, 95, "high_confidence")
        [] exact = 0 /\ normalized > 0 -> Result(skus[normalized].id, 80, "needs_review")
        [] exact + normalized = 0 /\ historical > 0 ->
             Result(corrections[historical].sku, 90, "high_confidence")
        [] exact + normalized + historical = 0 /\ similar > 0 ->
             AttributeMatch(sku, skus[similar])
        [] OTHER -> Result(Null, 0, "no_match")

(* A match proposes one of the SKUs given or none; it is sure only of a    *)
(* name that is the same or a choice a user made; it gives up only on a    *)
(* SKU that shares no name and not half of its attributes with any.        *)
MatchIsJustified(sku, skus, corrections) ==
  LET result == Match(sku, skus, corrections)
      given == {skus[i] : i \in DOMAIN skus}
  IN  /\ result.matchType # "no_match" => \E s \in given : s.id = result.systemSkuId
      /\ result.matchType = "high_confidence" =>
           \/ \E s \in given : s.id = result.systemSkuId /\ s.name = sku.name
           \/ \E c \in DOMAIN corrections : corrections[c].sku = result.systemSkuId
      /\ result.matchType = "no_match" =>
           \A s \in given :
             s.name # sku.name /\ ~AtLeast(sku.attributes, s.attributes, 5)
      /\ (result.confidence >= 85) <=> (result.matchType = "high_confidence")

-----------------------------------------------------------------------------
(* anomaly-detector.ts.  A window's sum s and sum of squares q give its    *)
(* mean s/n and its variance (nq - s^2)/n^2, so the tests are about the    *)
(* integers nv - s and nq - s^2.                                           *)
(***************************************************************************)

Squares(values) == Sum([i \in DOMAIN values |-> values[i] * values[i]])

(* isAnomaly, the condition of detect too.                                 *)
IsAnomaly(value, recent, threshold) ==
  LET n == Len(recent)
      deviation == n * value - Sum(recent)
      spread == n * Squares(recent) - Sum(recent) * Sum(recent)
  IN  /\ n >= 2
      /\ deviation * deviation > threshold * threshold * spread

Window(values, i, windowSize) == SubSeq(values, Max({1, i - windowSize}), i - 1)

Detect(values, windowSize, threshold) ==
  [i \in DOMAIN values |-> IsAnomaly(values[i], Window(values, i, windowSize), threshold)]

(* A point is judged by its past alone, no shift of the whole series       *)
(* changes the judgement, and a point that its whole window equals is      *)
(* never an anomaly.                                                       *)
AnomaliesAreRelative(values, windowSize, threshold) ==
  LET found == Detect(values, windowSize, threshold)
  IN  /\ \A i \in DOMAIN values :
           Detect(SubSeq(values, 1, i), windowSize, threshold) = SubSeq(found, 1, i)
      /\ Detect([i \in DOMAIN values |-> values[i] + 1], windowSize, threshold) = found
      /\ \A i \in DOMAIN values :
           (\A j \in Max({1, i - windowSize})..(i - 1) : values[j] = values[i]) => ~found[i]

-----------------------------------------------------------------------------
(* kpi-aggregator.ts and kpi-query-service.ts, without their storage.      *)
(***************************************************************************)

(* generateTimeBuckets, for buckets of one length.                         *)
Buckets(start, end, length) ==
  {[start |-> s, end |-> Min({s + length, end})] :
     s \in {start + k * length : k \in 0..(end - start)} \cap start..(end - 1)}

(* Every moment of the period lies in one bucket, and no other moment.     *)
BucketsTile(start, end, length) ==
  \A t \in (start - 1)..(end + 1) :
    Cardinality({b \in Buckets(start, end, length) : b.start <= t /\ t < b.end})
      = IF t \in start..(end - 1) THEN 1 ELSE 0

(* buildKPIMetrics: counts are added, rates averaged row by row.           *)
ValuesOf(rows, metric) ==
  [i \in {i \in DOMAIN rows : rows[i].metric = metric} |-> rows[i].value]
Averaged(values) ==
  IF DOMAIN values = {} THEN 0 ELSE Rounded(Sum(values), Cardinality(DOMAIN values))
BuildKPIMetrics(rows) ==
  [orderCount |-> Sum(ValuesOf(rows, "order_count")),
   fulfillmentRate |-> Averaged(ValuesOf(rows, "fulfillment_rate")),
   returnRate |-> Averaged(ValuesOf(rows, "return_rate")),
   avgProcessingTime |-> Averaged(ValuesOf(rows, "avg_processing_time"))]

(* The average of rates is between the least and the greatest of them.     *)
AveragesLieBetween(rows) ==
  LET rates == ValuesOf(rows, "fulfillment_rate")
      rate == BuildKPIMetrics(rows).fulfillmentRate
  IN  DOMAIN rates # {} =>
        /\ \E i \in DOMAIN rates : rates[i] <= rate
        /\ \E i \in DOMAIN rates : rates[i] >= rate

-----------------------------------------------------------------------------
(* accuracy-service.ts: the rows of sku_mappings, counted by one statement *)
(* for each status and by a later one for each kind of match; in between   *)
(* rows are added and change, so each finds its own.                       *)
(***************************************************************************)

CountOf(mappings, field, value) ==
  Cardinality({i \in DOMAIN mappings : mappings[i][field] = value})

CalculateStats(rows, later) ==
  LET confirmed == CountOf(rows, "status", "confirmed")
      decided == confirmed + CountOf(rows, "status", "corrected")
  IN  [totalMatches |-> decided + CountOf(rows, "status", "pending")
                                + CountOf(rows, "status", "rejected"),
       accuracy |-> IF decided > 0 THEN Rate(confirmed, decided) ELSE 10000,
       types |-> [t \in {"high_confidence", "needs_review", "no_match"} |->
                    CountOf(later, "matchType", t)]]

Warned(rows, later) == CalculateStats(rows, later).accuracy < 8500

(* The total misses no mapping that the first statement found, the kinds   *)
(* exceed it by the mappings added before the second and by no more, and   *)
(* the report warns exactly from half a hundredth of a percent below 85    *)
(* confirmed in 100 decided, for the accuracy is rounded before it is      *)
(* compared (from 85 on is what is promised: WarnedBelow85).               *)
AccuracyIsFair(rows, later) ==
  LET stats == CalculateStats(rows, later)
      confirmed == CountOf(rows, "status", "confirmed")
      corrected == CountOf(rows, "status", "corrected")
  IN  /\ stats.totalMatches = Len(rows)
      /\ stats.types["high_confidence"] + stats.types["needs_review"]
           + stats.types["no_match"] - stats.totalMatches = Len(later) - Len(rows)
      /\ Warned(rows, later) <=> 20000 * confirmed < 16999 * (confirmed + corrected)

(* The report warns of every accuracy below 85 percent (accuracy-service:  *)
(* "Provides low-accuracy warning when accuracy < 85%").  It does not:     *)
(* 84.995 percent is rounded to 85 first.                                  *)
WarnedBelow85(rows, later) ==
  LET confirmed == CountOf(rows, "status", "confirmed")
      corrected == CountOf(rows, "status", "corrected")
  IN  100 * confirmed < 85 * (confirmed + corrected) => Warned(rows, later)

-----------------------------------------------------------------------------
(* routes.ts of data-sync, GET /sync/stats: per job the runs, newest first.*)
(***************************************************************************)

Recent(runs, limit) == SubSeq(runs, 1, Min({limit, Len(runs)}))
CountRuns(jobs, limit, wanted) ==
  Sum([j \in DOMAIN jobs |->
         Cardinality({i \in DOMAIN Recent(jobs[j], limit) : jobs[j][i] \in wanted})])

SyncStats(jobs) ==
  LET runs == UNION {{jobs[j][i] : i \in DOMAIN jobs[j]} : j \in DOMAIN jobs}
      failed == {run \in runs : run.status = "failed"}
      totalRuns == CountRuns(jobs, 50, runs)
      failedRuns == CountRuns(jobs, 50, failed)
      notFailed == CountRuns(jobs, 10, runs \ failed)
      timed == CountRuns(jobs, 50, {run \in runs : run.duration > 0})
      duration == Sum([j \in DOMAIN jobs |->
        Sum([i \in DOMAIN Recent(jobs[j], 50) |-> jobs[j][i].duration])])
  IN  [lastHourSyncs |-> Min({notFailed, totalRuns}),
       failureRate |-> [part |-> failedRuns, whole |-> totalRuns],
       avgDuration |-> IF timed > 0 THEN Rounded(duration, timed) ELSE 0]

(* The rate is one and leaves room for the syncs that are counted, and the *)
(* average lies between two durations that were measured.                  *)
StatsAreConsistent(jobs) ==
  LET stats == SyncStats(jobs)
      durations ==
        (UNION {{jobs[j][i].duration : i \in DOMAIN Recent(jobs[j], 50)} : j \in DOMAIN jobs})
          \ {0}
  IN  /\ stats.lastHourSyncs + stats.failureRate.part <= stats.failureRate.whole
      /\ durations # {} => stats.avgDuration \in Min(durations)..Max(durations)

-----------------------------------------------------------------------------
(* inventory-service.ts: the level of a warehouse from its items, and the  *)
(* statement that adds them up.                                            *)
(***************************************************************************)

Level(items, maxCapacity) ==
  LET stock == Sum([i \in DOMAIN items |-> items[i].quantity])
      threshold == IF items = <<>> THEN 0
                   ELSE Min({items[i].threshold : i \in DOMAIN items})
  IN  [utilizationRate |-> Rate(stock, maxCapacity),
       belowSafetyThreshold |-> stock < threshold]

(* A warehouse is reported short only if each of its items is; an item     *)
(* short among plenty of others is not reported.                           *)
ShortMeansAllShort(items, maxCapacity) ==
  Level(items, maxCapacity).belowSafetyThreshold =>
    \A i \in DOMAIN items : items[i].quantity < items[i].threshold
-----------------------------------------------------------------------------
(* The adapters.  A channel's item has a key of one or two names and the   *)
(* time of its last change; a name is the sequence of words its hyphens    *)
(* separate, so an id is the words of its parts one after the other.       *)
(***************************************************************************)

ShopifyTypes == {"orders", "products", "inventory"}
WmsTypes == {"inventory", "inbound", "outbound"}
ErpTypes == {"products", "suppliers"}
Adapters == [shopify |-> ShopifyTypes, wms |-> WmsTypes, erp |-> ErpTypes]

ConfigParses(source, config) ==
  config.apiKey /\ config.baseUrl /\ config.dataType \in Adapters[source]

RecordOf(prefix, item, action) ==
  [id |-> prefix \o item.key[1] \o (IF Len(item.key) = 2 THEN item.key[2] ELSE <<>>),
   updatedAt |-> item.updatedAt, action |-> action]

(* An inventory level's key is its item and location.                      *)
ShopifyRecord(dataType, item) ==
  RecordOf(<<"shopify", dataType>>, item, IF dataType = "inventory" THEN "update" ELSE "create")

(* An inventory record's key is its warehouse and SKU.                     *)
WmsRecord(dataType, item) ==
  IF dataType = "inventory"
  THEN RecordOf(<<"wms", "inventory">>, item, "update")
  ELSE RecordOf(<<"wms", "movement">>, item, "create")

ErpRecord(dataType, item) ==
  RecordOf(<<"erp", dataType>>, item,
           IF dataType = "products" /\ item.active THEN "create" ELSE "update")

Transformed(source, dataType, item) ==
  CASE source = "shopify" -> ShopifyRecord(dataType, item)
    [] source = "wms" -> WmsRecord(dataType, item)
    [] source = "erp" -> ErpRecord(dataType, item)

(* Without a cursor in the answer the next request has that of this one.   *)
FetchRecords(source, config, cursor, answer) ==
  [records |-> [i \in DOMAIN answer.items |->
                  Transformed(source, config.dataType, answer.items[i])],
   nextCursor |-> IF answer.cursor = 0 THEN cursor ELSE answer.cursor,
   hasMore |-> answer.hasMore]

(* A channel that lists its items page by page; the cursor 0 is none, and  *)
(* the last page's answer has none.                                        *)
Answer(items, size, cursor) ==
  LET hasMore == cursor + size < Len(items) IN
  [items |-> SubSeq(items, cursor + 1, Min({cursor + size, Len(items)})),
   cursor |-> IF hasMore THEN cursor + size ELSE 0,
   hasMore |-> hasMore]

FetchAllRecords(source, config, items, size) ==
  LET from[cursor \in 0..Len(items)] ==
        LET page == FetchRecords(source, config, cursor, Answer(items, size, cursor))
        IN  page.records \o IF page.hasMore THEN from[page.nextCursor] ELSE <<>>
  IN  from[0]

(* A listing in pages of any size has each item once, in the channel's     *)
(* order, and items with different keys are told apart, unless a key has   *)
(* two names and the first of one has a hyphen.                            *)
ListingIsWhole(source, config, items, size) ==
  ConfigParses(source, config) =>
    LET records == FetchAllRecords(source, config, items, size)
        Split(key) == Len(key) = 2 /\ Len(key[1]) > 1
    IN  /\ records = [i \in DOMAIN items |-> Transformed(source, config.dataType, items[i])]
        /\ \A i, j \in DOMAIN items :
             /\ records[i].id = records[j].id
             /\ items[i].key # items[j].key
             => Split(items[i].key) \/ Split(items[j].key)
=============================================================================
