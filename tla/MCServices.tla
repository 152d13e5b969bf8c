----------------------------- MODULE MCServices -----------------------------
(***************************************************************************)
(* The services around the message broker, the sync worker and onboarding, *)
(* for TLC: those of the agents (MCAgentSide) and those of the data, which *)
(* are the schedules of syncs, the query tools, the SKU mappings, the      *)
(* dashboard and the algorithms without state, and with them the broker's  *)
(* metrics and the browser's socket.  A behaviour follows one of them.     *)
(* Each has one instance, whose constants are mostly those of this module. *)
(***************************************************************************)
EXTENDS MCAgentSide

CONSTANTS
  Jobs,                                      \* of SyncSchedule
  Tenants, Syncs, MaxWrites,                 \* of QueryTools
  MatchIds, Decisions, ChannelSkus, Batches, \* of SkuMapping
  Orders, Readers,                           \* of Dashboard
  Length, PeriodEnd, MaxTime, MaxLag,
  QueueCount, MaxMessages, MaxPolls,         \* of QueueMetrics
  Sessions, NoSession, MaxReconnectAttempts  \* of OnboardingSocket

VARIABLES
  updateBinds, jobRows, hasRuns, scheduled, queue, request_, tangled, scheduleFaults,
  queryRepairs, dataType, data, entries, query, sync, synced, queryFaults,
  channelSkus, mapping, corrections, match, decision, chosen, import, mappingFaults,
  boardRepairs, boardKind, now, order, kpiRows, aggregation, pushed, entry, reader,
  boardFaults,
  recorded, arrived, consumed, running, publishCounts, polls, previousStats,
  currentMetrics, reported, truth, metricFaults,
  page, pageSocket, wsRef, isConnected, attempts, timer, heard,
  input

scheduleVars ==
  <<updateBinds, jobRows, hasRuns, scheduled, queue, request_, tangled, scheduleFaults>>
queryVars == <<queryRepairs, dataType, data, entries, query, sync, synced, queryFaults>>
mappingVars ==
  <<channelSkus, mapping, corrections, match, decision, chosen, import, mappingFaults>>
boardVars ==
  <<boardRepairs, boardKind, now, order, kpiRows, aggregation, pushed, entry, reader,
    boardFaults>>
metricVars ==
  <<recorded, arrived, consumed, running, publishCounts, polls, previousStats,
    currentMetrics, reported, truth, metricFaults>>
pageVars == <<page, pageSocket, wsRef, isConnected, attempts, timer, heard>>
dataVars ==
  <<scheduleVars, queryVars, mappingVars, boardVars, metricVars, pageVars, input>>
vars == <<focus, agentVars, dataVars>>

Schedules == INSTANCE SyncSchedule WITH
  Crons <- Ids, Requests <- MoreIds, Repairs <- BOOLEAN,
  repaired <- updateBinds, rows <- jobRows, request <- request_, faults <- scheduleFaults
Queries == INSTANCE QueryTools WITH
  Calls <- Ids, Repairs <- {{}, {"condition", "column"}}, repaired <- queryRepairs,
  faults <- queryFaults

Mappings == INSTANCE SkuMapping WITH
  SystemSkus <- Ids, Matches <- MatchIds, faults <- mappingFaults
Board == INSTANCE Dashboard WITH
  Aggregations <- Ids, Repairs <- {{}, {"names", "filter"}}, repaired <- boardRepairs,
  kind <- boardKind,
  rows <- kpiRows, faults <- boardFaults
Metrics == INSTANCE QueueMetrics WITH faults <- metricFaults
Page == INSTANCE OnboardingSocket WITH Sockets <- Ids, socket <- pageSocket
Algorithms == INSTANCE DataAlgorithms

(* INSTANCE leaves the modules' assumptions on their constants to be said. *)
ASSUME ServicesAssumption ==
  /\ ToolServices!Registry!RegistryAssumption /\ ToolServices!Executor!SandboxAssumption
  /\ Llm!GatewayAssumption /\ Chat!ChatAssumption /\ Platform!PlatformAssumption
  /\ WebSocket!SocketAssumption /\ EventStream!ManagerAssumption
  /\ Schedules!ScheduleAssumption /\ Queries!QueryAssumption
  /\ Mappings!MappingAssumption /\ Board!DashboardAssumption
  /\ Metrics!MetricsAssumption /\ Page!HookAssumption

-----------------------------------------------------------------------------
(* The imports: each way a record can end, after others and before others. *)
Record(c, o) == [sku |-> c, outcome |-> o]
Imports ==
  {<<Record("c1", "valid"), Record("c2", "refused"), Record("c2", "valid")>>,
   <<Record("c1", "valid"), Record("c1", "invalid"), Record("c2", "valid")>>}

(* The inputs of the algorithms.                                           *)

UpTo(n, S) == UNION {[1..i -> S] : i \in 0..n}

Part(shape, a, b, n) == [shape |-> shape, a |-> a, b |-> b, n |-> n]
Every == {Part("*", 0, 0, 0)}
At(a) == Part("a", a, 0, 0)
Minutes ==
  {{Part("*/n", 0, 0, 5)}, {Part("*/n", 0, 0, 7)}, {Part("*/n", 0, 0, 0)}, {At(0)}, {At(60)},
   {At(0), At(58)}, {At(0), At(4)}, {Part("a-b/n", 10, 40, 6)}, {Part("a/n", 5, 0, 20)},
   {Part("a-b", 3, 1, 0)}, {Part("a-b", 1, 3, 0)}}
Hours == {{At(3)}, {At(0), At(23)}, {Part("a-b", 22, 23, 0)}}
Days ==
  {<<Every, Every, Every>>, <<Every, Every, {Part("a-b", 1, 5, 0)}>>,
   <<Every, Every, {At(1)}>>, <<Every, Every, {At(1), At(3), At(5)}>>,
   <<Every, Every, {At(0), At(6)}>>, <<{At(1), At(15)}, Every, Every>>,
   <<{Part("a-b", 1, 3, 0)}, {At(1)}, {At(0)}>>}
Crons ==
  {[minute |-> m, hour |-> h, dayOfMonth |-> d[1], month |-> d[2], dayOfWeek |-> d[3]] :
     m \in Minutes \cup {Every}, h \in Hours, d \in Days} \cup
  {[minute |-> m, hour |-> Every, dayOfMonth |-> Every, month |-> Every, dayOfWeek |-> Every] :
     m \in Minutes}

FieldValues == [means : {1}, written : {"1"}] \cup [means : {2}, written : {"2", "2.0"}]
Records == UNION {[F -> FieldValues] : F \in SUBSET {"f", "g"}}

Sku(id, name, attributes) ==
  [id |-> id, name |-> name[1], normal |-> name[2], attributes |-> attributes]
Names == {<<"A", "a">>, <<"A!", "a">>, <<"B", "b">>}
Attributes == UNION {[F -> {"x", "y"}] : F \in SUBSET {"k", "l"}}
Given ==
  UpTo(1, {Sku("s", n, a) : n \in Names, a \in Attributes}) \cup
  {<<Sku("s", n, [k |-> "x"]), Sku("t", m, a)>> : n \in Names, m \in Names, a \in Attributes}
Corrections ==
  {<<>>, <<[sku |-> "s", attributes |-> [k |-> "x"]]>>,
   <<[sku |-> "gone", attributes |-> [k |-> "x"]], [sku |-> "t", attributes |-> [k |-> "x"]]>>}

KpiRows == [metric : {"order_count", "fulfillment_rate"}, value : {0, 3333, 10000}]
MatchTypes == {"high_confidence", "needs_review", "no_match"}
MappingRows ==
  [status : {"pending", "confirmed", "corrected", "rejected"}, matchType : MatchTypes]
LaterRows == [status : {"pending"}, matchType : MatchTypes]
Runs == [status : {"failed", "success"}, duration : {0, 1, 4}]
Items == [quantity : 0..2, threshold : 0..2]

Words == {<<"a">>, <<"b">>, <<"a", "b">>}
KeysOf(type) ==
  IF type = "inventory" THEN {<<v, w>> : v \in Words, w \in Words} ELSE {<<w>> : w \in Words}
Configs == [apiKey : BOOLEAN, baseUrl : {TRUE}, dataType : {"orders", "inventory", "products",
                                                            "inbound", "suppliers"}]
Listings ==
  UNION {{[source |-> source, config |-> config, size |-> size,
           items |-> [i \in DOMAIN keys |->
                        [key |-> keys[i], updatedAt |-> i, active |-> i = 1]]] :
            keys \in UpTo(IF config.dataType = "inventory" THEN 2 ELSE 3,
                          KeysOf(config.dataType))} :
         source \in {"shopify", "wms", "erp"}, config \in Configs, size \in 1..2}

Inputs ==
  {[algorithm |-> "cron", of |-> c] : c \in Crons} \cup
  {[algorithm |-> "conflict", of |-> r] : r \in Records \X Records} \cup
  {[algorithm |-> "match", of |-> m] :
     m \in {Sku("c", <<"A", "a">>, a) : a \in Attributes} \X Given \X Corrections} \cup
  {[algorithm |-> "anomaly", of |-> v] : v \in UpTo(5, {0, 1, 5})} \cup
  {[algorithm |-> "buckets", of |-> b] : b \in (0..2) \X (0..6) \X (1..3)} \cup
  {[algorithm |-> "metrics", of |-> r] : r \in UpTo(3, KpiRows)} \cup
  {[algorithm |-> "accuracy", of |-> m] :
     m \in UpTo(2, MappingRows) \X UpTo(2, LaterRows)} \cup
  {[algorithm |-> "stats", of |-> j] : j \in UpTo(2, UpTo(2, Runs))} \cup
  {[algorithm |-> "inventory", of |-> i] : i \in UpTo(2, Items)} \cup
  {[algorithm |-> "listing", of |-> l] : l \in Listings}

-----------------------------------------------------------------------------
NoAgents == NoTools /\ NoLlm /\ NoChat /\ NoPlatform /\ NoSockets /\ NoStreams
NoSchedules ==
  /\ updateBinds = None /\ jobRows = None /\ hasRuns = None /\ scheduled = None
  /\ queue = None /\ request_ = None /\ tangled = None /\ scheduleFaults = None
NoQueries ==
  /\ queryRepairs = None /\ dataType = None /\ data = None /\ entries = None
  /\ query = None /\ sync = None /\ synced = None /\ queryFaults = None
NoMappings ==
  /\ channelSkus = None /\ mapping = None /\ corrections = None /\ match = None
  /\ decision = None /\ chosen = None /\ import = None /\ mappingFaults = None
NoBoard ==
  /\ boardRepairs = None /\ boardKind = None /\ now = None /\ order = None
  /\ kpiRows = None /\ aggregation = None /\ pushed = None /\ entry = None
  /\ reader = None /\ boardFaults = None
NoMetrics ==
  /\ recorded = None /\ arrived = None /\ consumed = None /\ running = None
  /\ publishCounts = None /\ polls = None /\ previousStats = None
  /\ currentMetrics = None /\ reported = None /\ truth = None /\ metricFaults = None
NoPage ==
  /\ page = None /\ pageSocket = None /\ wsRef = None /\ isConnected = None
  /\ attempts = None /\ timer = None /\ heard = None

(* The state of the components that are not followed.                      *)
NoneBut(own) ==
  /\ own # "schedules" => NoSchedules
  /\ own # "queries" => NoQueries
  /\ own # "mappings" => NoMappings
  /\ own # "board" => NoBoard
  /\ own # "metrics" => NoMetrics
  /\ own # "page" => NoPage
  /\ own # "algorithms" => input = None

Init ==
  \/ AgentInit /\ NoneBut("agents")
  \/ /\ NoAgents
     /\ \/ focus = "schedules" /\ Schedules!Init /\ NoneBut("schedules")
        \/ focus = "queries" /\ Queries!Init /\ NoneBut("queries")
        \/ focus = "mappings" /\ Mappings!Init /\ NoneBut("mappings")
        \/ focus = "board" /\ Board!Init /\ NoneBut("board")
        \/ focus = "metrics" /\ Metrics!Init /\ NoneBut("metrics")
        \/ focus = "page" /\ Page!Init /\ NoneBut("page")
        \/ focus = "algorithms" /\ input \in Inputs /\ NoneBut("algorithms")

DataOthers(own) ==
  /\ UNCHANGED <<agentVars, input>>
  /\ own # "schedules" => UNCHANGED scheduleVars
  /\ own # "queries" => UNCHANGED queryVars
  /\ own # "mappings" => UNCHANGED mappingVars
  /\ own # "board" => UNCHANGED boardVars
  /\ own # "metrics" => UNCHANGED metricVars
  /\ own # "page" => UNCHANGED pageVars

DataNext ==
  \/ focus = "schedules" /\ Schedules!Next /\ DataOthers("schedules")
  \/ focus = "queries" /\ Queries!Next /\ DataOthers("queries")
  \/ focus = "mappings" /\ Mappings!Next /\ DataOthers("mappings")
  \/ focus = "board" /\ Board!Next /\ DataOthers("board")
  \/ focus = "metrics" /\ Metrics!Next /\ DataOthers("metrics")
  \/ focus = "page" /\ Page!Next /\ DataOthers("page")

Next ==
  /\ UNCHANGED focus
  /\ \/ AgentNext /\ UNCHANGED dataVars
     \/ DataNext

Spec == Init /\ [][Next]_vars

Symmetry == Permutations(Ids)

-----------------------------------------------------------------------------
(* Every component's type invariant.                                       *)
TypesOK ==
  /\ AgentTypesOK
  /\ focus = "schedules" => Schedules!TypeOK
  /\ focus = "queries" => Queries!TypeOK
  /\ focus = "mappings" => Mappings!TypeOK
  /\ focus = "board" => Board!TypeOK
  /\ focus = "metrics" => Metrics!TypeOK
  /\ focus = "page" => Page!TypeOK

(* SyncSchedule: enabled jobs are scheduled by their expression, others    *)
(* are not.                                                                *)
SchedulesFollowRows == focus = "schedules" => Schedules!SchedulesFollowRows

(* QueryTools: an answer is the caller's, none older than the last sync is *)
(* cached but for a known reason, and whoever asks well is answered where  *)
(* the schema has what the tool's statements name.                         *)
QueriesFit ==
  focus = "queries" =>
    Queries!AnswersAreOwn /\ Queries!FreshAfterSync /\ Queries!AnswersOnceRepaired

(* SkuMapping: mappings name what was decided, imports add up.             *)
MappingsStand ==
  focus = "mappings" => Mappings!ChoicesStand /\ Mappings!ImportAddsUp

(* Dashboard: what is stored, pushed and answered belongs together.        *)
BoardAgrees == focus = "board" => Board!BoardAgrees

(* QueueMetrics: publishes are reported once, consumption within bounds.   *)
RatesAreExplained == focus = "metrics" => Metrics!RatesAreExplained

(* OnboardingSocket: the page hears its own session and no other.          *)
ListensToItsSession == focus = "page" => Page!ListensToItsSession

(* DataAlgorithms: each keeps its promise.                                 *)
AlgorithmsAgree ==
  focus = "algorithms" =>
    LET of == input.of
    IN  CASE input.algorithm = "cron" ->
               Algorithms!CronKeepsItsDistance(of) /\ Algorithms!CronRunsTwoDaysRunning(of)
          [] input.algorithm = "conflict" -> Algorithms!RemoteWins(of[1], of[2])
          [] input.algorithm = "match" -> Algorithms!MatchIsJustified(of[1], of[2], of[3])
          [] input.algorithm = "anomaly" ->
               \A w \in {2, 3} : Algorithms!AnomaliesAreRelative(of, w, 2)
          [] input.algorithm = "buckets" -> Algorithms!BucketsTile(of[1], of[2], of[3])
          [] input.algorithm = "metrics" -> Algorithms!AveragesLieBetween(of)
          [] input.algorithm = "accuracy" -> Algorithms!AccuracyIsFair(of[1], of[2])
          [] input.algorithm = "stats" -> Algorithms!StatsAreConsistent(of)
          [] input.algorithm = "inventory" -> Algorithms!ShortMeansAllShort(of, 4)
          [] input.algorithm = "listing" ->
               Algorithms!ListingIsWhole(of.source, of.config, of.items, of.size)
=============================================================================
