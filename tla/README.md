# OMS AI-Native: a verification project in TLA+

This directory models the parts of OMS AI-Native whose correctness depends on
the order of events: message delivery over RabbitMQ, the life of the broker
connection, incremental synchronisation with sales channels and its schedules,
the onboarding of a shop, tools and their sandboxes, the gateway to the language
model, chats, agents, event streams, WebSockets at both ends, query and dashboard
caches, SKU mappings, broker metrics. The models are translated from the
TypeScript source, checked with TLC on small instances, and proved with TLAPS
where that is possible. `PROJECT.json` maps every definition
to the lines it stands for.

Paths below are relative to the repository's `src/` directory
(`infrastructure/...`, `backend/...`) unless they start with `.kiro` or
`migrations`.

Run from this directory:

    tlc -workers 2 -config RetryDelivery.cfg MCRetryDelivery
    tlc -workers 2 -config Services.cfg MCServices
    tlapm RetryDelivery_proofs.tla

## 1. Inventory

What the server process really mounts (`backend/index.ts`) is small: the
in-memory agent platform, the SDK wrapper over a placeholder gateway, the event
streams and the mock routers of `backend/routes`. Messaging, data sync,
onboarding, SKU mapping, tools and sandboxes are library components, each used
by its tests with mocked stores. They are nevertheless where the state is.

| Component | State | Operations | Interacts with | What is hard | What makes it correct |
|---|---|---|---|---|---|
| Message broker, delivery (`infrastructure/messaging/message-broker.ts`, `retry-handler.ts`) | queues, unacknowledged deliveries, running handler calls | publish, send, subscribe, cancel, wrapped handler, ack / nack / republish | RabbitMQ; any publisher or subscriber | channel death under a running handler, retries by republishing, fan-out | at-least-once, each delivery settled once, bounded retries |
| Message broker, connection (same file) | connection, channel, attempts, timer, isShuttingDown | initialize, connect, scheduleReconnect, close listeners, shutdown | amqplib | five awaits between reading and writing the same fields; listeners of old connections; shutdown in the middle | an outage is noticed and repaired; shutdown leaves nothing behind |
| Messaging metrics (`infrastructure/messaging/metrics.ts`) | publish counts, statistics of the poll before, rates | start, stop, recordPublish, poll | RabbitMQ, the publisher | polls that overlap, messages that move while one reads the queues | each publish is reported once; a rate is off by no more than what was under way |
| Sync worker (`backend/data-sync/sync-worker.ts`, `retry-strategy.ts`, `sync-job-repository.ts`) | job row with cursor, run rows | processJob, update, createRun, updateRun, delete | adapters, PostgreSQL, queue manager, pipeline | overlapping runs, listing a moving channel, lost statements and acknowledgements, crashes | no settled change skipped or counted twice; history agrees with results; runs end |
| Sync schedule (`routes.ts`, `queue-manager.ts`, `data-sync-bootstrap.ts`) | Bull repeatable jobs, job rows | POST / PUT / DELETE / trigger, scheduleJob, removeJob | repository, Bull | two stores written in turn | an enabled job is scheduled, with its own cron |
| Sync pipeline, query cache, MCP data tools (`sync-pipeline.ts`, `mcp-tools/*`) | cached query results | onSyncComplete; get, set, invalidate | worker, MCP tools, KPI aggregator, dashboard streams | a reader fills the cache after the invalidation; only the entry with empty input is invalidated | a result older than the last sync is not served for long |
| Conflict resolver, cron validator, channel adapters | none | pure functions; HTTP | worker, routes | boundaries | agree with a reference definition |
| Database and Redis services | pool; keys with TTL, counters | query, transaction; cacheGet / Set / Del, counters | everything | failed COMMIT or ROLLBACK, retried INSERT | all or nothing |
| Onboarding (`onboarding/session-service.ts`, `step-engine.ts`, `onboarding-pipeline.ts`, validators, simulator) | session in Redis and in a table, shop status | createSession, submitStep, goBack, resume, executeValidation, completeOnboarding | Redis, database, SKU mapper | read-await-write of a whole session; two stores; completion against later updates | the last step is not complete over an open one; list, statuses and data of the steps agree; calls that take turns lose nothing; a live shop has rules |
| SKU mapper (`sku-mapper/*`) | mappings, corrections, learning data | batchMatch, confirmMatch, import, accuracy | LLM gateway, database | a batch overwrites a confirmation; reads after the write they should precede | a decision is about what its user saw; an import counts every record |
| Agent platform (`agent-runtime/platform`) | definitions, instances, round-robin indices | register, start, pause, stop, update, route | routes, broker | life-cycle states; indices over changing candidates | requests of a type are shared evenly among the agents available for it |
| Agent SDK wrapper (`agent-runtime/sdk`) | session context, stream iterator | chat (async iterator), addToolResult, compressContext | LLM gateway, tools | re-entered initialisation; compression between tool use and result | what the model is sent fits and ends in the user's message; the client hears how a chat ended |
| LLM gateway, rate limiter (`infrastructure/llm`) | per-tenant counter, call log | complete, stream, withRetry, degradation | Redis, provider | window boundary; retries; chunked streams | the limit holds; the log tells how a call ended |
| Tool registry, executor (`infrastructure/tools`) | tools table, cached list, handlers | register, unregister, discover, invoke | database, Redis, sandboxes | cache fill against invalidation; two look-ups per call | an unregistered tool is not run |
| Sandboxes (`infrastructure/tools/sandbox`) | executions, activeCount | execute, terminate, cleanup | tools | timeout against late completion | the limit bounds what really runs; record, executor and caller tell the same end |
| Realtime (`backend/realtime`, `backend/dashboard/dashboard-sse.ts`) | connections, streams, timers | connect, disconnect, push, broadcast, timeouts, shutdown | HTTP, WebSocket, Redis | grace timers against reconnection; failed writes while iterating | bookkeeping of live connections is exact; no timer outlives its stream |
| Dashboard KPIs, anomalies, inventory, shifts (`backend/dashboard`) | rows of KPIs, cached answers | aggregate, the routes' queries | pipeline, routes, event streams | statements between which orders change; rows stored one by one; overlapping buckets | what is stored, pushed and answered belongs together |
| Order query agent | none | formatting | query tools | | |
| Auth, observability, server, mock routers | sessions, counters, in-memory maps | one step each | | | |
| Frontend (`frontend/src`) | view state, onboarding socket | pages, hooks, stores | HTTP, WebSocket | the page changes while a reconnection is planned | the page listens to its own session |

`PROJECT.json` lists these with their files, and under `hazards` every place
found where an order of events, a boundary or a partial failure matters, with
the properties that would catch it or why none does.

## 2. Modules

| Module | Content |
|---|---|
| `Delivery` | abstract: what a publisher is promised. A (message, queue) pair, once accepted, is live, handled or dead |
| `RetryDelivery` | the broker's delivery path, the retry wrapper and what of RabbitMQ they rely on; implements `Delivery` |
| `RetryDelivery_proofs` | its theorems |
| `BrokerConnection` | initialize, reconnection, close listeners and shutdown, await by await |
| `BrokerConnection_proofs` | its theorems |
| `SyncLedger` | abstract: what incremental sync promises. A sync is one step that takes what is newer than a cursor the job has had |
| `SyncWorker` | concurrent runs of one sync job over a changing channel; implements `SyncLedger` |
| `SyncWorker_proofs` | its theorems |
| `Onboarding` | concurrent operations on one onboarding session over Redis and its row, and the validation that activates the shop |
| `Onboarding_proofs` | its theorems |
| `SyncSchedule` | the routes of sync jobs over two stores written in turn: rows and Bull's repeatable jobs |
| `QueryTools` | the query tools, their cache and its invalidation by a sync |
| `ToolRegistry` | tools in a table and a cached list of them; register, unregister, discover, invoke |
| `Sandbox` | the two executors of tools: slots, records, timeouts, termination |
| `Tools` | composition: the registry's `invoke` on a sandbox |
| `LlmGateway`, `LlmGateway_proofs` | rate limit, attempts, streams cut into reads, call log; its theorems |
| `AgentChat` | chats that share a session's history, and the event streams that carry them |
| `AgentPlatform` | life cycle of agents and round-robin routing |
| `WebSockets` | connections, grace timers, reconnection |
| `EventStreams` | both managers of server-sent events and their timers |
| `SkuMapping`, `MCSkuMapping` | matching, users' decisions and imports of SKUs; an instance of it alone |
| `Dashboard` | aggregations of KPIs fed by syncs, and cached answers |
| `QueueMetrics` | the collector of queue statistics over a broker whose messages move |
| `OnboardingSocket` | the browser's connection for one onboarding session |
| `DataAlgorithms`, `DataAlgorithms_proofs` | the algorithms without state, each with a reference definition; its theorems |
| `MCAgentSide`, `MCServices` | the instances of the fifteen modules above and the run `services` |
| `AgentSide_proofs`, `Services_proofs` | the theorems of these fifteen modules and of their composition |
| `MCAlgorithms` | two of the algorithms against the words of their comments |
| other `MC...` | instances for TLC |

Definitions preceded by "Mutant" are plausible bugs of the definition after
them. No specification uses them; they document which slip each property would
catch.

### RetryDelivery

`channel` and `epoch` are the channel of the service and its generation;
`queued`, `unacked` and `dlq` are RabbitMQ's; `calls` are the running calls of
the wrapped handler. A copy carries the headers the wrapper reads and writes
(`x-retry-count`, `x-failure-reason`) and its routing key.

One action per step of the code: `Publish` and `Send` (one copy per existing
bound queue, or none and no error), `Subscribe`, `Cancel`, `Deliver` (within
prefetch), `HandlerReturns` / `HandlerThrows`, then what `wrapHandler` does:
`Ack`, or `AckThrows` (which falls into the same catch as a failing handler),
`Retry` (republish, then acknowledge), `RetryFails` (republish throws, and the
message is nacked) or `GiveUp` (nack to the dead letter exchange).
Acknowledgements go to the channel the message came on, republishing to the
current one, so a call started before `ChannelLost` can retry but not
acknowledge: `Settled`. The republish throws when there is no channel, or no
topic exchange in the configuration (`TopicExchange = FALSE`); the nack after it
then reaches the message's own channel if that lives: without a topic exchange,
or when a reconnect has set `this.channel` to null and the old channel is still
open (`Detach`, the timer of a reconnect after a set-up that had failed).
`ChannelLost` requeues what was unacknowledged and deletes temporary queues;
`Reconnect` brings back exchanges and queues but no consumer.

Decisions worth knowing:

- The retry's `expiration` is a time to live, not a delay: a retry is
  available at once and, if nobody consumes it in time, expires to the dead
  letter queue (`Expire`).
- Temporary queues (those `subscribe` creates) have no dead letter exchange and
  die with their consumer. The promises are about the durable queues.
- A retry is published under the original routing key, so it goes to every
  queue bound to that key: `RetryBudget` is a geometric sum, not
  `MaxRetries + 1`. A lost channel puts a copy back whose call still runs and may
  retry it too, on the next channel: each loss at most doubles the sum.
- The reason a dead letter carries in its header is that of the attempt before
  the last, or none: see section 4.
- Between `Detach` and `Reconnect` the old channel ends. In the code it may live
  on beside the new one (`parseBrokerMessage` takes ack and nack from whatever
  `this.channel` is then, `message-broker.ts:474`); the model has one channel at
  a time.

### BrokerConnection

`conns` holds every connection ever made with its state, its channel's and the
number of close listeners put on each; `connection` and `channel` are the two
fields; `latest` and `older` count the timers the field knows and those it has
forgotten; `tasks` are the calls of `initialize` and of the timer callback, each
at one of five awaits. An await on something that has closed rejects before
anything else runs (`Idle`): continuations precede new events.

Reconnects may race: each timer callback nulls both fields, and the listeners
are put on whatever the fields refer to after the await. `attempts` is reset as
soon as a connection and its channel are up, before set-up. Racing callbacks
can undo one another without a further fault, hence the bound `MaxConns`.

### SyncWorker

A run's `at` is the await it is at; `base` the cursor it read, `fetched` what it
has listed. `job` is the row of `sync_jobs`, `row` those of `sync_job_runs`,
`result` what the caller was told. `since`, `until` and `after` record history
for the properties only.

Every statement has three outcomes (`Outcome`): committed, not committed, and
committed with the acknowledgement lost. `FetchPage` lists any non-empty part of
what is left, in any order; each record the channel holds is visited once. (A
server that answers `hasMore` for ever would make the listing loop for ever; the
adapters are external and assumed not to.) `updatedAt` values are compared as
strings in the code; the channel's stamps are of one format, so a tick stands
for one.

`repaired` covers two programs at once. The `UPDATE` that
`SyncJobRepository.update` builds has its placeholders off by one and is
rejected by PostgreSQL whatever it assigns; `FALSE` is that statement, and under
it every run that keeps a record fails. `TRUE` is the statement with the
placeholders counted right, so that the rest of the protocol, which the tests
exercise with a mocked repository, is verified as well. Properties and proofs
hold for both.

### Onboarding

`table` is the session's row with its status column, `cache` its Redis key,
`live` whether the shop is active. `call` holds the local variables of every
call of an operation: the await it is at, its own copy of the session, the
validator's verdict, and what the checks have said so far. Steps are numbers
1..N; the last is `validation`, the one before `rule_setup`. The data of a step
is the call that submitted it.

A call goes from `Begin` through `CacheHit`, or `CacheMiss`, `Load` and `Fill`,
to what its operation does with the session (`Proceed`): go back, count an
interaction, or ask the validator and then `Judge`, which does all that
`submitStep` does between the validator and the next await. It ends with
`Persist` and `Store`, row first. Validation is `Check`, `Simulate`, `Report`
and `Activate`, and for `completeOnboarding` then `Mark`. A statement may fail,
or succeed and lose its acknowledgement; a statement whose connection broke is
repeated. `Expire` and `Crash` may happen at any time.

Decisions worth knowing:

- Any step may be submitted at any time; only the validator of the last one
  looks at the others. `completedSteps` is therefore no prefix.
- Reading from the cache gives each call a copy of its own (JSON), so copies
  change only through writes of the whole session.
- `Persist` resets the row's status to `in_progress`, also after `Mark`, and
  `Mark` does not depend on the report. Nothing in the repository promises
  otherwise, so no property speaks of it.
- Overlapping calls may lose a submission, bring reset steps back, and leave
  row and key different for good. `turns` records whether calls have overlapped,
  and the two properties about losses are about histories where they have not.
- `repaired` is the set of statements taken as they are meant, which is what the
  tests exercise with a mocked database. `"insert"`: the `INSERT` of a session
  lacks a parameter and gets the tenant filter appended where it is ambiguous, so
  PostgreSQL rejects it, and that of a report gets a `WHERE` after its `VALUES`;
  without it no session comes to exist. `"select"`: `getSession` reads the row
  with the tenant `''`, which the database service compares with a UUID column,
  so the statement is rejected (`LoadRejected`); without it a session ends with
  its key. The source is `{}`; `{"insert"}` and both are run beside it.

### SyncSchedule

`rows` are those of `sync_jobs`, `scheduled` Bull's repeatable jobs, each a pair
of a job and an expression: the same job under another expression is a second
schedule. `request[r]` is one POST, PUT or DELETE. `Post` and `Put` are the
first statement; then `removeJob` is `List`, one `Remove` per key and `Removed`;
`Schedule` is `scheduleJob`; `DeleteRow` is the last statement of a DELETE,
refused if a run refers to the row (`Run`) or the row is another tenant's.
`Fails`, `Shutdown` and `Crash` come between any two. `tangled` is history: the
jobs whose last change was cut short, refused after its schedule was gone, or
overlapped with another. A change made alone and to its end takes a job out of
it, and that is what makes `SchedulesFollowRows` strong: two schedules left
behind by a failure are both removed by the next PUT.

`repaired` as in `SyncWorker`: a PUT that names a field never commits in the
source (`PutThrows`), one that names none (`row = rows[j]`) reads and
schedules again.

### QueryTools

One behaviour follows one tool. `query[c]` goes `Execute` (validation), `Get`
(cache), `Read` once per statement the tool issues (two to four), `Fill`.
`version` counts the writes its first statement saw. `OnSyncComplete` and
`Invalidate` are the pipeline's part; it deletes the key of the empty input
only. An input is empty, asks by the channel, filters by anything else, or is
invalid. `repaired` is the set of what is taken as mended. `"condition"`: the
tenant condition the database service adds does not name its table, so statements
with a join are rejected. `"column"`: `query_orders` selects `channel_id`, which
the table `orders` of the migrations does not have. `Binds` says which statements
PostgreSQL accepts, so that in the source (`{}`) `query_orders` and
`query_inventory` answer nothing.

### ToolRegistry, Sandbox, Tools

`rows` is table `tools`, `cache` the key `tools:registry` with two fields of
history, `call[c]` one call of the registry at one of its awaits. A definition
is the stamp of its commit. `Transaction` has the three outcomes of a commit;
`Invalidate` is the delete, whose failure the code swallows; `Discover`,
`Query`, `Fill` are a reading that fills the cache; `Invoke`, `Lookup`,
`Execute` look the tool up twice, always in the table; `LogCall` runs in the
background.

In `Sandbox` an execution is idle, running, settled with an outcome from which
the code has yet to continue, or over: `ToolEnds`, `TimesOut` and `Terminate`
race in between, `Cleanup` deletes records. The v8 executor abandons a tool at
its timeout and the tool runs on (`tool[e] = "running"` without a slot); the
docker executor kills the command, and its `terminate` only writes the record.
An error whose text says "timed out" counts as a timeout, whatever threw it.
`Tools` puts the two together: the execution `c` serves the invocation `c`, and
`Finish` hands its answer on.

### LlmGateway

`counter` is the Redis key of the tenant with whether it has an expiry; `Count`
and `SetExpiry` are separate round trips, so a counter can lose its expiry to a
fault and then never end. `request[r]` is a call of `complete` (attempts,
backoff, body) or `stream` (one attempt, then `Read`s that end at any line).
Two lines make an event; the parser forgets the first at the end of a read, so
`Parsed` hands on only frames with both lines in one read. `callLogs` is the
log kept in memory.

### AgentChat

`messages` is the session's history, shared by all its chats; `chat[c]` the
iterator and the route's loop around it; `client[c]` what the client received.
`Initialize` is one step although `compressContext` is awaited: its body yields
nowhere, but a chat that continues in the same turn could add its message before
the compressed history is sent, which the model leaves out. Lengths
are tokens as the counter counts them (a tool result counts as its frame
only). `Farewell` is what the route sends at the end.

### AgentPlatform

`instances` is the map in its order, `definitions` the shared ones that an
update replaces for all instances of it. `Route` takes the index modulo the
candidates at that moment and advances it. `picks` counts, per type, since its
candidates last changed. The life cycle has states no operation reaches (an
agent never becomes running).

### WebSockets, EventStreams

Every operation is one turn of the event loop, so the actions are whole
handlers. `WebSockets`: `SocketFails` and `SocketCloses` each start a grace
timer and the map knows the last only; `Connect` cancels those of the user's
other connections that the map knows; `GraceEnds` removes. `EventStreams` covers
both managers: `kept`, `idle`, `heartbeat` are their three maps. Which
subscriptions a metric concerns is a choice.

### SkuMapping

`match[m]` reads the system SKUs, waits for the model and writes; `decision[d]`
is a user who saw a mapping and decides later; `import` a transaction over
records, one of which PostgreSQL may refuse: the statement's error is caught and
the record counted as skipped, but the transaction is aborted, later statements
fail as well and its COMMIT rolls back without an error. `chosen` is history:
what the last decision was about and whether the mapping had changed since it was
seen.

### Dashboard

`aggregation[a]` computes four metrics in four statements and stores them one by
one; orders and the clock move in between. `entry` and `reader` are the cached
answer of a route and the requests for it; a behaviour follows one kind of
answer. A value is the orders it counts, or a part of a whole. An order appears
when its transaction commits, with the time at which that began (`created_at` is
`NOW()`), up to `MaxLag` earlier, so an hour may gain orders after it was counted.
`repaired` is the set of what is taken as mended. `"names"`: the schema lacks
`orders.fulfilled_at` and the shift tables, and a join has an ambiguous tenant
condition. `"filter"`: the tenant condition of the two rates lands in their
`FILTER`, so that they divide by all tenants' orders.

### QueueMetrics

A member of `polls` is a poll under way, the statistics it has so far in the
queues' order; `GetQueueStats` is one answer, `Report` what follows the last,
without an await. A poll may last longer than the interval, and the requests of
two share a channel that answers in order, so the older is ahead at every queue.
A message is recorded, arrives and is consumed in three steps. `truth` is
history: of the last report of a queue, how many messages were consumed since
the statistics before, how many recorded ones came too late for these
statistics, and how many for those.

### OnboardingSocket

`socket[w]` is a WebSocket as long as the hook has handlers on it, `wsRef` the
one the hook refers to, `timer` the sessions of the reconnection timers that
run. `Show` is a render with other dependencies, the cleanup of the effect and
the effect in one turn; `Opens`, `Speaks`, `Closes` and `TimerEnds` are the
callbacks. `connect` begins with the cleanup, so a timer that fires replaces
what is there. The count of attempts outlives a change of the session, as the
code keeps it.

### DataAlgorithms

Operators translated from the cron validator, the conflict resolver, the rule
matcher for SKUs, anomaly detection, KPI buckets and sums, mapping and sync
statistics and stock levels, and what the channel adapters share: which
configurations they accept, how pages are put together, which name and stamp a
record gets. Each is followed by what it promises, said without
its steps: a cron expression that is accepted never runs twice within five
minutes, and if it goes by the days of the week runs somewhere on two days in a
row, buckets tile the period, an average lies between its values, a match names
the most similar SKU, a listing holds every item once and in order. Where the code
rounds, so does the promise: the warning under 85 percent is decided on a percentage
of two decimals, the statistics are of the 50 latest runs of each job, and the
failure rate is a fraction. The accuracy report counts in two statements, which
may find different tables: `CalculateStats(rows, later)`.

## 3. Runs

| Run | Question | Instance | Result |
|---|---|---|---|
| `retry_delivery` | safety and refinement of delivery | 1 message, 2 queues on one topic (one durable, one temporary), 1 retry, prefetch 1, 1 channel lost or let go of | 1,050,299 states, holds |
| `retry_delivery_live` | is every accepted message settled in the end? | 1 durable queue, 2 retries, 1 lost channel, an application that subscribes again | holds |
| `retry_delivery_send` | at-least-once for messages sent to a queue whose name no binding matches | 2 queues, 1 retry | violated |
| `retry_delivery_reconnect` | is a subscriber served after a reconnect? | 1 queue, 1 lost channel | violated |
| `broker_connection` | safety and repair of the connection | 2 attempts, 3 faults, 5 connections | 555,483 states, holds |
| `broker_connection_channel` | is a lone channel death repaired? | 1 fault | violated |
| `broker_connection_shutdown` | does shutdown leave nothing open? | 1 fault, unlimited attempts | violated |
| `sync_worker` | safety, refinement and end of overlapping runs | 2 runs, 2 records, 2 ticks, 2 retries, 2 faults, both forms of the statement | 1,101,826 states, holds |
| `onboarding` | what concurrent, failing and crashing calls may do to a session | 3 steps, 4 calls of any kind, 1 fault or crash, three sets of statements | 1,059,734 states, holds |
| `services` | each of thirteen components on its own small instance, tools on a sandbox | see Bounds | 2,946,793 states, holds |
| `websocket_leak` | does a connection that closed leave when its grace period has passed? | 3 sockets, 2 users | violated |
| `sku_decision` | does a user's decision about a mapping last? | 1 match, 1 decision | violated |

`services` asks one question per component. They share no state, so a behaviour
follows one, its `focus`, and the others stay at `None`: the run explores the
sum of their state spaces and not the product.

What the properties say:

- `NeverForgotten`, `ImplementsDelivery`: at-least-once delivery, under the
  condition below. `DeliveriesAreSettledOnce`: acknowledgements only for
  deliveries the channel knows, and none left without a call to settle it (it
  would hold a prefetch slot for ever). `RetryBudget`, `EventuallySettled`.
- `OutageIsNoticed`, `DeadChannelIsDropped`: while not reconnecting, out of
  attempts or stopping, the service listens to a live connection and holds no
  dead channel (it may hold none at all: one that died alone is not replaced). `ReconnectsUnlessDeaf`: after the last fault it is up for good,
  with the exceptions it names. `CleanShutdown`.
- `SkipsOnlyMovingTargets`: a version at or under the cursor was kept by some
  run, unless it was written while a run was listing. `CountedOnce`: overlap is
  the only way to count a version twice. `TablesAgree` is
  `HistoryAgreesWithResult` and `RunsHaveTheirJob`; `EveryRunEnds`.
- `ImplementsLedger`: cursor, channel and the versions kept by the runs that moved
  the cursor change as in `SyncLedger`, where a sync is one step: nothing of pages, retries, crashes or overlap shows but that
  a sync may start from an earlier cursor and, on what moves while it lists, take
  or miss it.

- `ValidationIsLast`: in no copy of the session, in a store or in a call's
  hands, is the last step complete while another is open. `StepsAgree`:
  `completedSteps`, the steps' statuses and their data agree. `AcceptedStepsStay`:
  an answer of success is found again by the next reader, whatever failed or died
  in between, unless an unanswered submission replaced it; when the key has
  expired only if the `SELECT` is taken as repaired.
  `StoresAgree`: row and key are equal at rest. `LiveShopHasRules`.

- `ToolListsFit`, of `StaleListHasACause`: a cached list of tools that is not the table's is about
  to be deleted, could not be, or was read before a commit and stored after it, and
  `RunsAnActiveDefinition`: nothing is executed on the word of that list.
- `ExecutionsAgree`: a slot is given back exactly once and never more are taken
  than there are; a tool running without one was abandoned; the record, the
  executor's answer and the invocation's tell the same end, also if `terminate`
  wrote the record while the outcome was decided.
- `AdmittedWithinLimit`: no window admits more than the limit.
  `LogTellsTheOutcome`: nothing is logged before its call has ended; a completion
  is logged once, as the caller saw it end; a stream read to its end is logged as
  a success and handed on all events but those a read had cut; none that broke is.
- `ChatsFit`, of `AskedFits`: whatever other chats add, the model is asked with the chat's own
  message last and a history that fits, and `ClientHearsTheEnd`: a client that stays
  hears one terminal event and then the close.
- `FairShare`: while the agents available for a type stay the same, no two
  differ by more than one request, wherever the index stood.
- `KeepsTheLiving`: an open connection is kept; nothing but a reconnection of its
  user keeps a dead one from leaving; Redis lists no forgotten one unless its
  removal failed. `TimersHaveStreams`: a kept stream has both timers,
  one that is gone none, but for one case the property names.
- `SchedulesFollowRows`: rows and schedules agree at rest.
- `QueriesFit`: answers are the tenant's own; a cached answer to the empty input
  that lacks a sync was stored late or its deletion failed; valid questions that
  met no fault are answered by a tool whose statements are taken as repaired.
- `MappingsStand`: a decision names the SKU its user saw, unless something came
  between look and click; an import counts each record once, stores no invalid
  one, and all the valid ones if the database refuses none.
- `BoardAgrees`: counts exceed the orders only where buckets overlap; what is
  pushed was stored; the other rows of a bucket count part of its orders and, with
  the filter taken as repaired, the rates divide by their number, unless an order
  appeared after its hour; with the schema repaired an aggregation without faults
  stores its rows, and with the filter repaired rates are of the tenant's orders.
- `RatesAreExplained`: each publish is reported once, also when polls overlap;
  the rate of consumption is off by the messages that missed a poll's statistics
  and no more.
- `ListensToItsSession`: whenever the page changes, between a close and its
  reconnection too, what has handlers or a timer is of the session shown, and
  only used-up attempts leave the page with neither.
- `AlgorithmsAgree`: the algorithms against their references. `TypesOK`.

The six violated runs are disagreements between the code and what the
repository says of it; `findings` in `PROJECT.json` quotes both sides, and
section 4 puts them beside the others that were found.

### Bounds

Two queues are what fan-out needs; one retry distinguishes first, retried and
last attempt; one lost channel gives calls of an old and of a new epoch, and one that is let go
of gives calls whose own channel lives while there is none to republish on. Two
messages would only interleave, as messages share nothing but the prefetch
window, and the proofs cover any number. Three faults let an outage hit a
reconnect that follows an outage, two attempts let the limit be reached, five
connections leave room for racing reconnects after that. Two runs overlap, two
records can be listed in the wrong order, and with two ticks a stamp can be
before, at and after a cursor; `SkipsOnlyMovingTargets` is proved for any
number of each. Three steps are the validated last one, the rules, and one
before it that can reset both; four calls are the creation of the session and
three that race (two submissions and a validation, say, or three submissions,
which complete the session); the theorems cover any number of either.

In `services` (`MCAgentSide`, `MCServices`): two calls and one tool, with one
slot, so that a change meets a reading and a slot is contended; two requests
under a limit of one, one retry, two frames (a read can cut the first, the
second or none); two chats, four messages, a threshold a chat alone can cross
and a budget that drops some of what came before; three agents of two types and four requests each, enough to
go round a set that shrank and once more; three sockets of two users, three
streams; three requests on one job with two expressions; two tenants and one
sync; two SKUs, one match and two users; two aggregations of the same hour or of
hours that overlap (of hours apart the theorem tells) and one reader, with orders
that appear up to a tick late; two queues with two messages between them and two polls, so that
every event falls between the answers of one and of the other (the rates were
checked with three messages alone); two sessions of a page, two sockets and two
attempts. One fault each, which falls at every step in turn. The repairs are none and
all of them: each query tool depends on one alone, and for the board the theorem
covers any set. The identities of calls and users are symmetric
(`Two`, `Three`). The inputs of the algorithms are enumerated in `MCServices`:
cron fields with every shape, including those that do not parse, records with
fields missing on either side, series of five values, listings of up to three
items on pages of one or two, and for the accuracy two tables of up to two
mappings, one for each statement.

Deadlock is checked for `RetryDelivery` alone, where `Subscribe` is always
possible once the channel is back. A service that has shut down or exhausted
its attempts stops, and so do finitely many runs of a job and finitely many
calls; every component of `services` comes to rest.

### Fairness

- `RetryDelivery`: handlers terminate and the event loop runs what follows
  (weak fairness of the calls); the reconnect timer fires and the broker comes
  back (weak fairness of `Reconnect`); RabbitMQ delivers from a queue that keeps
  getting consumers (strong fairness of `Deliver`, as `Cancel` and `ChannelLost`
  disable it). `ResubscribingSpec` adds an application that subscribes whenever
  it has no consumer; `EventuallySettled` needs it because the service does not
  do this.
- `BrokerConnection`: awaits settle, timers fire, shutdown goes on. Faults are
  not fair and are finitely many.
- `SyncWorker`: each run takes its next step. That runs start, that the channel
  changes, that faults happen is not assumed.
- `Onboarding` and the components of `services` state safety only and assume no
  fairness.

## 4. Where the code and the docs differ

Where a passing run takes a statement as repaired, or says less than a doc, a
comment or a test does, this is the list of what it leaves open. The first six
have a run. The others were found by TLC as well; each has a configuration to run
by hand, with `-continue` where it names several properties:

    tlc -workers 2 -continue -config QueryTools_stale.cfg QueryTools

| What is said | What the code does | Shown by |
|---|---|---|
| "Messages are automatically retried with exponential backoff on failure. After max retries, messages are sent to the dead letter queue." (`message-broker.ts:135-136`) | a message sent to a queue is retried through the topic exchange under the queue's name, which need not be bound, and is gone | run `retry_delivery_send` |
| every message is delivered "while a consumer is available" (m1 `design.md:744`, Property 10); "auto-reconnect" (`message-broker.ts:8`) | a reconnect starts no consumer again | run `retry_delivery_reconnect` |
| "Connection management with auto-reconnect" (`message-broker.ts:8`) | a channel that the broker closes alone is not replaced | run `broker_connection_channel` |
| "Gracefully shut down the broker connection." (`message-broker.ts:265`) | a connect under way goes on after the shutdown and leaves a connection open | run `broker_connection_shutdown` |
| "After grace period, original connection should still be cleaned up" (`websocket-manager.test.ts:128-129`) | a reconnection within the grace period cancels the timer of the closed connection, which is then kept for good | run `websocket_leak` |
| the statistics are over the mappings confirmed and corrected (m2 `requirements.md:178`, `design.md:1014`, Property 23) | a match writes `pending` over a decision, also one made while it ran | run `sku_decision` |
| "Records the failure reason in x-failure-reason header" (`retry-handler.ts:84`); a dead letter carries the reason of its failure (m1 `requirements.md:96`, `design.md:750`, Property 11) | the header goes into the copy that is republished; the message that is nacked in the end carries the reason of the attempt before, or none if it was never republished | `RetryDelivery_reason` (`MCRetryDelivery`): `DeadLettersSayWhy` |
| lastSyncCursor is updated to the latest processed record (m2 `design.md:978`, Property 17) | the `UPDATE` has its placeholders off by one (`sync-job-repository.ts:167`) and is always rejected | `SyncWorker_cursor` (`MCSyncWorker`): `CursorFollows` |
| "createSession: Creates a new session with initial state" (`session-service.ts:5`) | its `INSERT` has nine parameters for ten placeholders and an ambiguous tenant filter, and is always rejected | `Onboarding_fallback` (`MCOnboarding`): `SessionsAreCreated` |
| "Reads from Redis cache first, falls back to PostgreSQL" (`session-service.ts:161`) | the `SELECT` gets the tenant `''` (`:272`) for a UUID column (`migrations/1700000002_m2-schema.sql:28`) and is always rejected | the same: `AcceptedStepsSurvive` |
| every call of the model is logged, "无论成功或失败" (m1 `requirements.md:35`, `design.md:692-698`, Property 2) | a stream is logged only if its body is read to the end, which a chat never does, as it stops at `message_stop` | `LlmGateway_log` (`LlmGateway`): `EveryCallIsLogged` |
| streaming pushes the model's output to the caller (m1 `requirements.md:34`) | an event whose two lines come in different reads is dropped (`llm-gateway.ts:225`) | the same: `EveryFrameIsHandedOn` |
| orders can be queried by number, status, time, channel (m2 `requirements.md:152`) | `query_orders` selects `channel_id` (`order-query-tool.ts:281`), which `migrations/1700000001_initial-schema.sql:126-141` does not create, and answers every question with an error | `QueryTools_orders` (`QueryTools`): `ToolsAnswer` |
| stock and products can be queried (m2 `requirements.md:153-154`) | the tenant condition is ambiguous in a join: `query_inventory` always fails, `query_products` for channels and for mappings | the same: `ToolsAnswer` |
| "This ensures agents get fresh data on their next query." (`sync-pipeline.ts:140-141`) | only the key of the empty input is deleted; other answers stay until they expire | `QueryTools_stale` (`QueryTools`): `EveryInputIsFresh` |
| "Invalidates MCP query cache so agents get fresh data" (`sync-pipeline.ts:7`) | a call that read before the sync stores its answer after the deletion | the same: `LateAnswersAreFresh` |
| an import adds as many SKUs as the input has valid records (m2 `design.md:906`, Property 5) | one refused record rolls the others back, which are reported as imported all the same | `SkuMapping_import` (`MCSkuMapping`): `ValidRecordsAreImported` |
| "KPI data is re-aggregated after order syncs" (`data-sync-bootstrap.ts:61`) | `orders.fulfilled_at` (`kpi-aggregator.ts:244`) is in no migration, so no KPI is ever stored | `Dashboard_tenants` (`Dashboard`): `AggregationsAreStored` |
| "Data is isolated by tenant." (`dashboard/routes.ts:14`; m2 `requirements.md:94`, `design.md:948`, Property 12) | the tenant condition of the two rates lands in their `FILTER`, so that they divide by all tenants' orders | the same: `RatesAreOwn` |
| the interval is "between 5 minutes and 24 hours" (`cron-validator.ts:4-5`; m2 `design.md:972`, Property 16) | the smallest gap between days is compared with 24 hours: `0 3 * * 1-5` is accepted | `DataAlgorithms_bounds` (`MCAlgorithms`): `AcceptedNeverRestADay` |
| a "low-accuracy warning when accuracy < 85%" (`accuracy-service.ts:6`; m2 `design.md:1020`, Property 24) | the accuracy is rounded first: 84.995 percent gives none | the same: `LowAccuracyIsTold` |

Beside these, translating the code showed what no doc, test or comment we found
speaks of. It is in the models, and no property claims otherwise:

- a rejected PUT leaves the old schedule; a DELETE of a job with runs answers
  500 with its schedule removed and its row enabled;
- `sync_complete` is broadcast before the KPIs are computed; the keys the
  aggregator deletes are read by nobody; hourly buckets of syncs less than an
  hour apart overlap, and answers add them up;
- the kinds of match are counted by a later statement than the statuses, so the
  two sums of one report may differ; the rule matcher is called by nobody;
- the text of an assistant's answer never enters the history;
- `EventStreams`: a failed write removes a subscription whose idle timer is then
  set once more; `TimersHaveStreams` knows such a timer and allows it;
- a rate may report consumption that never happened, by as many messages as were
  recorded between the statistics and the report; the publishes of a queue whose
  statistics failed are cleared with the others; nothing in the repository calls
  `recordPublish`;
- overlapping reconnect callbacks use up each other's attempts, so the service may
  give up after fewer failures than the limit; how many it should bear is said
  nowhere;
- the onboarding page keeps its count of attempts from one session to the next,
  so a second session may get none; it reads the fields of a session at the top
  level of an answer whose router puts them under `session`; the ids of inventory
  records join two names by a hyphen, so two can coincide if the first has one;
- a session is marked completed whether or not its shop may go live, and its next
  update makes it `in_progress` again; the run row of a worker that died stays
  `running`;
- a warehouse is short only if all its items are.

## 5. Proofs

All are checked by `tlapm` without omitted steps, for any sets of messages,
queues, runs, records, steps, calls, requests and streams and any bounds.
What is assumed are the modules' assumptions on their constants
(`RetryDeliveryAssumption`: among them that a set of queues is finite and that no
failure's reason looks like the absence of one; `SyncAssumption`;
`OnboardingAssumption`; `BrokerConnectionAssumption`; `ServicesAssumption`), which
TLC evaluates on the instances that are run, and the hypotheses named below. With
them every invariant that a passing run checks is a theorem, and so are the two
refinements.

`RetryDelivery_proofs`

- `TypeCorrect`: `Spec => []TypeOK`, from `RetryDeliveryAssumption`.
- `SettledOnce`: `Spec => []DeliveriesAreSettledOnce`. Not inductive alone; the
  strengthening `Settlement` adds that copies have identities under `nextId`,
  that `queued` and `unacked` are disjoint, that nothing is unacknowledged on a
  closed channel, and that no call is of a later epoch than the channel.
- `AtLeastOnce`: `RetriesReturn` implies `Spec => []NeverForgotten`. A retry
  acknowledges the original in exchange for new copies, which is safe only if
  the topic exchange brings a queue's name back to that queue; `SendsCanRetry`
  says so, `RetriesReturn` asks it of a configuration that has a topic exchange
  (without one nothing is republished), and `retry_delivery_send` shows that it
  cannot be dropped. The invariant
  adds `Accounting`: a copy's queue is bound to its key (so that a retry reaches
  it), a copy of a durable queue is an accepted pair, and a call that returned
  has handled its pair.
- `Refinement`: under the same condition `Spec => ImplementsDelivery`. Each
  action is mapped to `Accept`, `Handle`, `Bury`, `Retire` or a stutter of
  `Delivery`.
- `RetriesAreBounded` (`RetryBudget`): with `n` queues bound to a key, a handler
  sees a message at most `1 + n + ... + n^MaxRetries` times, and at most twice as
  often for each channel lost so far. A copy with `r` retries behind it owes a
  queue the deliveries its retry may lead to (`Weight(r)`), and one more if it is
  in that queue: its `Share`. If `l` channels are still to be lost, a queued copy
  owes its share `2^l` times, an unacknowledged one `2^(l-1)` times, because the
  loss may put it back, and the call on it the rest. `Owed(p, l)` is the set of
  these. The invariant `Thrift` says, for every `n`, that the deliveries of a pair
  and those owed if `n` more channels are lost are within the budget of that
  many: a delivery splits what its copy owes between copy and call, a retry
  exchanges what its call and copy owe for what the copies at the next stage do,
  a loss gives to the copies put back one of the doublings, and a reconnect
  changes nothing. It has to speak of losses to come: after a loss it would be
  too late to count the calls that are still to retry. On one queue with
  two retries and one loss TLC reaches the bound, so it cannot be lowered for
  every instance. `Budget` and `Doubled` are recursive functions; what they
  compute comes from the principle of the least number (`LeastNumber`,
  `EveryNumber`).

`BrokerConnection_proofs`

- `TypeCorrect`, `OutagesAreNoticed`, `DeadChannelsAreDropped` and
  `ShutdownIsClean`, from `IInv == TypeOK /\ IsFiniteSet(tasks) /\ Beginnings /\
  Guarded /\ Closing`. `Beginnings`: until a connection has a listener nothing is
  scheduled and `initialize` is alone. `Guarded`: from then on, unless the service
  shuts down or gave up, there is a timer, or the fields refer to a connection
  and a channel somebody listens to, or to ones whose callback is under way. A
  timer that fires sets both fields to null, so what they refer to later was put
  there by a callback after it; this is why reconnects may race and still none is
  lost. `Closing`: a shutdown that found nothing under way has at most the
  connection it is closing.

`SyncWorker_proofs`

- `SkipsNothingSettled`: `Spec => []SkipsOnlyMovingTargets`. The inductive
  invariant is `Types /\ Past /\ Listings /\ Movers /\ Cursors`: no stamp lies
  in the future; each listed version is current or was written since the
  listing began, and what a run in `settle` did not list was written after that
  as well; a run that moved the cursor accounts for every version at or under
  its new value; and the cursor is always 0 or the value some mover wrote. The
  last is why moving the cursor back is harmless: the older value is again one
  for which some run vouches.
- `JobsOutliveRuns`: `Spec => []RunsHaveTheirJob`, from the foreign key of
  `sync_job_runs` (`migrations/1700000002_m2-schema.sql:216`).
- `TypeCorrect` adds `Bounds`: a listing holds no record twice (`Distinct`), so a
  run stores no more than there are.
- `TurnsCountOnce` (`CountedOnce`): a run that has moved the cursor and overlaps
  with none has left it at or beyond what it kept, and the runs that began after
  it ended have begun there (`Turns`, `Order`).
- `HistoryAgrees` (`HistoryAgreesWithResult`): a row that counts records is that
  of a run that has moved the cursor, if it kept any (`History`). With
  `JobsOutliveRuns` this is `TablesAgreeWithRuns` (`TablesAgree`).
- `SyncsAreAtomic` (`ImplementsLedger`): the step of a run that moves the cursor is
  the sync, every other step a change of the channel, a tick or a stutter. The
  abstract variables are read off the runs that have moved the cursor, and those
  never change again (`MovementsStay`). The invariant `Traced` adds what a sync
  needs of the run: that its base is a cursor some such run left, or 0, and that
  what it has fetched the channel has held. That nothing which stood still is
  missing is `Past` and `Listings`, as for `SkipsNothingSettled`.

`Onboarding_proofs`

- `TypeCorrect`, `EndIsLast`, `CopiesAgree` and `ShopHasRules`: `TypeOK`,
  `ValidationIsLast`, `StepsAgree` and `LiveShopHasRules`, all from one
  inductive invariant, `IInv`. Sessions are only copied, moved back a step, or
  changed by `Judge`; so every copy is `Good` if that is so for the first
  session and what `Accept` and `Reject` make of a good one. `Good` speaks of
  the submissions whose data a session holds, and needs that a submission once
  found valid remains so (`Grows`): `Sound` says that no call has a verdict
  before it is judged, and that a call at a given await has read its session.
  A shop goes live only at `activate`, where the checks have passed, and those
  saw the rules completed in a good row.
- `StepsStay` (`AcceptedStepsStay`) and `StoresInStep` (`StoresAgree`) are about
  calls that take turns. `TInv` says whose turn it is, and of that call what row,
  key and its own copy have of every step accepted before: it may be about to
  replace the step it submits and those after, nothing else. A submission that
  failed halfway is the exception the properties name. What is claimed is what a
  reader finds where the session can be read: in the key or, if the `SELECT` is
  repaired, in the row. `InStep`: between its two
  writes a call has in its copy what the row holds.

`LlmGateway_proofs`

- `LimitKept`: `AdmittedWithinLimit`. The counter gives the requests of a window
  different answers (`Apart`), so those it admitted inject into
  `1..RateLimit`.
- `LogIsTrue`: `LogTellsTheOutcome`. Between reads, what was handed on is the
  frames up to the line read that no read has cut (`WholeFrames`), and the last
  read ended at that line; `ReadHandsOn` shows that one more read keeps this.
- `TypeCorrect` includes the bound on attempts. The module's assumption on its
  constants is a hypothesis of all three.

`AgentSide_proofs`, `Services_proofs`

A behaviour of `MCServices` follows one component; `FocusStays` shows that it
never changes to another. So it suffices that each component's invariant holds at
first and that its steps keep it (`SocketInit`, `SocketNext` and so on, in
`AgentSide_proofs` for the components of `MCAgentSide` and in `Services_proofs` for
the others); `ServicesInv` puts them together, and each result follows from it.
`LlmGateway_proofs` is instantiated, and the steps of the composition are shown to
be steps of that instance. The invariants:

- `RegistryInv` (`ToolListsAreExplained`): a list read and not stored yet is the
  table's unless the clock has moved, and what an invocation will find at its
  second look-up is nothing, what it found at its first, or a definition with a
  later stamp. Only a commit changes the table, with a stamp no call has seen
  (`CommitKeeps`).
- `SandboxInv`, `Served` (`ExecutionsTellTheSame`): the counter is the number of
  the calls that have a slot, and each execution's record, tool and answer fit the
  point where it is; nothing of the registry touches a call that waits for its
  execution.
- `LimitIsKept` and `LogIsTrue` are those of `LlmGateway_proofs`.
- `ChatInv` (`ChatsEndWell`): what compression leaves fits by the choice of the
  least number of messages dropped; a stream is closed by one farewell.
- `PlatformInv` (`SharesAreEven`): the candidates of a type, in their order, lie
  on a circle; those in a stretch of it that ends at the index have been picked
  once more often than the others. A request moves the end of the stretch
  (`RouteKeeps`), a change of the candidates begins a new one (`RecountKeeps`).
- `SocketInv` (`LivingAreKept`): how many timers a connection can have by now, one
  for each event of its socket; an open one has none, so none removes it.
- `StreamInv` (`TimersFollowStreams`): inductive with the types.
- `ScheduleInv` (`RowsAreScheduled`): a request that is alone with its job knows
  the row and which schedules are left; the others have tangled their job.
- `QueryInv` (`QueriesAreServed`): what a call has read, for whom and at which
  version, at each of its statements; what a cached entry may lack.
- `MappingInv` (`DecisionsStand`): of each mapping the choice that explains it, of
  an import the records so far and what its transaction would store.
- `BoardInv` (`BoardIsTrue`): buckets count only orders of their hour, and one that
  has ended counts no more than it does now, as orders keep their time. So rows
  whose buckets do not meet count disjoint sets, and their sum is within the
  tenant's orders. The sum is a recursive function, whose existence and value on
  disjoint sets are proved (`SumsThere`, `SumsCount`). An order that appears late
  belongs to a closed bucket only if its time is before the bucket's end and it was
  seen after it, the exception the property names.
- `MetricsInv` (`RatesAreTrue`): of each queue, what is recorded has been reported
  or will be; the statistics a poll holds precede those of later polls; the
  publishes that came late for one statistic explain the difference.
- `PageInv` (`OwnSessionIsHeard`): inductive with the types.
- `TypesAreCorrect`: `TypesOK`, from all of them.

`DataAlgorithms_proofs`

One theorem for each algorithm, for every input rather than those enumerated:
`CronsKeepDistance` and `CronsRunOnNeighbours` (fields with any finite set of parts
and any natural numbers),
`RemoteAlwaysWins` (records of any fields; that equal writing means equal meaning
is its hypothesis, which the proof shows for the records of the run),
`MatchesAreJustified` (any lists of SKUs with finitely many attributes, any
corrections), `AnomaliesStandOut` (any series of integers, any window and
threshold), `BucketsFit` (any period and length), `AveragesAreBetween`,
`AccuracyIsTrue` (any two tables its two statements may find), `StatsAreSound` and
`ShortIsShort` (any number of rows, mappings, runs and items), `ListingsAreWhole` (listings and names of any length, any page
size). `AlgorithmsAreRight` is `Spec => []AlgorithmsAgree`: each input of the run
satisfies the hypotheses. The algorithms are written with sums over sets, with
the pages' recursive function and with extremes; that these exist, and that a sum
is monotone, linear and splits, is proved once (from `LeastNumber` and the
library's facts about finite sets), and division by bounds on quotient and
remainder. A cron expression is checked for the smallest distance between its
minutes and hours, so the proof compares two runs by day, hour and minute; and
for the smallest between its days, which are neighbours if it is one (`Neighbours`).

Induction over data is done with the principle of the least number and a set of
counterexamples, as the library's induction theorems take an operator as a
parameter, which the provers cannot instantiate.

Only model-checked: liveness (`EventuallySettled`, `ReconnectsUnlessDeaf`,
`EveryRunEnds`), as fairness and `ENABLED` are out of the provers' reach, and the
six violated runs, which are counterexamples.

## 6. What is not modelled

Within the modelled components: payloads and their (de)serialisation, priorities
and the contents of queue arguments, backoff lengths (a delay is a step that may
happen at any later time), the warnings and log lines of the metrics; several instances of the service at one
broker (their queues and consumers are alike); conflict resolution inside a run,
which changes neither what it counts nor the cursor; a channel that lives on
beside the one a reconnect opened; a publish recorded by `recordPublish` under a
name that is no queue, which is cleared unreported (`metrics.ts:149`, `:211`);
what another chat could add between the compression of a history and its sending; job creation and history
queries of the repository; the tenant parameter of the sync worker and of onboarding;
what a prompt or a model's answer says beyond the SKU or event it names; the
isolation of sandboxed code; listings, filters and pagination that change
nothing.

Whole components: see `status` and `note` in `PROJECT.json`. Authentication,
observability, the mock routers and formatting keep no state across awaits. The
requests of the channel adapters, the other fields of their records, and the
pages, stores and queries of the frontend are I/O and display.

## 7. Plan

Every invariant the runs check is proved. What would say more, in this order:

1. abstract specifications of other components with the present ones shown to
   implement them, as `Delivery` is for the broker and `SyncLedger` for the sync
   worker: of the registry (a table read now or a moment ago), of the sandboxes (an
   execution ends once, in one way);
2. the safety part of the liveness properties: from which states a reconnect, a run
   or a delivery always has a step that brings its end nearer;
3. the parts of the repository that are modelled partly or not at all
   (`PROJECT.json`), if their code comes to keep state across awaits.
