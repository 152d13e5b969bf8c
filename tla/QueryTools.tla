----------------------------- MODULE QueryTools -----------------------------
(***************************************************************************)
(* The MCP data tools of src/backend/mcp-tools (query_orders,              *)
(* query_inventory, query_products) with their query cache, and the part   *)
(* of the sync pipeline that invalidates the cache.                        *)
(*                                                                         *)
(* A call reads the cache, then the tables in two to four statements, each *)
(* of its own, then fills the cache; between them the tables are written,  *)
(* a sync ends and invalidates, answers expire.  What a call read is the   *)
(* tenant it read for and the number of writes its first statement saw.    *)
(*                                                                         *)
(* The sync worker counts the records it lists and stores none, so the     *)
(* writes to the tables are someone else's and may come at any time.       *)
(* The tools share neither tables nor keys of the cache, and a sync names  *)
(* one data type and so one tool: each behaviour follows one of them.      *)
(***************************************************************************)
EXTENDS Naturals

CONSTANTS
  Tenants, Calls, Syncs,
  Repairs,   \* what is taken as repaired: "condition", the tenant condition that
             \* the database service adds names its table, and "column", orders
             \* has a channel_id.  In the source (neither) statements that join
             \* tables are rejected as ambiguous, and those that name the column
  MaxWrites, \* bound: writes to the tables
  MaxFaults  \* bound: calls of PostgreSQL and Redis that fail

QueryAssumption ==
  /\ Repairs \subseteq SUBSET {"condition", "column"} /\ Repairs # {}
  /\ MaxWrites \in Nat /\ MaxFaults \in Nat

VARIABLES
  repaired,
  dataType, \* which tool this is: the type of the data it queries
  data,    \* data[t]: writes to the tables for tenant t
  entries, \* the cached answers, by key
  query,   \* query[c]: the local variables of a call of execute
  sync,    \* sync[s]: the local variables of a call of onSyncComplete
  synced,  \* history: the writes a sync that has ended was to make visible
  faults

vars == <<repaired, dataType, data, entries, query, sync, synced, faults>>

DataTypes == {"orders", "inventory", "products"}

(* "filter" stands for conditions on anything but the channel.             *)
Inputs == {"empty", "filter", "channel", "invalid"}

(* Mutant of Key: the tenant is left out.                                  *)
KeyOfInput(t, input) == <<CHOOSE u \in Tenants : TRUE, input>>

(* buildCacheKey: the name of the tool, the tenant and the input's hash.   *)
Key(t, input) == <<t, input>>

Keys == Tenants \X (Inputs \ {"invalid"})

(* raced: a sync had ended since the first statement; missed: a delete     *)
(* that failed.                                                            *)
NoEntry == [held |-> FALSE]
Entry(t, version, raced) ==
  [held |-> TRUE, tenant |-> t, version |-> version, raced |-> raced, missed |-> FALSE]

Init ==
  /\ repaired \in Repairs
  /\ dataType \in DataTypes
  /\ data = [t \in Tenants |-> 0]
  /\ entries = [k \in Keys |-> NoEntry]
  /\ query = [c \in Calls |-> [at |-> "idle"]]
  /\ sync = [s \in Syncs |-> [at |-> "idle"]]
  /\ synced = [t \in Tenants |-> 0]
  /\ faults = 0

Fault ==
  /\ faults < MaxFaults
  /\ faults' = faults + 1

(* Someone writes to the tables.                                           *)
Write(t) ==
  /\ data[t] < MaxWrites
  /\ data' = [data EXCEPT ![t] = @ + 1]
  /\ UNCHANGED <<repaired, dataType, entries, query, sync, synced, faults>>

-----------------------------------------------------------------------------
(* How a call ends: with an answer, and what the answer was read from.     *)
Answered(c, code, tenant, version) ==
  query' = [query EXCEPT ![c] = [at |-> "done", t |-> query[c].t, input |-> query[c].input,
                                 code |-> code, tenant |-> tenant, version |-> version,
                                 hurt |-> query[c].hurt]]
Goto(c, point) == query' = [query EXCEPT ![c].at = point]

(* execute: an input that does not validate is answered at once.           *)
Execute(c, t, input) ==
  /\ query[c].at = "idle"
  /\ query' = [query EXCEPT ![c] =
       IF input = "invalid"
         THEN [at |-> "done", t |-> t, input |-> input, code |-> "INVALID_PARAMETERS",
               tenant |-> t, version |-> 0, hurt |-> FALSE]
         ELSE [at |-> "get", t |-> t, input |-> input, version |-> 0,
               hurt |-> FALSE]]
  /\ UNCHANGED <<repaired, dataType, data, entries, sync, synced, faults>>

(* QueryCache.get: an error is a miss.                                     *)
Get(c) ==
  /\ query[c].at = "get"
  /\ LET entry == entries[Key(query[c].t, query[c].input)] IN
       \/ /\ entry.held
          /\ Answered(c, "SUCCESS", entry.tenant, entry.version)
          /\ UNCHANGED faults
       \/ ~entry.held /\ Goto(c, "count") /\ UNCHANGED faults
       \/ Goto(c, "count") /\ Fault
  /\ UNCHANGED <<repaired, dataType, data, entries, sync, synced>>

(* injectTenantFilter: the condition `tenant_id = $n' is ambiguous when    *)
(* the statement reads several tables, each of which has the column.       *)
Joins(c) ==
  \/ dataType = "inventory"
  \/ dataType = "products" /\ query[c].input = "channel" /\ query[c].at \in {"count", "rows"}
  \/ query[c].at = "mappings"

(* queryOrders: the rows, and a condition on the channel, name a column    *)
(* that no migration creates.                                              *)
NamesChannel(c) ==
  dataType = "orders" /\ (query[c].at = "rows" \/ query[c].input = "channel")

Binds(c) ==
  /\ Joins(c) => "condition" \in repaired
  /\ NamesChannel(c) => "column" \in repaired

Statements == {"count", "rows", "products", "mappings"}

(* One statement: the count, the page of rows, and, when the page has      *)
(* products, these and their mappings.                                     *)
Read(c) ==
  /\ query[c].at \in Statements
  /\ Binds(c)
  /\ \/ /\ query[c].at = "count"
        /\ query' = [query EXCEPT ![c].at = "rows", ![c].version = data[query[c].t]]
     \/ query[c].at = "rows" /\ Goto(c, "fill")
     \/ query[c].at = "rows" /\ dataType = "products" /\ Goto(c, "products")
     \/ query[c].at = "products" /\ Goto(c, "mappings")
     \/ query[c].at = "mappings" /\ Goto(c, "fill")
  /\ UNCHANGED <<repaired, dataType, data, entries, sync, synced, faults>>

(* A statement throws: the tool answers with its error code.               *)
ReadFails(c) ==
  /\ query[c].at \in Statements
  /\ \/ ~Binds(c) /\ Answered(c, "QUERY_FAILED", query[c].t, 0) /\ UNCHANGED faults
     \/ /\ Fault
        /\ query' = [query EXCEPT ![c] =
             [at |-> "done", t |-> query[c].t, input |-> query[c].input,
              code |-> "QUERY_FAILED", tenant |-> query[c].t, version |-> 0, hurt |-> TRUE]]
  /\ UNCHANGED <<repaired, dataType, data, entries, sync, synced>>

(* QueryCache.set, whose failure is swallowed, and the answer.             *)
Fill(c) ==
  /\ query[c].at = "fill"
  /\ \/ /\ entries' = [entries EXCEPT ![Key(query[c].t, query[c].input)] =
             Entry(query[c].t, query[c].version, query[c].version < synced[query[c].t])]
        /\ UNCHANGED faults
     \/ Fault /\ UNCHANGED entries
  /\ Answered(c, "SUCCESS", query[c].t, query[c].version)
  /\ UNCHANGED <<repaired, dataType, data, sync, synced>>

(* At most a minute has passed.                                            *)
Expire(k) ==
  /\ entries[k].held
  /\ entries' = [entries EXCEPT ![k] = NoEntry]
  /\ UNCHANGED <<repaired, dataType, data, query, sync, synced, faults>>

-----------------------------------------------------------------------------
(* onSyncComplete of a run that did not fail and processed records; any    *)
(* other run leaves the cache alone.                                       *)
OnSyncComplete(s, t) ==
  /\ sync[s].at = "idle"
  /\ sync' = [sync EXCEPT ![s] = [at |-> "invalidate", t |-> t, version |-> data[t]]]
  /\ UNCHANGED <<repaired, dataType, data, entries, query, synced, faults>>

(* Mutant of Invalidated: a key that no answer is stored under.            *)
NoKey(s) == <<sync[s].t, "none">>

(* The key of the empty input, and no other.                               *)
Invalidated(s) == Key(sync[s].t, "empty")

(* invalidateMCPCache: one key is deleted, and a delete that fails is      *)
(* logged.                                                                 *)
Invalidate(s) ==
  /\ sync[s].at = "invalidate"
  /\ LET key == Invalidated(s) IN
       \/ /\ entries' = [k \in Keys |-> IF k = key THEN NoEntry ELSE entries[k]]
          /\ UNCHANGED faults
       \/ /\ Fault
          /\ entries' = [k \in Keys |-> IF k = key /\ entries[k].held
                                            THEN [entries[k] EXCEPT !.missed = TRUE]
                                            ELSE entries[k]]
  /\ synced' = [synced EXCEPT ![sync[s].t] =
       IF @ > sync[s].version THEN @ ELSE sync[s].version]
  /\ sync' = [sync EXCEPT ![s] = [at |-> "done"]]
  /\ UNCHANGED <<repaired, dataType, data, query>>

Next ==
  \/ \E t \in Tenants :
       \/ Write(t)
       \/ \E c \in Calls, input \in Inputs : Execute(c, t, input)
       \/ \E s \in Syncs : OnSyncComplete(s, t)
  \/ \E c \in Calls : Get(c) \/ Read(c) \/ ReadFails(c) \/ Fill(c)
  \/ \E k \in Keys : Expire(k)
  \/ \E s \in Syncs : Invalidate(s)

Spec == Init /\ [][Next]_vars

-----------------------------------------------------------------------------
TypeOK ==
  /\ repaired \subseteq {"condition", "column"}
  /\ dataType \in DataTypes
  /\ data \in [Tenants -> Nat]
  /\ \A k \in Keys :
       entries[k] \in {NoEntry} \cup [held : {TRUE}, tenant : Tenants, version : Nat,
                                      raced : BOOLEAN, missed : BOOLEAN]
  /\ \A c \in Calls :
       \/ query[c] = [at |-> "idle"]
       \/ query[c] \in [at : Statements \cup {"get", "fill"}, t : Tenants,
                        input : Inputs, version : Nat, hurt : BOOLEAN]
       \/ query[c] \in [at : {"done"}, t : Tenants, input : Inputs,
                        code : {"SUCCESS", "INVALID_PARAMETERS", "QUERY_FAILED"},
                        tenant : Tenants, version : Nat, hurt : BOOLEAN]
  /\ synced \in [Tenants -> Nat]
  /\ faults \in Nat

(* What a tool answers was read for the tenant that asked, from the tables *)
(* or from the cache.                                                      *)
AnswersAreOwn ==
  \A c \in Calls : query[c].at = "done" => query[c].tenant = query[c].t

(* What the invalidation does reach: an answer to the empty input that     *)
(* lacks a sync's data is cached only because a call that had read before  *)
(* the sync stored it after, or because the delete failed.  (Other inputs, *)
(* and that race, are EveryInputIsFresh and LateAnswersAreFresh.)          *)
FreshAfterSync ==
  \A k \in Keys :
    entries[k].held /\ entries[k].version < synced[k[1]] =>
      k[2] # "empty" \/ entries[k].raced \/ entries[k].missed

(* A valid question is refused for no other reason than a statement that   *)
(* the schema cannot bind or a call of the database that failed: with the  *)
(* tool's statements taken as repaired, whoever asks well is answered.     *)
Mend == IF dataType = "orders" THEN "column" ELSE "condition"
AnswersOnceRepaired ==
  \A c \in Calls :
    /\ Mend \in repaired
    /\ query[c].at = "done" /\ query[c].input # "invalid" /\ ~query[c].hurt
    => query[c].code = "SUCCESS"

(* Requirement 10.1 to 10.3 of m2: the tools answer questions about        *)
(* orders, stock and products.  On the schema of the migrations            *)
(* query_orders and query_inventory never do.                              *)
ToolsAnswer ==
  \A c \in Calls :
    query[c].at = "done" /\ query[c].input # "invalid" /\ ~query[c].hurt
    => query[c].code = "SUCCESS"

(* sync-pipeline.ts:141: agents get fresh data on their next query after a *)
(* sync.  Of a tool's cached answers only the one to the empty input is    *)
(* deleted, so those to any other input stay as they were.                 *)
EveryInputIsFresh ==
  \A k \in Keys : entries[k].held /\ ~entries[k].raced => entries[k].version >= synced[k[1]]

(* The same claim where the key is deleted: a call that read before the    *)
(* sync may store its answer after the invalidation.                       *)
LateAnswersAreFresh ==
  \A k \in Keys : entries[k].held /\ k[2] = "empty" => entries[k].version >= synced[k[1]]
=============================================================================
