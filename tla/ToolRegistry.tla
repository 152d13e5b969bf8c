---------------------------- MODULE ToolRegistry ----------------------------
(***************************************************************************)
(* The MCP tool registry: MCPToolRegistryService of                        *)
(* src/infrastructure/tools/tool-registry.ts with the schema validator and *)
(* the tool call logger it calls.                                          *)
(*                                                                         *)
(* Tools are rows of one table; the list of the active ones is kept in     *)
(* Redis for five minutes.  Concurrent calls register, unregister,         *)
(* discover and invoke; each await of the code is a point where the other  *)
(* calls, the expiry of the cached list and failures interleave.           *)
(*                                                                         *)
(* A definition of a tool is the stamp of the commit that wrote it and the *)
(* kind of its input schema; a list maps each name to the stamp of its     *)
(* active definition, 0 for none.                                          *)
(***************************************************************************)
EXTENDS Integers

CONSTANTS
  Names,      \* names of tools
  Calls,      \* calls of the registry's operations
  MaxFaults   \* bound: statements of PostgreSQL and Redis that fail

RegistryAssumption == MaxFaults \in Nat

VARIABLES
  rows,      \* rows[n]: the row of table tools with that name
  clock,     \* commits so far: stamps the definitions
  cache,     \* the key tools:registry
  executor,  \* is a ToolExecutor configured
  call,      \* call[c]: the operation under way and its local variables
  toolCalls, \* toolCalls[c]: the row of table tool_calls for an invocation
  faults

vars == <<rows, clock, cache, executor, call, toolCalls, faults>>

Schemas == {"empty", "broken", "strict"}
Inputs == {"null", "fits", "misfits"}
Answers == {"none", "VALIDATION_FAILED", "EXECUTOR_NOT_CONFIGURED",
            "TOOL_NOT_FOUND", "EXECUTION_ERROR", "FAILED", "SUCCESS"}
Ended == {"returned", "rejected"}
Points == {"idle", "invalidate", "query", "fill", "lookup", "execute"} \cup Ended

Lists == [Names -> Nat]
NoRow == [status |-> "none", stamp |-> 0, schema |-> "empty"]
Definition(stamp, schema) == [status |-> "active", stamp |-> stamp, schema |-> schema]
Empty == [n \in Names |-> 0]

(* The cached value with two fields of history: whether something was      *)
(* committed between its reading and its storing, and whether a change     *)
(* that should have deleted it did not.                                    *)
Absent == [held |-> FALSE, list |-> Empty, raced |-> FALSE, missed |-> FALSE]
Holding(list, raced) ==
  [held |-> TRUE, list |-> list, raced |-> raced, missed |-> FALSE]

(* name and list are locals of the code.  History: readAt, the clock when  *)
(* the list was read; begun and current, the clock and the tool's active   *)
(* definition when invoke was called; checked and runs, the definitions it *)
(* validated against and executed.                                         *)
Fresh == [at |-> "idle", name |-> "", list |-> Empty, readAt |-> 0, begun |-> 0,
          current |-> 0, checked |-> 0, runs |-> 0, answer |-> "none"]

Active == [n \in Names |-> IF rows[n].status = "active" THEN rows[n].stamp ELSE 0]
Goto(c, point) == call' = [call EXCEPT ![c].at = point]

(* The table and the cached list outlive the process: tools may be         *)
(* registered already, and listed.                                         *)
Init ==
  /\ clock = 1
  /\ rows \in [Names -> {NoRow} \cup {Definition(clock, schema) : schema \in Schemas}]
  /\ cache \in {Absent, Holding(Active, FALSE)}
  /\ executor \in BOOLEAN
  /\ call = [c \in Calls |-> Fresh]
  /\ toolCalls = [c \in Calls |-> "none"]
  /\ faults = 0

Fault ==
  /\ faults < MaxFaults
  /\ faults' = faults + 1

(* setToolExecutor.                                                        *)
SetToolExecutor ==
  /\ ~executor
  /\ executor' = TRUE
  /\ UNCHANGED <<rows, clock, cache, call, toolCalls, faults>>

(* A transaction of register or unregister ends: it commits and the caller *)
(* goes on to invalidate; or the caller sees it rejected, the commit made  *)
(* or not, and the cached list stays.                                      *)
Transaction(c, n, row) ==
  \/ /\ rows' = [rows EXCEPT ![n] = row]
     /\ clock' = clock + 1
     /\ Goto(c, "invalidate")
     /\ UNCHANGED <<cache, faults>>
  \/ /\ Fault
     /\ Goto(c, "rejected")
     /\ UNCHANGED <<rows, clock, cache>>
  \/ /\ Fault
     /\ rows' = [rows EXCEPT ![n] = row]
     /\ clock' = clock + 1
     /\ cache' = [cache EXCEPT !.missed = cache.held]
     /\ Goto(c, "rejected")

(* register: insert the row or overwrite the one of that name.             *)
Register(c, n) ==
  /\ call[c].at = "idle"
  /\ \E schema \in Schemas : Transaction(c, n, Definition(clock + 1, schema))
  /\ UNCHANGED <<executor, toolCalls>>

(* unregister: the active row becomes inactive.                            *)
Unregister(c, n) ==
  /\ call[c].at = "idle"
  /\ rows[n].status = "active"
  /\ Transaction(c, n, [rows[n] EXCEPT !.status = "inactive"])
  /\ UNCHANGED <<executor, toolCalls>>

(* No active row: the transaction throws and nothing is invalidated.       *)
UnregisterThrows(c, n) ==
  /\ call[c].at = "idle"
  /\ rows[n].status # "active"
  /\ Goto(c, "rejected")
  /\ UNCHANGED <<rows, clock, cache, executor, toolCalls, faults>>

(* invalidateCache; a failed delete is logged and swallowed.               *)
Invalidate(c) ==
  /\ call[c].at = "invalidate"
  /\ \/ cache' = Absent /\ UNCHANGED faults
     \/ cache' = [cache EXCEPT !.missed = cache.held] /\ Fault
  /\ Goto(c, "returned")
  /\ UNCHANGED <<rows, clock, executor, toolCalls>>

(* discover without a filter: a cached list is the answer; none, or a read *)
(* of Redis that fails, means the table.                                   *)
Discover(c) ==
  /\ call[c].at = "idle"
  /\ \/ /\ cache.held
        /\ call' = [call EXCEPT ![c].at = "returned", ![c].list = cache.list]
        /\ UNCHANGED faults
     \/ /\ ~cache.held
        /\ Goto(c, "query")
        /\ UNCHANGED faults
     \/ /\ Fault
        /\ Goto(c, "query")
  /\ UNCHANGED <<rows, clock, cache, executor, toolCalls>>

Query(c) ==
  /\ call[c].at = "query"
  /\ \/ /\ call' = [call EXCEPT ![c].at = "fill", ![c].list = Active,
                                ![c].readAt = clock]
        /\ UNCHANGED faults
     \/ /\ Fault
        /\ Goto(c, "rejected")
  /\ UNCHANGED <<rows, clock, cache, executor, toolCalls>>

(* cacheTools: the list as it was read, whatever was committed since.      *)
Fill(c) ==
  /\ call[c].at = "fill"
  /\ \/ /\ cache' = Holding(call[c].list, call[c].readAt < clock)
        /\ UNCHANGED faults
     \/ /\ Fault
        /\ UNCHANGED cache
  /\ Goto(c, "returned")
  /\ UNCHANGED <<rows, clock, executor, toolCalls>>

(* The five minutes are over.                                              *)
Expire ==
  /\ cache.held
  /\ cache' = Absent
  /\ UNCHANGED <<rows, clock, executor, call, toolCalls, faults>>

-----------------------------------------------------------------------------
(* SchemaValidator.validate: no input is never valid, an empty schema      *)
(* takes anything, one that does not compile nothing.                      *)
ValidInput(schema, input) ==
  /\ input # "null"
  /\ schema # "broken"
  /\ schema = "empty" \/ input = "fits"

(* Mutant of Found: the lookup by name takes the cached list when there is *)
(* one.                                                                    *)
FoundInCache(n) == IF cache.held THEN cache.list[n] ELSE Active[n]

(* discover({ name }) and the exact match: always the table, never the     *)
(* cache.                                                                  *)
Found(n) == Active[n]

(* invoke resolves and starts the log of the call without awaiting it.     *)
Answer(c, answer) ==
  /\ call' = [call EXCEPT ![c].at = "returned", ![c].answer = answer]
  /\ toolCalls' = [toolCalls EXCEPT ![c] = "pending"]

(* invoke: validate looks the tool up and checks the input against its     *)
(* schema; a tool that is not there is invalid as well.                    *)
Invoke(c, n) ==
  /\ call[c].at = "idle"
  /\ \E input \in Inputs :
       IF Found(n) # 0 /\ ValidInput(rows[n].schema, input)
         THEN IF executor
                THEN /\ call' = [call EXCEPT
                          ![c].at = "lookup", ![c].name = n,
                          ![c].begun = clock, ![c].current = Active[n],
                          ![c].checked = Found(n)]
                     /\ UNCHANGED toolCalls
                ELSE Answer(c, "EXECUTOR_NOT_CONFIGURED")
         ELSE Answer(c, "VALIDATION_FAILED")
  /\ UNCHANGED <<rows, clock, cache, executor, faults>>

(* The second lookup, for the timeout and the sandbox of the execution.    *)
Lookup(c) ==
  /\ call[c].at = "lookup"
  /\ IF Found(call[c].name) # 0
       THEN /\ call' = [call EXCEPT ![c].at = "execute",
                                    ![c].runs = Found(call[c].name)]
            /\ UNCHANGED toolCalls
       ELSE Answer(c, "TOOL_NOT_FOUND")
  /\ UNCHANGED <<rows, clock, cache, executor, faults>>

(* A lookup whose query fails rejects invoke, and nothing is logged.       *)
LookupFails(c) ==
  /\ call[c].at \in {"idle", "lookup"}
  /\ Fault
  /\ Goto(c, "rejected")
  /\ UNCHANGED <<rows, clock, cache, executor, toolCalls>>

(* The executor succeeds, answers with an error, or throws.                *)
Executed == {"SUCCESS", "FAILED", "EXECUTION_ERROR"}

Execute(c) ==
  /\ call[c].at = "execute"
  /\ \E answer \in Executed : Answer(c, answer)
  /\ UNCHANGED <<rows, clock, cache, executor, faults>>

(* ToolCallLogger.log: one insert, whose failure is swallowed.             *)
LogCall(c) ==
  /\ toolCalls[c] = "pending"
  /\ \/ toolCalls' = [toolCalls EXCEPT ![c] = "written"] /\ UNCHANGED faults
     \/ toolCalls' = [toolCalls EXCEPT ![c] = "lost"] /\ Fault
  /\ UNCHANGED <<rows, clock, cache, executor, call>>

Step(c) ==
  \/ \E n \in Names : \/ Register(c, n)
                      \/ Unregister(c, n)
                      \/ UnregisterThrows(c, n)
                      \/ Invoke(c, n)
  \/ Invalidate(c)
  \/ Discover(c)
  \/ Query(c)
  \/ Fill(c)
  \/ Lookup(c)
  \/ LookupFails(c)
  \/ Execute(c)
  \/ LogCall(c)

Next ==
  \/ SetToolExecutor
  \/ Expire
  \/ \E c \in Calls : Step(c)

Spec == Init /\ [][Next]_vars

-----------------------------------------------------------------------------
(* Types, and what holds at each point of a call.                          *)
Rows == [status : {"none", "active", "inactive"}, stamp : Nat, schema : Schemas]
Cached == [held : BOOLEAN, list : Lists, raced : BOOLEAN, missed : BOOLEAN]
Locals == [at : Points, name : Names \cup {""}, list : Lists, readAt : Nat,
           begun : Nat, current : Nat, checked : Nat, runs : Nat, answer : Answers]

TypeOK ==
  /\ rows \in [Names -> Rows]
  /\ clock \in Nat
  /\ cache \in Cached
  /\ executor \in BOOLEAN
  /\ call \in [Calls -> Locals]
  /\ \A c \in Calls : call[c].at \in {"lookup", "execute"} => call[c].name \in Names
  /\ toolCalls \in [Calls -> {"none", "pending", "written", "lost"}]
  /\ faults \in Nat

(* discover must show a change once register or unregister returned (hot   *)
(* plug): a cached list that differs from the table is about to be         *)
(* deleted by the call that changed it, or a change could not delete it,   *)
(* or it was read before a commit and stored after the delete.             *)
StaleListHasACause ==
  cache.held /\ cache.list # Active =>
    \/ \E c \in Calls : call[c].at = "invalidate"
    \/ cache.missed
    \/ cache.raced

(* A tool is never executed on the word of the cache: the definition an    *)
(* invocation validates against was active when it began, and the one it   *)
(* executes is that one or was registered since; so a tool unregistered    *)
(* before the call does not run, whatever list Redis holds.                *)
RunsAnActiveDefinition ==
  \A c \in Calls :
    call[c].runs # 0 =>
      /\ call[c].checked = call[c].current
      /\ call[c].runs = call[c].current \/ call[c].runs > call[c].begun
=============================================================================
