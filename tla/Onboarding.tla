----------------------------- MODULE Onboarding -----------------------------
(***************************************************************************)
(* One onboarding session of one shop: OnboardingSessionService            *)
(* (backend/onboarding/session-service.ts), OnboardingStepEngine           *)
(* (step-engine.ts) and OnboardingPipeline (onboarding-pipeline.ts) with   *)
(* the reads of ConfigValidator and OrderFlowSimulator they depend on.     *)
(*                                                                         *)
(* The session lives twice, in Redis and in a row of onboarding_sessions.  *)
(* Every operation reads it whole, from Redis if it is there, works on its *)
(* own copy, and writes it whole, row first.  Nothing locks the session,   *)
(* so the awaits of concurrent calls interleave, also with the expiry of   *)
(* the Redis key, lost statements and crashes.                             *)
(*                                                                         *)
(* Steps are their places in ONBOARDING_STEPS: the last is "validation",   *)
(* the one before "rule_setup".  The data submitted for a step is named by *)
(* the call that submitted it.  The count of interactions is left out.     *)
(***************************************************************************)
EXTENDS Naturals

CONSTANTS
  Calls,      \* calls of the operations
  N,          \* number of steps
  NoData,     \* the data {} of a step nobody has submitted
  NoSession,  \* no row, or no key
  Repairs,    \* which statements bind; in the source ({}) none of these:
              \* the INSERTs lack a parameter, and the tenant filter is put
              \* where it makes them invalid; the SELECT of a session asks
              \* for the tenant '', which is no UUID
  MaxFaults   \* bound: failed statements, lost acknowledgements and crashes

Steps == 1..N
Rules == N - 1
Data == Calls \cup {NoData}

Session == [step : Steps, completed : SUBSET Steps,
            status : [Steps -> {"pending", "in_progress", "completed", "failed"}],
            data : [Steps -> Data]]

ASSUME OnboardingAssumption ==
  /\ N \in Nat \ {0, 1}
  /\ NoData \notin Calls
  /\ NoSession \notin Session
  /\ Repairs \subseteq SUBSET {"insert", "select"} /\ Repairs # {}
  /\ MaxFaults \in Nat

VARIABLES
  repaired,  \* the statements that bind
  table,     \* the row: the session and its status column
  cache,     \* the Redis key
  live,      \* shops.status = 'active'
  call,      \* the local variables of every call
  accepted,  \* history: the submission last answered with success for a
             \* step that no later one has reset
  turns,     \* history: no call has begun while another was under way
  faults     \* faults so far

vars == <<repaired, table, cache, live, call, accepted, turns, faults>>

Kinds == {"create", "get", "submit", "back", "touch", "validate", "complete"}
Ended == {"answered", "missing", "threw", "crashed"}
Points == {"idle", "read", "load", "fill", "judge", "persist", "store",
           "check", "simulate", "report", "activate", "mark"} \cup Ended

\* own is the call's copy of the session, verdict what the validator of the
\* step said, passed what the checks of a validation have said so far.
Fresh == [at |-> "idle", kind |-> "get", step |-> 1, own |-> NoSession,
          verdict |-> "none", passed |-> FALSE]

Initial == [step |-> 1, completed |-> {},
            status |-> [k \in Steps |-> "pending"],
            data |-> [k \in Steps |-> NoData]]

Init ==
  /\ repaired \in Repairs
  /\ table = [session |-> NoSession, status |-> "in_progress"]
  /\ cache = NoSession
  /\ live = FALSE
  /\ call = [r \in Calls |-> Fresh]
  /\ accepted = [k \in Steps |-> NoData]
  /\ turns = TRUE
  /\ faults = 0

UnderWay(r) == call[r].at \notin Ended \cup {"idle"}
Created == \E r \in Calls : call[r].kind = "create" /\ call[r].at = "answered"

Goto(r, point) == call' = [call EXCEPT ![r].at = point]

\* A call that has ended drops its copy.
End(r, how) == call' = [call EXCEPT ![r].at = how, ![r].own = NoSession]

Fault == /\ faults < MaxFaults
         /\ faults' = faults + 1

-----------------------------------------------------------------------------
(***************************************************************************)
(* Calls begin.  createSession goes straight to its writes; the id of the  *)
(* session is known when it has answered.  "touch" is resumeSession and    *)
(* the help route, which count an interaction; "get" is getSession, which  *)
(* the routes also call before the operation proper.                       *)
(***************************************************************************)
First(kind) == CASE kind = "create" -> "persist"
                 [] kind = "validate" -> "check"
                 [] OTHER -> "read"

Begin(r, kind, k) ==
  /\ call[r].at = "idle"
  /\ IF kind = "create" THEN \A q \in Calls : call[q].kind # "create"
                        ELSE Created
  /\ kind # "submit" => k = 1
  /\ call' = [call EXCEPT
       ![r] = [Fresh EXCEPT !.at = First(kind), !.kind = kind, !.step = k,
                 !.own = IF kind = "create" THEN Initial ELSE NoSession]]
  /\ turns' = (turns /\ \A q \in Calls : ~UnderWay(q))
  /\ UNCHANGED <<repaired, table, cache, live, accepted, faults>>

(***************************************************************************)
(* getSession: Redis, else the row, which is then put in Redis.  Proceed   *)
(* is what the operation does with the session s before its next await.    *)
(***************************************************************************)
After(kind, s) == CASE kind = "submit" -> "judge"
                    [] kind = "touch" -> "persist"
                    [] kind = "back" /\ s.step > 1 -> "persist"
                    [] kind = "complete" -> "check"
                    [] OTHER -> "answered"

Taken(kind, s) == IF kind = "back" THEN [s EXCEPT !.step = @ - 1] ELSE s

Proceed(r, s) ==
  LET kind == call[r].kind
      point == After(kind, s)
  IN  IF point = "answered"
      THEN End(r, "answered")
      ELSE call' = [call EXCEPT ![r].at = point, ![r].own = Taken(kind, s)]

CacheHit(r) ==
  /\ call[r].at = "read"
  /\ cache # NoSession
  /\ Proceed(r, cache)
  /\ UNCHANGED <<repaired, table, cache, live, accepted, turns, faults>>

CacheMiss(r) ==
  /\ call[r].at = "read"
  /\ cache = NoSession
  /\ Goto(r, "load")
  /\ UNCHANGED <<repaired, table, cache, live, accepted, turns, faults>>

Load(r) ==
  /\ call[r].at = "load"
  /\ "select" \in repaired
  /\ IF table.session = NoSession
     THEN End(r, "missing")
     ELSE call' = [call EXCEPT ![r].at = "fill", ![r].own = table.session]
  /\ UNCHANGED <<repaired, table, cache, live, accepted, turns, faults>>

\* tenant_id = '' on a UUID column: the statement is rejected, row or no row.
LoadRejected(r) ==
  /\ call[r].at = "load"
  /\ "select" \notin repaired
  /\ End(r, "threw")
  /\ UNCHANGED <<repaired, table, cache, live, accepted, turns, faults>>

Fill(r) ==
  /\ call[r].at = "fill"
  /\ cache' = call[r].own
  /\ Proceed(r, call[r].own)
  /\ UNCHANGED <<repaired, table, live, accepted, turns, faults>>

ReadFails(r) ==
  /\ call[r].at \in {"read", "load"}
  /\ Fault
  /\ End(r, "threw")
  /\ UNCHANGED <<repaired, table, cache, live, accepted, turns>>

(***************************************************************************)
(* submitStep, from the validator's answer to the next await.  The order   *)
(* of steps is enforced by the validator of the last one only.             *)
(***************************************************************************)
\* Mutant: the validator of the last step asks for nothing.
PriorStepsAnyway(s) == TRUE

PriorSteps(s) == 1..(N - 1) \subseteq s.completed

Valid(s, k) == IF k = N THEN {PriorSteps(s)} ELSE BOOLEAN

\* Mutant: cascadeReset leaves completedSteps alone.
AcceptNoReset(s, k, r) ==
  [step |-> IF k < N THEN k + 1 ELSE s.step,
   completed |-> s.completed \cup {k},
   status |-> [j \in Steps |->
     IF j = k THEN "completed"
     ELSE IF j > k /\ j \in s.completed /\ k \in s.completed
       THEN IF j = k + 1 THEN "in_progress" ELSE "pending"
     ELSE s.status[j]],
   data |-> [s.data EXCEPT ![k] = r]]

\* Mutant: getNextStep goes one step too far.
AcceptPastEnd(s, k, r) ==
  [step |-> k + 1, completed |-> s.completed \cup {k},
   status |-> [s.status EXCEPT ![k] = "completed"],
   data |-> [s.data EXCEPT ![k] = r]]

\* Steps after k have to be validated anew when k is submitted again.
Reset(s, k) == IF k \in s.completed THEN {j \in s.completed : j > k} ELSE {}

Accept(s, k, r) ==
  [step |-> IF k < N THEN k + 1 ELSE s.step,
   completed |-> (s.completed \ Reset(s, k)) \cup {k},
   status |-> [j \in Steps |->
     IF j = k THEN "completed"
     ELSE IF j \in Reset(s, k) \/ s.status[j] = "pending"
       THEN IF j = k + 1 THEN "in_progress" ELSE "pending"
     ELSE s.status[j]],
   data |-> [s.data EXCEPT ![k] = r]]

Reject(s, k) == [s EXCEPT !.status[k] = "failed"]

Judge(r) ==
  /\ call[r].at = "judge"
  /\ \E valid \in Valid(call[r].own, call[r].step) :
       call' = [call EXCEPT
         ![r].at = "persist",
         ![r].verdict = IF valid THEN "valid" ELSE "invalid",
         ![r].own = IF valid THEN Accept(@, call[r].step, r)
                             ELSE Reject(@, call[r].step)]
  /\ UNCHANGED <<repaired, table, cache, live, accepted, turns, faults>>

(***************************************************************************)
(* createSession and updateSession: the row (which resets its status), and *)
(* then the key.  The database service repeats a statement whose           *)
(* connection broke, whether or not it was committed.                      *)
(***************************************************************************)
Written(r) == [session |-> call[r].own, status |-> "in_progress"]

\* Mutant: updateSession only writes the key.
PersistNothing(r) ==
  /\ call[r].at = "persist"
  /\ "insert" \in repaired
  /\ Goto(r, "store")
  /\ table' = IF call[r].kind = "create" THEN Written(r) ELSE table
  /\ UNCHANGED <<repaired, cache, live, accepted, turns, faults>>

Persist(r) ==
  /\ call[r].at = "persist"
  /\ "insert" \in repaired
  /\ table' = Written(r)
  /\ Goto(r, "store")
  /\ UNCHANGED <<repaired, cache, live, accepted, turns, faults>>

PersistFails(r) ==
  /\ call[r].at = "persist"
  /\ IF "insert" \in repaired THEN Fault /\ table' \in {table, Written(r)}
     ELSE UNCHANGED <<faults, table>>
  /\ \/ End(r, "threw")
     \/ "insert" \in repaired /\ UNCHANGED call
  /\ UNCHANGED <<repaired, cache, live, accepted, turns>>

\* Mutant: the key of an update is left to expire.
StoreNothing(r) ==
  /\ call[r].at = "store"
  /\ cache' = IF call[r].kind = "create" THEN call[r].own ELSE cache
  /\ End(r, "answered")
  /\ accepted' = accepted
  /\ UNCHANGED <<repaired, table, live, turns, faults>>

Store(r) ==
  /\ call[r].at = "store"
  /\ cache' = call[r].own
  /\ End(r, "answered")
  /\ accepted' =
       IF call[r].verdict = "valid"
       THEN [k \in Steps |-> IF k = call[r].step THEN r
                             ELSE IF k \in call[r].own.completed THEN accepted[k]
                             ELSE NoData]
       ELSE accepted
  /\ UNCHANGED <<repaired, table, live, turns, faults>>

StoreFails(r) ==
  /\ call[r].at \in {"store", "fill"}
  /\ Fault
  /\ cache' \in {cache, call[r].own}
  /\ End(r, "threw")
  /\ UNCHANGED <<repaired, table, live, accepted, turns>>

(***************************************************************************)
(* executeValidation and completeOnboarding.  ConfigValidator and          *)
(* OrderFlowSimulator each look for the rules in the row, and check other  *)
(* things (channel, SKUs, stock) which may pass or not.                    *)
(***************************************************************************)
\* Mutant: any session in progress will do.
SessionInProgress ==
  table.session # NoSession /\ table.status = "in_progress"

RulesConfigured ==
  /\ table.session # NoSession
  /\ table.status = "in_progress"
  /\ table.session.status[Rules] = "completed"

Inspect(r, point) ==
  /\ \E others \in BOOLEAN :
       call' = [call EXCEPT
         ![r].at = point,
         ![r].passed = others /\ RulesConfigured
                       /\ (call[r].at = "simulate" => call[r].passed)]
  /\ UNCHANGED <<repaired, table, cache, live, accepted, turns, faults>>

Check(r) == call[r].at = "check" /\ Inspect(r, "simulate")
Simulate(r) == call[r].at = "simulate" /\ Inspect(r, "report")

\* After the report, and the activation if there is one.
Conclude(r) ==
  IF call[r].kind = "complete" THEN Goto(r, "mark") ELSE End(r, "answered")

Report(r) ==
  /\ call[r].at = "report"
  /\ "insert" \in repaired
  /\ IF call[r].passed THEN Goto(r, "activate") ELSE Conclude(r)
  /\ UNCHANGED <<repaired, table, cache, live, accepted, turns, faults>>

Activate(r) ==
  /\ call[r].at = "activate"
  /\ live' = TRUE
  /\ Conclude(r)
  /\ UNCHANGED <<repaired, table, cache, accepted, turns, faults>>

\* The row is marked whatever the report said; the key has no status.
Mark(r) ==
  /\ call[r].at = "mark"
  /\ table' = [table EXCEPT !.status = "completed"]
  /\ End(r, "answered")
  /\ UNCHANGED <<repaired, cache, live, accepted, turns, faults>>

PipelineFails(r) ==
  /\ call[r].at \in {"report", "activate", "mark"}
  /\ Fault
  /\ live' \in {live, live \/ call[r].at = "activate"}
  /\ table' \in {table, IF call[r].at = "mark"
                        THEN [table EXCEPT !.status = "completed"] ELSE table}
  /\ End(r, "threw")
  /\ UNCHANGED <<repaired, cache, accepted, turns>>

-----------------------------------------------------------------------------
\* The key's two hours are over.
Expire ==
  /\ cache # NoSession
  /\ cache' = NoSession
  /\ UNCHANGED <<repaired, table, live, call, accepted, turns, faults>>

\* The process dies; the row and the key stay.
Crash ==
  /\ Fault
  /\ \E r \in Calls : UnderWay(r)
  /\ call' = [r \in Calls |->
       IF UnderWay(r) THEN [call[r] EXCEPT !.at = "crashed", !.own = NoSession]
       ELSE call[r]]
  /\ UNCHANGED <<repaired, table, cache, live, accepted, turns>>

Reading(r) == \/ CacheHit(r)
              \/ CacheMiss(r)
              \/ Load(r)
              \/ LoadRejected(r)
              \/ Fill(r)
              \/ ReadFails(r)
Writing(r) == \/ Judge(r)
              \/ Persist(r)
              \/ PersistFails(r)
              \/ Store(r)
              \/ StoreFails(r)
Validating(r) == \/ Check(r)
                 \/ Simulate(r)
                 \/ Report(r)
                 \/ Activate(r)
                 \/ Mark(r)
                 \/ PipelineFails(r)

Next ==
  \/ \E r \in Calls :
       \/ \E kind \in Kinds, k \in Steps : Begin(r, kind, k)
       \/ Reading(r)
       \/ Writing(r)
       \/ Validating(r)
  \/ Expire
  \/ Crash

Spec == Init /\ [][Next]_vars

-----------------------------------------------------------------------------
\* Every variable keeps its type.
TypeOK ==
  /\ repaired \subseteq {"insert", "select"}
  /\ table \in [session : Session \cup {NoSession},
                status : {"in_progress", "completed"}]
  /\ cache \in Session \cup {NoSession}
  /\ live \in BOOLEAN
  /\ call \in [Calls -> [at : Points, kind : Kinds, step : Steps,
                         own : Session \cup {NoSession},
                         verdict : {"none", "valid", "invalid"},
                         passed : BOOLEAN]]
  /\ accepted \in [Steps -> Data]
  /\ turns \in BOOLEAN
  /\ faults \in 0..MaxFaults

\* Every copy of the session there is.
Copies ==
  ({table.session, cache} \cup {call[r].own : r \in Calls}) \ {NoSession}

(***************************************************************************)
(* NOBODY REACHES THE END PAST AN OPEN STEP (step-engine.ts:78-146,        *)
(* validation-step-validator.ts:28-38).  Any step can be submitted at any  *)
(* time and sessions are overwritten by stale copies; still, in every copy *)
(* "validation" is complete only if all steps are.                         *)
(***************************************************************************)
ValidationIsLast == \A s \in Copies : N \in s.completed => s.completed = Steps

(***************************************************************************)
(* completedSteps AND THE STEPS' OWN STATUS AGREE (step-engine.ts:94-135,  *)
(* 198-218).  A step marked completed is in the list; a step in the list   *)
(* is completed, or failed when it was submitted again; and it holds data  *)
(* that its validator accepted when some call submitted it for that step.  *)
(***************************************************************************)
Submitted(d, k) ==
  d # NoData /\ call[d].kind = "submit" /\ call[d].step = k
  /\ call[d].verdict = "valid"

StepsAgree ==
  \A s \in Copies, k \in Steps :
    /\ s.status[k] = "completed" => k \in s.completed
    /\ k \in s.completed => /\ s.status[k] \in {"completed", "failed"}
                            /\ Submitted(s.data[k], k)

Unanswered(r) == call[r].at \notin {"idle", "answered", "missing"}

\* What getSession would return, if its statement binds.
View == IF cache # NoSession THEN cache ELSE table.session
Readable == cache # NoSession \/ "select" \in repaired

Found(k) == /\ Readable /\ View # NoSession
            /\ k \in View.completed /\ View.data[k] = accepted[k]

\* A submission that was never answered, of this step or an earlier one.
Replaced(k) ==
  \E r \in Calls : call[r].kind = "submit" /\ call[r].step <= k /\ Unanswered(r)

(***************************************************************************)
(* AN ACCEPTED STEP STAYS (session-service.ts:3-14, step-engine.ts:78-146).*)
(* As long as calls take turns, a step answered with success and not reset *)
(* since is what the next reader finds, though writes fail half-way and    *)
(* the process dies; except where an unanswered submission has replaced    *)
(* it.  Of a session whose key has expired this is said for the repaired   *)
(* SELECT alone: the one of the source finds no row.                       *)
(***************************************************************************)
AcceptedStepsStay ==
  turns /\ Readable =>
    \A k \in Steps : accepted[k] # NoData => Found(k) \/ Replaced(k)

(***************************************************************************)
(* "Reads from Redis cache first, falls back to PostgreSQL"                *)
(* (session-service.ts:161): so it is after the key has expired.           *)
(***************************************************************************)
AcceptedStepsSurvive ==
  turns => \A k \in Steps : accepted[k] # NoData => Found(k) \/ Replaced(k)

(***************************************************************************)
(* "createSession: Creates a new session with initial state"               *)
(* (session-service.ts:5): it only fails if something else has.            *)
(***************************************************************************)
SessionsAreCreated ==
  \A r \in Calls :
    call[r].kind = "create" /\ call[r].at = "threw" => faults > 0

(***************************************************************************)
(* THE TWO STORES AGREE (session-service.ts:13, "Write-through"): at rest, *)
(* unless calls overlapped or one of them failed.                          *)
(***************************************************************************)
StoresAgree ==
  (turns /\ cache # NoSession /\ \A r \in Calls : ~Unanswered(r))
    => cache = table.session

(***************************************************************************)
(* A SHOP GOES LIVE ONLY WITH RULES (onboarding-pipeline.ts:130-168): some *)
(* submission of the rules was found valid.                                *)
(***************************************************************************)
LiveShopHasRules == live => \E r \in Calls : Submitted(r, Rules)
=============================================================================
