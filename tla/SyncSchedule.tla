---------------------------- MODULE SyncSchedule ----------------------------
(***************************************************************************)
(* The schedules of the sync jobs: the routes of                           *)
(* src/backend/data-sync/routes.ts over the rows of table sync_jobs and    *)
(* the repeatable jobs which SyncQueueManager keeps in the Bull queue.     *)
(*                                                                         *)
(* The two stores are written one after the other, each statement and each *)
(* call of the queue on its own: between them other requests, failures,    *)
(* the shutdown of the queue and the end of the process come in.           *)
(*                                                                         *)
(* Bull knows a repeatable job by its id and its cron expression: a        *)
(* schedule with another expression is a second schedule, the same one     *)
(* added again is not.  The jobs a schedule gives rise to have ids of      *)
(* their own, so getJob(jobId) finds none.                                 *)
(***************************************************************************)
EXTENDS Naturals

CONSTANTS
  Jobs,      \* identifiers of sync jobs
  Crons,     \* cron expressions that pass validateCronExpression
  Requests,  \* requests POST, PUT and DELETE
  Repairs,   \* does the UPDATE of sync_jobs bind?  In the source (FALSE) the
             \* numbers of its placeholders are wrong and it never commits
  MaxFaults  \* bound: calls that fail, shutdowns and crashes

ScheduleAssumption ==
  /\ "none" \notin Crons
  /\ Repairs \subseteq BOOLEAN /\ Repairs # {}
  /\ MaxFaults \in Nat

VARIABLES
  repaired,  \* whether the UPDATE binds
  rows,      \* rows[j]: the row of sync_jobs
  hasRuns,   \* jobs with rows in sync_job_runs, which refer to the job
  scheduled, \* the repeatable jobs: pairs of a job and an expression
  queue,     \* is the queue manager initialized
  request,   \* request[r]: the local variables of a request
  tangled,   \* history: jobs whose last change was cut short, or refused after
             \* their schedule was removed, or met another change
  faults

vars == <<repaired, rows, hasRuns, scheduled, queue, request, tangled, faults>>

Unused == [here |-> FALSE, enabled |-> FALSE, cron |-> "none"]
Existing == [here : {TRUE}, enabled : BOOLEAN, cron : Crons]
Halfway == {"list", "remove", "schedule", "delete"}

Wanted(j) == IF rows[j].here /\ rows[j].enabled THEN {rows[j].cron} ELSE {}
CronsOf(j) == {c \in Crons : <<j, c>> \in scheduled}

Init ==
  /\ repaired \in Repairs
  /\ rows \in [Jobs -> {Unused} \cup Existing]
  /\ hasRuns = {}
  /\ scheduled = UNION {{<<j, c>> : c \in Wanted(j)} : j \in Jobs}
  /\ queue \in BOOLEAN
  /\ request = [r \in Requests |-> [at |-> "idle"]]
  /\ tangled = {}
  /\ faults = 0

Fault ==
  /\ faults < MaxFaults
  /\ faults' = faults + 1

UnderWay(j) == {r \in Requests : request[r].at \in Halfway /\ request[r].job = j}

(* A request goes on beyond its first statement; alone is history.         *)
Begin(r, j, point, verb, row, own) ==
  /\ request' = [q \in Requests |->
       IF q = r THEN [at |-> point, verb |-> verb, job |-> j, row |-> row, own |-> own,
                      keys |-> {}, alone |-> UnderWay(j) = {}]
       ELSE IF q \in UnderWay(j) THEN [request[q] EXCEPT !.alone = FALSE]
       ELSE request[q]]
  /\ tangled' = IF UnderWay(j) = {} THEN tangled ELSE tangled \cup {j}

(* Answers of a request: a change made alone and to its end leaves its job *)
(* in order, whatever happened before.                                     *)
Succeed(r) ==
  /\ request' = [request EXCEPT ![r] = [at |-> "done"]]
  /\ tangled' = IF request[r].alone THEN tangled \ {request[r].job} ELSE tangled
FailWith(r, left) ==
  /\ request' = [request EXCEPT ![r] = [at |-> "done"]]
  /\ tangled' = tangled \cup left

-----------------------------------------------------------------------------
(* POST: insert the row, then schedule it if it is enabled.                *)
Post(r, j, row) ==
  /\ request[r].at = "idle"
  /\ rows[j] = Unused
  /\ rows' = [rows EXCEPT ![j] = row]
  /\ IF row.enabled THEN Begin(r, j, "schedule", "POST", row, TRUE)
                    ELSE FailWith(r, {})
  /\ UNCHANGED <<repaired, hasRuns, scheduled, queue, faults>>

(* PUT: the row is updated, or, if the request names no field, only read;  *)
(* what was written is what will be scheduled.                             *)
Put(r, j, row) ==
  /\ request[r].at = "idle"
  /\ rows[j].here
  /\ row = rows[j] \/ repaired
  /\ rows' = [rows EXCEPT ![j] = row]
  /\ Begin(r, j, "list", "PUT", row, TRUE)
  /\ UNCHANGED <<repaired, hasRuns, scheduled, queue, faults>>

(* A PUT that names a field, with the statement of the source.             *)
PutThrows(r) ==
  /\ request[r].at = "idle"
  /\ ~repaired
  /\ FailWith(r, {})
  /\ UNCHANGED <<repaired, rows, hasRuns, scheduled, queue, faults>>

(* DELETE removes the schedule before it looks whose job it is.            *)
Delete(r, j, own) ==
  /\ request[r].at = "idle"
  /\ rows[j] # Unused
  /\ Begin(r, j, "list", "DELETE", rows[j], own)
  /\ UNCHANGED <<repaired, rows, hasRuns, scheduled, queue, faults>>

(* removeJob: list the repeatable jobs, remove those with this id one by   *)
(* one, and go on.                                                         *)
List(r) ==
  /\ request[r].at = "list"
  /\ queue
  /\ request' = [request EXCEPT ![r].at = "remove", ![r].keys = CronsOf(request[r].job)]
  /\ UNCHANGED <<repaired, rows, hasRuns, scheduled, queue, tangled, faults>>

(* Mutant of KeysToRemove: the key is made from the expression of the row. *)
KeyOfTheRow(r) == request[r].keys \cap {request[r].row.cron}

KeysToRemove(r) == request[r].keys

Remove(r) ==
  /\ request[r].at = "remove"
  /\ \E c \in KeysToRemove(r) :
       /\ scheduled' = scheduled \ {<<request[r].job, c>>}
       /\ request' = [request EXCEPT ![r].keys = @ \ {c}]
  /\ UNCHANGED <<repaired, rows, hasRuns, queue, tangled, faults>>

Removed(r) ==
  /\ request[r].at = "remove"
  /\ KeysToRemove(r) = {}
  /\ IF request[r].verb = "PUT" /\ ~request[r].row.enabled
       THEN Succeed(r)
       ELSE /\ request' = [request EXCEPT ![r].at =
                 IF request[r].verb = "PUT" THEN "schedule" ELSE "delete"]
            /\ UNCHANGED tangled
  /\ UNCHANGED <<repaired, rows, hasRuns, scheduled, queue, faults>>

(* scheduleJob.                                                            *)
Schedule(r) ==
  /\ request[r].at = "schedule"
  /\ queue
  /\ scheduled' = scheduled \cup {<<request[r].job, request[r].row.cron>>}
  /\ Succeed(r)
  /\ UNCHANGED <<repaired, rows, hasRuns, queue, faults>>

(* The row goes if it is the caller's and no run refers to it; otherwise   *)
(* the request is answered with 404 or 500, its schedule removed.          *)
DeleteRow(r) ==
  /\ request[r].at = "delete"
  /\ LET j == request[r].job IN
       IF request[r].own /\ rows[j].here /\ j \notin hasRuns
         THEN rows' = [rows EXCEPT ![j].here = FALSE] /\ Succeed(r)
         ELSE FailWith(r, IF rows[j].here THEN {j} ELSE {}) /\ UNCHANGED rows
  /\ UNCHANGED <<repaired, hasRuns, scheduled, queue, faults>>

(* A statement or a call of the queue throws: 500.                         *)
Fails(r) ==
  /\ request[r].at \in Halfway
  /\ \/ Fault
     \/ request[r].at \in {"list", "schedule"} /\ ~queue /\ UNCHANGED faults
  /\ FailWith(r, {request[r].job})
  /\ UNCHANGED <<repaired, rows, hasRuns, scheduled, queue>>

-----------------------------------------------------------------------------
(* A schedule fires, or a user triggers the job: a run is recorded.        *)
Run(j) ==
  /\ rows[j].here
  /\ hasRuns' = hasRuns \cup {j}
  /\ UNCHANGED <<repaired, rows, scheduled, queue, request, tangled, faults>>

Initialize ==
  /\ ~queue
  /\ queue' = TRUE
  /\ UNCHANGED <<repaired, rows, hasRuns, scheduled, request, tangled, faults>>

Shutdown ==
  /\ queue
  /\ Fault
  /\ queue' = FALSE
  /\ UNCHANGED <<repaired, rows, hasRuns, scheduled, request, tangled>>

(* The process ends, and with it the requests; rows and schedules stay.    *)
Crash ==
  /\ Fault
  /\ queue' = FALSE
  /\ request' = [r \in Requests |->
       IF request[r].at \in Halfway THEN [at |-> "done"] ELSE request[r]]
  /\ tangled' = tangled \cup {j \in Jobs : UnderWay(j) # {}}
  /\ UNCHANGED <<repaired, rows, hasRuns, scheduled>>

Step(r) ==
  \/ \E j \in Jobs : \/ \E row \in Existing : Post(r, j, row) \/ Put(r, j, row)
                     \/ \E own \in BOOLEAN : Delete(r, j, own)
  \/ PutThrows(r)
  \/ List(r)
  \/ Remove(r)
  \/ Removed(r)
  \/ Schedule(r)
  \/ DeleteRow(r)
  \/ Fails(r)

Next ==
  \/ Initialize
  \/ Shutdown
  \/ Crash
  \/ \E j \in Jobs : Run(j)
  \/ \E r \in Requests : Step(r)

Spec == Init /\ [][Next]_vars

-----------------------------------------------------------------------------
TypeOK ==
  /\ repaired \in BOOLEAN
  /\ rows \in [Jobs -> [here : BOOLEAN, enabled : BOOLEAN, cron : Crons \cup {"none"}]]
  /\ hasRuns \subseteq Jobs
  /\ scheduled \subseteq Jobs \X Crons
  /\ queue \in BOOLEAN
  /\ \A r \in Requests :
       \/ request[r] \in [at : {"idle", "done"}]
       \/ request[r] \in [at : Halfway, verb : {"POST", "PUT", "DELETE"}, job : Jobs,
                          row : Existing \cup {[e EXCEPT !.here = FALSE] : e \in Existing},
                          own : BOOLEAN, keys : SUBSET Crons, alone : BOOLEAN]
  /\ tangled \subseteq Jobs
  /\ faults \in Nat

(* The two stores agree at rest: a job that exists and is enabled runs by  *)
(* its own expression and no other, any other job by none, unless its last *)
(* change failed midway, was a DELETE that was refused, or overlapped with *)
(* another.  A later PUT that is alone and succeeds puts it in order, also *)
(* when several schedules had been left.                                   *)
SchedulesFollowRows ==
  \A j \in Jobs :
    UnderWay(j) = {} /\ j \notin tangled => CronsOf(j) = Wanted(j)
=============================================================================
