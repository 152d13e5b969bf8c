----------------------------- MODULE SyncWorker -----------------------------
(***************************************************************************)
(* The sync worker: SyncWorker.processJob of                               *)
(* src/backend/data-sync/sync-worker.ts with the retry strategy, the       *)
(* repository calls it makes and the schema those calls meet.              *)
(*                                                                         *)
(* Several invocations of processJob ("runs") of ONE sync job may be under *)
(* way together: the queue's processor, the manual trigger route and, in   *)
(* another process, a redelivered job all call it, and nothing locks the   *)
(* job.  A run creates its row, reads the cursor, lists the channel page   *)
(* by page (with retries), writes the new cursor and closes its row; every *)
(* one of these is an await where other runs, the channel and the crash of *)
(* the process interleave.                                                 *)
(*                                                                         *)
(* A record's version is <<record, updatedAt>>; stamps are the ticks of    *)
(* the channel's clock, 0 standing for "no cursor" / "no such record yet". *)
(***************************************************************************)
EXTENDS Integers, FiniteSets, FiniteSetsExt

CONSTANTS
  Runs,        \* invocations of processJob for the job
  Records,     \* records of the channel
  MaxRetries,  \* config.maxRetries of the retry strategy
  Repairs,     \* is the UPDATE of sync_jobs as in the source (FALSE), or
               \* with its placeholders counted right (TRUE): a set of both
               \* covers the program as it is and as it is meant
  MaxTime,     \* bound: ticks of the channel's clock
  MaxFaults    \* bound: failed adapter calls, failed statements and crashes

ASSUME SyncAssumption ==
  /\ MaxRetries \in Nat
  /\ MaxTime \in Nat \ {0}
  /\ MaxFaults \in Nat
  /\ Repairs \subseteq BOOLEAN /\ Repairs # {}
  /\ IsFiniteSet(Records)

VARIABLES
  repaired,  \* whether the UPDATE statement of the repository binds
  clock,     \* the channel's clock
  source,    \* source[x]: updatedAt of record x at the channel, 0 if absent
  job,       \* the row of sync_jobs: does it exist, and last_sync_cursor
  row,       \* row[r]: the row of sync_job_runs that run r created
  run,       \* run[r]: the local variables of the invocation
  result,    \* result[r]: what processJob resolved to
  faults     \* faults so far

vars == <<repaired, clock, source, job, row, run, result, faults>>

Stamps == 0..MaxTime
Versions == Records \X (1..MaxTime)

(* The points where an invocation may be, each an await of the code but    *)
(* the ends: "refused" (no run row), "returned", "threw" (the rejected     *)
(* promise) and "crashed".                                                 *)
Ended == {"refused", "returned", "threw", "crashed"}
Points == {"idle", "find", "fetch", "sleep", "settle", "record", "failing"} \cup Ended

NoRow == [status |-> "none", processed |-> 0]
Report(status, n) == [status |-> status, processed |-> n]

Fresh ==
  [at |-> "idle", base |-> 0, fetched |-> {}, attempt |-> 0,
   since |-> 0, until |-> 0, after |-> {}]

(***************************************************************************)
(* The state is the program's but for three fields of run, which record    *)
(* history for the properties: since and until, when the run's last        *)
(* listing began and when it moved the cursor, and after, the runs that    *)
(* had ended when this one read the cursor.                                *)
(***************************************************************************)
Init ==
  /\ repaired \in Repairs
  /\ clock = 1
  /\ source = [x \in Records |-> 0]
  /\ job = [exists |-> TRUE, cursor |-> 0]
  /\ row = [r \in Runs |-> NoRow]
  /\ run = [r \in Runs |-> Fresh]
  /\ result = [r \in Runs |-> NoRow]
  /\ faults = 0

Stamp(version) == version[2]
Newer(versions, cursor) == {v \in versions : Stamp(v) > cursor}

(* Mutant of Latest: the comparison of determineNewCursor turned round.    *)
Earliest(versions) == Min({Stamp(v) : v \in versions})

Latest(versions) == Max({Stamp(v) : v \in versions})

(* Mutant of Kept: nothing is filtered.                                    *)
KeptAll(r) == run[r].fetched

(* filterByCursor: what the run counts.  Without a cursor everything is    *)
(* kept, which the stamp 0 of "no cursor" gives.                           *)
Kept(r) == Newer(run[r].fetched, run[r].base)

Goto(r, point) == run' = [run EXCEPT ![r].at = point]

(* The statements of the repository commit or not, and the caller hears of *)
(* it or not: a commit whose acknowledgement is lost rejects as well.      *)
Outcome(applied, acked) ==
  /\ acked => applied
  /\ faults' = faults + (IF acked THEN 0 ELSE 1)
  /\ faults' <= MaxFaults

-----------------------------------------------------------------------------
(* createRun: INSERT of the 'running' row; job_id references sync_jobs, so *)
(* the insert fails once the job is gone.  A failure of any kind returns   *)
(* a 'failed' result with an empty runId.                                  *)
CreateRun(r) ==
  /\ run[r].at = "idle"
  /\ \E applied, acked \in BOOLEAN :
       /\ applied => job.exists
       /\ IF job.exists THEN Outcome(applied, acked)
                        ELSE ~acked /\ UNCHANGED faults
       /\ row' = IF applied THEN [row EXCEPT ![r] = Report("running", 0)] ELSE row
       /\ IF acked
            THEN /\ Goto(r, "find")
                 /\ UNCHANGED result
            ELSE /\ Goto(r, "refused")
                 /\ result' = [result EXCEPT ![r] = Report("failed", 0)]
  /\ UNCHANGED <<repaired, clock, source, job>>

(* findById, getAdapter, and the first call of fetchAllRecords.            *)
Find(r) ==
  /\ run[r].at = "find"
  /\ job.exists
  /\ run' = [run EXCEPT ![r].at = "fetch", ![r].base = job.cursor,
                        ![r].since = clock,
                        ![r].after = {q \in Runs : run[q].at \in Ended}]
  /\ UNCHANGED <<repaired, clock, source, job, row, result, faults>>

(* The query fails, the job is gone, or no adapter serves its source.      *)
FindFails(r) ==
  /\ run[r].at = "find"
  /\ IF job.exists THEN Outcome(FALSE, FALSE) ELSE UNCHANGED faults
  /\ Goto(r, "failing")
  /\ UNCHANGED <<repaired, clock, source, job, row, result>>

(* One adapter.fetchRecords of the loop in fetchAllRecords.  The channel's *)
(* listing (external) visits every record it holds once, in any order and  *)
(* any split into pages, whatever the cursor it was given: the worker      *)
(* filters.  The loop ends on the page that says hasMore is false.         *)
Unlisted(r) == {x \in Records : source[x] # 0} \ {v[1] : v \in run[r].fetched}

(* Mutant of FetchPage: hasMore is ignored, the first page is all.         *)
FetchFirstPage(r) ==
  /\ run[r].at = "fetch"
  /\ \E page \in SUBSET Unlisted(r) :
       /\ page # Unlisted(r) => page # {}
       /\ run' = [run EXCEPT
            ![r].fetched = @ \cup {<<x, source[x]>> : x \in page},
            ![r].at = "settle"]
  /\ UNCHANGED <<repaired, clock, source, job, row, result, faults>>

FetchPage(r) ==
  /\ run[r].at = "fetch"
  /\ \E page \in SUBSET Unlisted(r) :
       LET hasMore == page # Unlisted(r) IN
       /\ hasMore => page # {}
       /\ run' = [run EXCEPT
            ![r].fetched = @ \cup {<<x, source[x]>> : x \in page},
            ![r].at = IF hasMore THEN "fetch" ELSE "settle"]
  /\ UNCHANGED <<repaired, clock, source, job, row, result, faults>>

(* Mutant of ShouldRetry: off by one.                                      *)
ShouldRetryOnceMore(error, attempt) == attempt <= MaxRetries /\ error # "AUTH_FAILED"

(* shouldRetry: attempt counts the retries made so far.                    *)
ShouldRetry(error, attempt) == attempt < MaxRetries /\ error # "AUTH_FAILED"

(* The adapter throws: executeWithRetry sleeps and lists anew from the     *)
(* same cursor, or rethrows into processJob's catch.  An outage counts as  *)
(* one fault, however many calls it fails.                                 *)
FetchFails(r) ==
  /\ run[r].at = "fetch"
  /\ \E error \in {"NETWORK_TIMEOUT", "AUTH_FAILED"} :
       run' = [run EXCEPT
         ![r].fetched = {},
         ![r].at = IF ShouldRetry(error, run[r].attempt) THEN "sleep" ELSE "failing"]
  /\ faults' = faults + (IF run[r].attempt = 0 THEN 1 ELSE 0)
  /\ faults' <= MaxFaults
  /\ UNCHANGED <<repaired, clock, source, job, row, result>>

(* Mutant of Wake: every retry is the first.                               *)
WakeForgetful(r) ==
  /\ run[r].at = "sleep"
  /\ run' = [run EXCEPT ![r].at = "fetch", ![r].attempt = 1, ![r].since = clock]
  /\ UNCHANGED <<repaired, clock, source, job, row, result, faults>>

(* The delay of the retry is over (how long it is, is left out).           *)
Wake(r) ==
  /\ run[r].at = "sleep"
  /\ run' = [run EXCEPT ![r].at = "fetch", ![r].attempt = @ + 1, ![r].since = clock]
  /\ UNCHANGED <<repaired, clock, source, job, row, result, faults>>

(***************************************************************************)
(* From the last page to the next await the run is alone: it filters,      *)
(* determines the new cursor and, when that differs from the one it read,  *)
(* calls repository.update.  The statement update builds for n assignments *)
(* names $n for the id (which is updated_at's) and $n+1 for the tenant     *)
(* (which is the id's) and is given n+2 parameters, so PostgreSQL rejects  *)
(* it whatever the assignments are: only the repaired one can commit.  It  *)
(* writes over whatever cursor is there.                                   *)
(***************************************************************************)
NothingNew(r) ==
  /\ run[r].at = "settle"
  /\ Kept(r) = {}
  /\ Goto(r, "record")
  /\ UNCHANGED <<repaired, clock, source, job, row, result, faults>>

UpdateCursor(r) ==
  /\ run[r].at = "settle"
  /\ Kept(r) # {}
  /\ repaired
  /\ \E applied, acked \in BOOLEAN :
       /\ Outcome(applied, acked)
       /\ job' = IF applied THEN [job EXCEPT !.cursor = Latest(Kept(r))] ELSE job
       /\ run' = [run EXCEPT ![r].at = IF acked THEN "record" ELSE "failing",
                             ![r].until = IF applied THEN clock ELSE 0]
  /\ UNCHANGED <<repaired, clock, source, row, result>>

UpdateRejected(r) ==
  /\ run[r].at = "settle"
  /\ Kept(r) # {}
  /\ ~repaired
  /\ Goto(r, "failing")
  /\ UNCHANGED <<repaired, clock, source, job, row, result, faults>>

(* updateRun with the counts, and the result.  Conflicts, which make the   *)
(* status 'partial', need records to compare with those that were kept.    *)
(* If the update rejects, the catch handles it like any other failure,     *)
(* though the cursor has been moved.                                       *)
Record(r) ==
  /\ run[r].at = "record"
  /\ \E applied, acked \in BOOLEAN, status \in {"success", "partial"} :
       LET report == Report(status, Cardinality(Kept(r))) IN
       /\ status = "partial" => Kept(r) # {}
       /\ Outcome(applied, acked)
       /\ row' = IF applied THEN [row EXCEPT ![r] = report] ELSE row
       /\ IF acked
            THEN /\ Goto(r, "returned")
                 /\ result' = [result EXCEPT ![r] = report]
            ELSE /\ Goto(r, "failing")
                 /\ UNCHANGED result
  /\ UNCHANGED <<repaired, clock, source, job>>

(* Mutant of Fail: the rejection of the closing update is swallowed.       *)
FailRegardless(r) ==
  /\ run[r].at = "failing"
  /\ \E applied, acked \in BOOLEAN :
       LET report == Report("failed", 0) IN
       /\ Outcome(applied, acked)
       /\ row' = IF applied THEN [row EXCEPT ![r] = report] ELSE row
       /\ Goto(r, "returned")
       /\ result' = [result EXCEPT ![r] = report]
  /\ UNCHANGED <<repaired, clock, source, job>>

(* The catch of processJob: updateRun with 'failed' and zero counts.  When *)
(* that rejects too, so does processJob, and the row stays as it was.      *)
Fail(r) ==
  /\ run[r].at = "failing"
  /\ \E applied, acked \in BOOLEAN :
       LET report == Report("failed", 0) IN
       /\ Outcome(applied, acked)
       /\ row' = IF applied THEN [row EXCEPT ![r] = report] ELSE row
       /\ IF acked
            THEN /\ Goto(r, "returned")
                 /\ result' = [result EXCEPT ![r] = report]
            ELSE /\ Goto(r, "threw")
                 /\ UNCHANGED result
  /\ UNCHANGED <<repaired, clock, source, job>>

-----------------------------------------------------------------------------
(* Mutant of DeleteJob: the schema has no foreign key.                     *)
DeleteAnyJob ==
  /\ job.exists
  /\ job' = [job EXCEPT !.exists = FALSE]
  /\ UNCHANGED <<repaired, clock, source, row, run, result, faults>>

(* DELETE /sync-jobs/:id: the rows of sync_job_runs reference the job, so  *)
(* a job that has any cannot be deleted.                                   *)
DeleteJob ==
  /\ job.exists
  /\ \A r \in Runs : row[r].status = "none"
  /\ job' = [job EXCEPT !.exists = FALSE]
  /\ UNCHANGED <<repaired, clock, source, row, run, result, faults>>

(* The process dies with every run that is under way; nothing resumes them *)
(* and nothing closes their rows.                                          *)
Crash ==
  /\ faults < MaxFaults
  /\ faults' = faults + 1
  /\ \E r \in Runs : run[r].at \notin Ended \cup {"idle"}
  /\ run' = [r \in Runs |-> IF run[r].at \in Ended \cup {"idle"} THEN run[r]
                            ELSE [run[r] EXCEPT !.at = "crashed"]]
  /\ UNCHANGED <<repaired, clock, source, job, row, result>>

(* The channel, external: records appear and change, several of them       *)
(* perhaps with the same stamp, also while they are being listed.          *)
Change(x) ==
  /\ source[x] # clock
  /\ source' = [source EXCEPT ![x] = clock]
  /\ UNCHANGED <<repaired, clock, job, row, run, result, faults>>

Tick ==
  /\ clock < MaxTime
  /\ clock' = clock + 1
  /\ UNCHANGED <<repaired, source, job, row, run, result, faults>>

Step(r) ==
  \/ Find(r)
  \/ FindFails(r)
  \/ FetchPage(r)
  \/ FetchFails(r)
  \/ Wake(r)
  \/ NothingNew(r)
  \/ UpdateCursor(r)
  \/ UpdateRejected(r)
  \/ Record(r)
  \/ Fail(r)

Next ==
  \/ \E r \in Runs : CreateRun(r) \/ Step(r)
  \/ DeleteJob
  \/ Crash
  \/ \E x \in Records : Change(x)
  \/ Tick

Spec == Init /\ [][Next]_vars

(* Every call the worker awaits settles: the event loop resumes the run.   *)
(* That runs start, that the channel changes and that faults happen is not *)
(* assumed.                                                                *)
FairSpec == Spec /\ \A r \in Runs : WF_vars(Step(r))
-----------------------------------------------------------------------------
(* Every variable keeps to its type; attempt never exceeds the retries     *)
(* that retry-strategy.ts:26-33 allows, and the history of a run is one    *)
(* that a run can have.                                                    *)
TypeOK ==
  /\ repaired \in BOOLEAN
  /\ clock \in 1..MaxTime
  /\ source \in [Records -> Stamps]
  /\ job \in [exists : BOOLEAN, cursor : Stamps]
  /\ row \in [Runs -> [status : {"none", "running", "success", "partial", "failed"},
                       processed : 0..Cardinality(Records)]]
  /\ run \in [Runs -> [at : Points, base : Stamps, fetched : SUBSET Versions,
                       attempt : 0..MaxRetries, since : Stamps, until : Stamps,
                       after : SUBSET Runs]]
  /\ result \in [Runs -> [status : {"none", "success", "partial", "failed"},
                          processed : 0..Cardinality(Records)]]
  /\ faults \in 0..MaxFaults

(* What was kept by the runs that moved the cursor, whatever then became   *)
(* of them.                                                                *)
Moved(r) == run[r].until # 0
Processed == UNION {Kept(r) : r \in {q \in Runs : Moved(q)}}

WhileListing(stamp) == \E r \in Runs : stamp \in run[r].since..run[r].until

(***************************************************************************)
(* INCREMENTAL SYNC SKIPS NOTHING THAT STOOD STILL (sync-worker.ts:113-150)*)
(* A version the channel holds, not above the cursor, so that no later run *)
(* will keep it, was kept by a run that moved the cursor; or it was        *)
(* written while such a run was listing, between the start of its last     *)
(* listing and its update of the job.  Whatever order the channel lists    *)
(* in, and however runs overlap, fail, retry and move the cursor back.     *)
(***************************************************************************)
Covered(x, cursor) ==
  source[x] \in 1..cursor =>
    <<x, source[x]>> \in Processed \/ WhileListing(source[x])

SkipsOnlyMovingTargets == \A x \in Records : Covered(x, job.cursor)

Counted(r) == IF row[r].status \in {"success", "partial"} THEN Kept(r) ELSE {}

Overlap(p, q) ==
  /\ run[p].since # 0
  /\ p # q
  /\ p \notin run[q].after
  /\ q \notin run[p].after

(* NO VERSION IS COUNTED TWICE BY RUNS THAT TAKE TURNS (sync-worker.ts:118)*)
(* Two run rows that both count the same version belong to runs of which   *)
(* one overlapped another run: with one run at a time a version is in at   *)
(* most one run's records_processed.                                       *)
CountedOnce ==
  \A q, r \in Runs :
    q # r /\ Counted(q) \cap Counted(r) # {}
      => \E p \in Runs : Overlap(p, q) \/ Overlap(p, r)

(* THE RUN HISTORY SAYS WHAT THE CALLER WAS TOLD (sync-worker.ts:155-207)  *)
(* A run that returned a result left a row with the same status and count; *)
(* the row of a run that threw or crashed is never taken for a closed one  *)
(* that counts records unless its records were really kept.                *)
HistoryAgreesWithResult ==
  \A r \in Runs :
    /\ run[r].at = "returned" => row[r] = result[r]
    /\ row[r].processed > 0 => row[r].processed = Cardinality(Kept(r))
    /\ run[r].at = "refused" => result[r] = Report("failed", 0)

(* A JOB WITH A HISTORY IS NOT DELETED UNDER ITS RUNS (m2-schema.sql:216)  *)
(* While a run works, the job it looked up still exists, so the cursor it  *)
(* writes has a row to go to.                                              *)
RunsHaveTheirJob ==
  \A r \in Runs : run[r].at \notin Ended \cup {"idle"} => job.exists

(* THE TABLES AGREE WITH THE RUNS (sync-worker.ts:155-207, m2-schema.sql)  *)
(* Both of the above: what a run reads and writes in sync_jobs is there,   *)
(* and what sync_job_runs says of it is what it told its caller.           *)
TablesAgree == HistoryAgreesWithResult /\ RunsHaveTheirJob

(* EVERY RUN ENDS (sync-worker.ts:224-235, retry-strategy.ts:123-147)      *)
(* Listings end, retries run out, and a run that was started returns,      *)
(* throws, or dies with its process.                                       *)
EveryRunEnds ==
  \A r \in Runs : run[r].at = "find" ~> run[r].at \in Ended

(* A RUN IS ONE ATOMIC SYNC (sync-worker.ts:113-150)                       *)
(* Whatever the awaits of a run interleave with, what the job's cursor and *)
(* the processed versions go through is what SyncLedger allows: the run    *)
(* counts as one step, the one that moves the cursor, all others change    *)
(* nothing, and that step loses no version that stood still while the run  *)
(* listed and that is newer than the cursor it had read.                   *)
Movements == {r \in Runs : Moved(r)}
CursorsHad == {0} \cup {Latest(Kept(r)) : r \in Movements}
ListingTimes == UNION {run[r].since..run[r].until : r \in Movements}

Ledger == INSTANCE SyncLedger WITH
  cursor <- job.cursor,
  reached <- CursorsHad,
  processed <- Processed,
  moving <- ListingTimes

ImplementsLedger == Ledger!Spec

(* WHAT THE DESIGN PROMISES (m2 design.md:978, Property 17): once a run    *)
(* has executed, the cursor is at the latest stamp it processed.           *)
CursorFollows ==
  \A r \in Runs :
    run[r].at = "returned" /\ Kept(r) # {} => job.cursor >= Latest(Kept(r))
=============================================================================
