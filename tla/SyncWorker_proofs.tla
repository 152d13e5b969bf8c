-------------------------- MODULE SyncWorker_proofs --------------------------
(***************************************************************************)
(* Proofs about SyncWorker, for all sets of runs and of records, any       *)
(* number of retries and faults, and a clock that runs as long as it may.  *)
(***************************************************************************)
EXTENDS SyncWorker, FiniteSetTheorems, TLAPS

-----------------------------------------------------------------------------
(***************************************************************************)
(* A nonempty set of numbers with an upper bound has a maximum, which Max  *)
(* chooses.                                                                *)
(***************************************************************************)
LEMMA MaxIsMaximum ==
  ASSUME NEW bound \in Nat, NEW S \in SUBSET Nat, S # {},
         \A n \in S : n <= bound
  PROVE  Max(S) \in S /\ \A n \in S : n <= Max(S)
  <1> DEFINE T == {bound - n : n \in S}
  <1>1. T \subseteq Nat /\ T # {}
    <2>1. T \subseteq Nat
      OBVIOUS
    <2>2. PICK n : n \in S
      OBVIOUS
    <2>3. bound - n \in T
      BY <2>2
    <2> QED BY <2>1, <2>3
  <1>2. PICK t \in T : \A u \in T : ~ (<<u, t>> \in OpToRel(<, Nat))
    <2> HIDE DEF T
    <2> QED BY <1>1, NatLessThanWellFounded, WFMin
  <1>3. PICK m \in S : t = bound - m
    BY <1>2
  <1>4. \A n \in S : m >= n
    <2> SUFFICES ASSUME NEW n \in S PROVE m >= n
      OBVIOUS
    <2>1. bound - n \in T
      OBVIOUS
    <2>2. ~ (bound - n < t)
      BY <1>1, <1>2, <2>1 DEF OpToRel
    <2> QED BY <1>3, <2>2
  <1> QED BY <1>3, <1>4 DEF Max

-----------------------------------------------------------------------------
(***************************************************************************)
(* The inductive invariant.  Its parts: the types it needs; nothing bears  *)
(* a stamp of the future; what a listing has visited it holds in its       *)
(* present version, unless that was written after the listing began; a     *)
(* run that moved the cursor lists no more; and every cursor that some run *)
(* works from, like the one in the job's row, was reached by a run and has *)
(* below it only what SkipsOnlyMovingTargets allows.                       *)
(***************************************************************************)
RunType ==
  [at : Points, base : Nat, fetched : SUBSET (Records \X Nat), attempt : Nat,
   since : Nat, until : Nat, after : SUBSET Runs]

Types ==
  /\ clock \in Nat \ {0}
  /\ source \in [Records -> Nat]
  /\ job \in [exists : BOOLEAN, cursor : Nat]
  /\ run \in [Runs -> RunType]

Past ==
  /\ \A x \in Records : source[x] <= clock
  /\ job.cursor <= clock
  /\ \A r \in Runs :
       /\ run[r].base <= clock
       /\ run[r].since <= clock
       /\ run[r].until <= clock
       /\ \A v \in run[r].fetched : v[2] <= clock

Current(r, x) == <<x, source[x]>> \in run[r].fetched \/ source[x] >= run[r].since

Listings ==
  \A r \in Runs :
    /\ run[r].at = "sleep" => run[r].fetched = {}
    /\ run[r].at = "find" => run[r].fetched = {}
    /\ run[r].at = "idle" => run[r].fetched = {}
    /\ run[r].at = "fetch" => \A v \in run[r].fetched : Current(r, v[1])
    /\ run[r].at = "settle" => \A x \in Records : source[x] # 0 => Current(r, x)

Movers ==
  \A r \in Runs :
    Moved(r) => /\ run[r].at \in {"record", "failing"} \cup Ended
                /\ run[r].since <= run[r].until

Reached(c) == c > 0 => \E r \in Runs : c <= run[r].until

Sound(c) == Reached(c) /\ \A x \in Records : Covered(x, c)

Cursors == Sound(job.cursor) /\ \A r \in Runs : Sound(run[r].base)

IInv == Types /\ Past /\ Listings /\ Movers /\ Cursors

\* A run stays typed when the fields a step assigns are.
LEMMA RunTyped ==
  ASSUME NEW old \in RunType, NEW point \in Points
  PROVE  /\ \A base, since \in Nat : \A after \in SUBSET Runs :
              [old EXCEPT !.at = point, !.base = base, !.since = since,
                          !.after = after] \in RunType
         /\ \A fetched \in SUBSET (Records \X Nat) :
              [old EXCEPT !.fetched = fetched, !.at = point] \in RunType
         /\ \A until \in Nat : [old EXCEPT !.at = point, !.until = until] \in RunType
  <1>1. ASSUME NEW base \in Nat, NEW since \in Nat, NEW after \in SUBSET Runs
        PROVE  [old EXCEPT !.at = point, !.base = base, !.since = since,
                           !.after = after] \in RunType
    BY <1>1 DEF RunType
  <1>2. ASSUME NEW fetched \in SUBSET (Records \X Nat)
        PROVE  [old EXCEPT !.fetched = fetched, !.at = point] \in RunType
    BY <1>2 DEF RunType
  <1>3. ASSUME NEW until \in Nat
        PROVE  [old EXCEPT !.at = point, !.until = until] \in RunType
    BY <1>3 DEF RunType
  <1> QED BY <1>1, <1>2, <1>3, Zenon

LEMMA InitIInv == Init => IInv
  <1> SUFFICES ASSUME Init PROVE IInv
    OBVIOUS
  <1>1. Types
    BY DEF Init, Types, RunType, Fresh, Points, Ended
  <1>2. Past
    BY DEF Init, Past, Fresh
  <1>3. Listings
    BY DEF Init, Listings, Fresh
  <1>4. Movers
    BY DEF Init, Movers, Moved, Fresh
  <1>5. Cursors
    BY DEF Init, Cursors, Sound, Reached, Covered, Fresh
  <1> QED BY <1>1, <1>2, <1>3, <1>4, <1>5 DEF IInv

(***************************************************************************)
(* Whatever a step does to runs that have not moved the cursor, what was   *)
(* covered stays covered while the channel stands still.                   *)
(***************************************************************************)
Same(r) ==
  /\ run'[r].base = run[r].base
  /\ run'[r].fetched = run[r].fetched
  /\ run'[r].since = run[r].since
  /\ run'[r].until = run[r].until

LEMMA SoundKept ==
  ASSUME IInv, source' = source, \A r \in Runs : Moved(r) => Same(r),
         NEW c \in Nat, Sound(c)
  PROVE  Sound(c)'
  <1>1. ASSUME NEW r \in Runs, Moved(r)
        PROVE  Moved(r)' /\ Kept(r)' = Kept(r)
    BY <1>1 DEF Same, Moved, Kept, Newer
  <1>2. Reached(c)'
    BY DEF Sound, Reached, Same, Moved, IInv, Types, RunType
  <1>3. ASSUME NEW x \in Records PROVE Covered(x, c)'
    <2> SUFFICES ASSUME source[x] \in 1..c
                 PROVE  <<x, source[x]>> \in Processed' \/ WhileListing(source[x])'
      BY DEF Covered
    <2>1. CASE <<x, source[x]>> \in Processed
      BY <1>1, <2>1 DEF Processed
    <2>2. CASE WhileListing(source[x])
      <3>1. PICK r \in Runs : source[x] \in run[r].since..run[r].until
        BY <2>2 DEF WhileListing
      <3>2. Moved(r)
        BY <3>1 DEF Moved, IInv, Types, RunType
      <3> QED BY <3>1, <3>2 DEF Same, WhileListing
    <2> QED BY <2>1, <2>2 DEF Sound, Covered
  <1> QED BY <1>2, <1>3 DEF Sound

LEMMA CursorsKept ==
  ASSUME IInv, source' = source, job'.cursor = job.cursor,
         \A r \in Runs : Moved(r) => Same(r),
         \A r \in Runs : run'[r].base \in {run[r].base, job.cursor}
  PROVE  Cursors'
  <1>1. Sound(job.cursor)'
    BY SoundKept DEF IInv, Cursors, Types, RunType, Sound, Reached, Covered
  <1>2. ASSUME NEW r \in Runs PROVE Sound(run[r].base)'
    <2>1. PICK c \in Nat : c = run'[r].base /\ Sound(c)
      BY DEF IInv, Cursors, Types, RunType
    <2>2. Sound(c)'
      BY <2>1, SoundKept
    <2> QED BY <2>1, <2>2 DEF Sound, Reached, Covered
  <1> QED BY <1>1, <1>2 DEF Cursors

-----------------------------------------------------------------------------
(***************************************************************************)
(* The steps.                                                              *)
(***************************************************************************)

\* A step of r to another point that touches nothing else of the invariant,
\* unless it is a point with obligations of its own.
LEMMA GotoStep ==
  ASSUME IInv, NEW r \in Runs, NEW point \in {"record", "failing"} \cup Ended,
         Goto(r, point), UNCHANGED <<clock, source, job>>
  PROVE  IInv'
  <1>1. Types'
    BY DEF Goto, IInv, Types, RunType, Points, Ended
  <1>2. \A q \in Runs : Same(q)
    BY DEF Goto, Same, IInv, Types, RunType
  <1>3. Past'
    BY <1>1, <1>2 DEF IInv, Past, Same
  <1>4. \A q \in Runs : q # r => run'[q] = run[q]
    BY DEF Goto, IInv, Types, RunType
  <1>5. run'[r].at = point
    BY DEF Goto, IInv, Types, RunType
  <1>6. Listings'
    BY <1>4, <1>5 DEF IInv, Listings, Current, Ended
  <1>7. Movers'
    BY <1>2, <1>4, <1>5 DEF IInv, Movers, Moved, Same
  <1>8. Cursors'
    BY <1>2, CursorsKept DEF Same
  <1> QED BY <1>1, <1>3, <1>6, <1>7, <1>8 DEF IInv

LEMMA CreateRunStep ==
  ASSUME IInv, NEW r \in Runs, CreateRun(r)
  PROVE  IInv'
  <1>1. CASE Goto(r, "refused")
    BY <1>1, GotoStep DEF CreateRun, Ended
  <1>2. CASE Goto(r, "find")
    <2>1. Types'
      BY <1>2 DEF CreateRun, Goto, IInv, Types, RunType, Points
    <2>2. \A q \in Runs : Same(q)
      BY <1>2 DEF Goto, Same, IInv, Types, RunType
    <2>3. Past'
      BY <2>1, <2>2 DEF CreateRun, IInv, Past, Same
    <2>4. \A q \in Runs : q # r => run'[q] = run[q]
      BY <1>2 DEF Goto, IInv, Types, RunType
    <2>5. run[r].at = "idle" /\ run'[r].at = "find"
      BY <1>2 DEF CreateRun, Goto, IInv, Types, RunType
    <2>6. Listings'
      BY <2>2, <2>4, <2>5 DEF CreateRun, IInv, Listings, Current, Same
    <2>7. Movers'
      BY <2>2, <2>4, <2>5 DEF IInv, Movers, Moved, Same, Ended
    <2>8. Cursors'
      BY <2>2, CursorsKept DEF CreateRun, Same
    <2> QED BY <2>1, <2>3, <2>6, <2>7, <2>8 DEF IInv
  <1> QED BY <1>1, <1>2 DEF CreateRun

LEMMA FindStep ==
  ASSUME IInv, NEW r \in Runs, Find(r)
  PROVE  IInv'
  <1>1. Types'
    <2>1. PICK ended \in SUBSET Runs :
            run' = [run EXCEPT ![r].at = "fetch", ![r].base = job.cursor,
                               ![r].since = clock, ![r].after = ended]
      BY DEF Find
    <2>2. UNCHANGED <<clock, source, job>>
      BY DEF Find
    <2>3. [run[r] EXCEPT !.at = "fetch", !.base = job.cursor, !.since = clock,
                         !.after = ended] \in RunType
      <3>1. run[r] \in RunType /\ "fetch" \in Points
        BY DEF IInv, Types, Points
      <3>2. job.cursor \in Nat /\ clock \in Nat /\ ended \in SUBSET Runs
        BY DEF IInv, Types
      <3> QED BY <3>1, <3>2, RunTyped, Zenon
    <2>4. run' \in [Runs -> RunType]
      BY <2>1, <2>3 DEF IInv, Types
    <2> QED BY <2>2, <2>4 DEF IInv, Types
  <1>2. ~Moved(r)
    BY DEF Find, IInv, Movers, Ended
  <1>3. \A q \in Runs : q # r => run'[q] = run[q]
    BY DEF Find, IInv, Types, RunType
  <1>4. /\ run'[r].at = "fetch" /\ run'[r].base = job.cursor
        /\ run'[r].since = clock /\ run'[r].until = run[r].until
        /\ run'[r].fetched = run[r].fetched /\ run[r].fetched = {}
    BY DEF Find, IInv, Types, RunType, Listings
  <1>5. Past'
    <2>1. UNCHANGED <<clock, source, job>>
      BY DEF Find
    <2>2. job.cursor <= clock /\ clock <= clock
      BY DEF IInv, Past, Types
    <2>3. \A q \in Runs : /\ run'[q].base <= clock /\ run'[q].since <= clock
                         /\ run'[q].until <= clock
                         /\ run'[q].fetched = run[q].fetched
      <3>1. \A q \in Runs : /\ run[q].base <= clock /\ run[q].since <= clock
                           /\ run[q].until <= clock
        BY DEF IInv, Past
      <3> QED BY <1>3, <1>4, <2>2, <3>1, Zenon
    <2>4. \A q \in Runs : \A v \in run'[q].fetched : v[2] <= clock
      BY <2>3 DEF IInv, Past
    <2>5. \A x \in Records : source'[x] <= clock
      BY <2>1 DEF IInv, Past
    <2>6. clock' = clock /\ job'.cursor <= clock
      BY <2>1, <2>2
    <2> QED BY <2>3, <2>4, <2>5, <2>6 DEF Past
  <1>6. Listings'
    <2>1. source' = source
      BY DEF Find
    <2>2. run'[r].at = "fetch" /\ run'[r].fetched = {}
      BY <1>4
    <2>3. \A q \in Runs : q # r => run'[q] = run[q]
      BY <1>3
    <2> QED BY <2>1, <2>2, <2>3 DEF IInv, Listings, Current
  <1>7. Movers'
    BY <1>2, <1>3, <1>4 DEF IInv, Movers, Moved
  <1>8. Cursors'
    BY <1>2, <1>3, <1>4, CursorsKept DEF Find, Same
  <1> QED BY <1>1, <1>5, <1>6, <1>7, <1>8 DEF IInv

LEMMA FetchPageStep ==
  ASSUME IInv, NEW r \in Runs, FetchPage(r)
  PROVE  IInv'
  <1>1. PICK page \in SUBSET Unlisted(r) :
          run' = [run EXCEPT
            ![r].fetched = @ \cup {<<x, source[x]>> : x \in page},
            ![r].at = IF page # Unlisted(r) THEN "fetch" ELSE "settle"]
    BY DEF FetchPage
  <1>2. page \subseteq Records
    BY DEF Unlisted
  <1> DEFINE listed == {<<x, source[x]>> : x \in page}
  <1>3. Types'
    <2>1. listed \in SUBSET (Records \X Nat)
      BY <1>2 DEF IInv, Types, RunType
    <2>2. PICK new \in SUBSET (Records \X Nat), point \in {"fetch", "settle"} :
            run' = [run EXCEPT ![r].fetched = @ \cup new, ![r].at = point]
      BY <1>1, <2>1
    <2>3. UNCHANGED <<clock, source, job>>
      BY DEF FetchPage
    <2>4. [run[r] EXCEPT !.fetched = @ \cup new, !.at = point] \in RunType
      <3>1. run[r] \in RunType /\ run[r].fetched \cup new \in SUBSET (Records \X Nat)
        BY DEF IInv, Types, RunType
      <3>2. point \in Points
        BY DEF Points
      <3> QED BY <3>1, <3>2, RunTyped, Zenon
    <2>5. run' \in [Runs -> RunType]
      BY <2>2, <2>4 DEF IInv, Types
    <2> QED BY <2>3, <2>5 DEF IInv, Types
  <1>4. ~Moved(r) /\ run[r].at = "fetch"
    BY DEF FetchPage, IInv, Movers, Ended
  <1>5. \A q \in Runs : q # r => run'[q] = run[q]
    BY <1>1 DEF IInv, Types, RunType
  <1>6. /\ run'[r].at = IF page # Unlisted(r) THEN "fetch" ELSE "settle"
        /\ run'[r].base = run[r].base
        /\ run'[r].since = run[r].since /\ run'[r].until = run[r].until
        /\ run'[r].fetched = run[r].fetched \cup {<<x, source[x]>> : x \in page}
    BY <1>1 DEF IInv, Types, RunType
  <1>7. Past'
    <2>1. UNCHANGED <<clock, source, job>>
      BY DEF FetchPage
    <2>2. \A v \in listed : v[2] <= clock
      BY <1>2 DEF IInv, Past
    <2>3. run'[r].fetched = run[r].fetched \cup listed
      BY <1>6
    <2> HIDE DEF listed
    <2> QED BY <1>5, <1>6, <2>1, <2>2, <2>3 DEF IInv, Past, Types, RunType
  <1>8. Listings'
    <2>1. ASSUME NEW v \in run'[r].fetched PROVE Current(r, v[1])'
      <3>1. CASE v \in run[r].fetched
        BY <3>1, <1>4, <1>6 DEF FetchPage, IInv, Listings, Current
      <3>2. CASE v \in listed
        <4>1. PICK x \in page : v = <<x, source[x]>>
          BY <3>2
        <4>2. v[1] = x /\ v \in run'[r].fetched
          BY <4>1, <1>6
        <4> QED BY <4>1, <4>2 DEF Current, FetchPage
      <3>3. v \in run[r].fetched \cup listed
        BY <2>1, <1>6
      <3> QED BY <3>1, <3>2, <3>3
    <2>2. ASSUME page = Unlisted(r), NEW x \in Records, source[x] # 0
          PROVE  Current(r, x)'
      <3>1. CASE x \in page
        BY <3>1, <1>6 DEF FetchPage, Current
      <3>2. CASE x \notin page
        <4>1. PICK v \in run[r].fetched : x = v[1]
          BY <2>2, <3>2 DEF Unlisted
        <4> QED BY <4>1, <1>6, <2>1
      <3> QED BY <3>1, <3>2
    <2>3. run'[r].at = "fetch" => \A v \in run'[r].fetched : Current(r, v[1])'
      BY <2>1
    <2>4. run'[r].at = "settle" => \A x \in Records : source'[x] # 0 => Current(r, x)'
      BY <1>6, <2>2 DEF FetchPage
    <2>5. run'[r].at \in {"fetch", "settle"}
      BY <1>6
    <2>6. ASSUME NEW q \in Runs, q # r
          PROVE  /\ run'[q].at \in {"sleep", "find", "idle"} => run'[q].fetched = {}
                 /\ run'[q].at = "fetch" => \A v \in run'[q].fetched : Current(q, v[1])'
                 /\ run'[q].at = "settle"
                      => \A x \in Records : source'[x] # 0 => Current(q, x)'
      <3>1. run'[q] = run[q] /\ source' = source
        BY <1>5, <2>6 DEF FetchPage
      <3> QED BY <3>1 DEF IInv, Listings, Current
    <2> QED BY <2>3, <2>4, <2>5, <2>6 DEF Listings
  <1>9. Movers'
    BY <1>4, <1>5, <1>6 DEF IInv, Movers, Moved
  <1>10. Cursors'
    BY <1>4, <1>5, <1>6, CursorsKept DEF FetchPage, Same
  <1> QED BY <1>3, <1>7, <1>8, <1>9, <1>10 DEF IInv

LEMMA FetchFailsStep ==
  ASSUME IInv, NEW r \in Runs, FetchFails(r)
  PROVE  IInv'
  <1>1. PICK point \in {"sleep", "failing"} :
          run' = [run EXCEPT ![r].fetched = {}, ![r].at = point]
    BY DEF FetchFails
  <1>2. Types'
    BY <1>1 DEF FetchFails, IInv, Types, RunType, Points
  <1>3. ~Moved(r)
    BY DEF FetchFails, IInv, Movers, Ended
  <1>4. \A q \in Runs : q # r => run'[q] = run[q]
    BY <1>1 DEF IInv, Types, RunType
  <1>5. /\ run'[r].at = point /\ run'[r].base = run[r].base
        /\ run'[r].since = run[r].since /\ run'[r].until = run[r].until
        /\ run'[r].fetched = {}
    BY <1>1 DEF IInv, Types, RunType
  <1>6. Past'
    BY <1>2, <1>4, <1>5 DEF FetchFails, IInv, Past
  <1>7. Listings'
    BY <1>4, <1>5 DEF FetchFails, IInv, Listings, Current
  <1>8. Movers'
    BY <1>3, <1>4, <1>5 DEF IInv, Movers, Moved
  <1>9. Cursors'
    BY <1>3, <1>4, <1>5, CursorsKept DEF FetchFails, Same
  <1> QED BY <1>2, <1>6, <1>7, <1>8, <1>9 DEF IInv

LEMMA WakeStep ==
  ASSUME IInv, NEW r \in Runs, Wake(r)
  PROVE  IInv'
  <1>1. Types'
    BY DEF Wake, IInv, Types, RunType, Points
  <1>2. ~Moved(r) /\ run[r].fetched = {}
    BY DEF Wake, IInv, Movers, Listings, Ended
  <1>3. \A q \in Runs : q # r => run'[q] = run[q]
    BY DEF Wake, IInv, Types, RunType
  <1>4. /\ run'[r].at = "fetch" /\ run'[r].base = run[r].base
        /\ run'[r].since = clock /\ run'[r].until = run[r].until
        /\ run'[r].fetched = run[r].fetched
    BY DEF Wake, IInv, Types, RunType
  <1>5. Past'
    BY <1>1, <1>3, <1>4 DEF Wake, IInv, Past, Types, RunType
  <1>6. Listings'
    BY <1>2, <1>3, <1>4 DEF Wake, IInv, Listings, Current
  <1>7. Movers'
    BY <1>2, <1>3, <1>4 DEF IInv, Movers, Moved
  <1>8. Cursors'
    BY <1>2, <1>3, <1>4, CursorsKept DEF Wake, Same
  <1> QED BY <1>1, <1>5, <1>6, <1>7, <1>8 DEF IInv

\* The step that moves the cursor: what the run leaves behind it, it kept, or
\* it was below the cursor the run started from, or was written meanwhile.
LEMMA UpdateCursorStep ==
  ASSUME IInv, NEW r \in Runs, UpdateCursor(r)
  PROVE  IInv'
  <1>1. PICK applied \in BOOLEAN, acked \in BOOLEAN :
          /\ job' = IF applied THEN [job EXCEPT !.cursor = Latest(Kept(r))] ELSE job
          /\ run' = [run EXCEPT ![r].at = IF acked THEN "record" ELSE "failing",
                                ![r].until = IF applied THEN clock ELSE 0]
    BY DEF UpdateCursor
  <1>2. run[r].at = "settle" /\ ~Moved(r)
    BY DEF UpdateCursor, IInv, Movers, Ended
  <1>3. \A q \in Runs : q # r => run'[q] = run[q]
    BY <1>1 DEF IInv, Types, RunType
  <1>4. /\ run'[r].at \in {"record", "failing"} /\ run'[r].base = run[r].base
        /\ run'[r].since = run[r].since
        /\ run'[r].until = IF applied THEN clock ELSE 0
        /\ run'[r].fetched = run[r].fetched
    BY <1>1 DEF IInv, Types, RunType
  <1>5. PICK v \in Kept(r) : Latest(Kept(r)) = v[2]
    <2> DEFINE S == {Stamp(v) : v \in Kept(r)}
    <2>1. S \subseteq Nat /\ \A n \in S : n <= clock
      BY DEF IInv, Types, RunType, Past, Kept, Newer, Stamp
    <2>2. S # {}
      BY DEF UpdateCursor
    <2>3. Max(S) \in S
      <3> HIDE DEF S
      <3> QED BY <2>1, <2>2, MaxIsMaximum DEF IInv, Types, RunType
    <2> QED BY <2>3 DEF Latest, Stamp
  <1>6. v \in run[r].fetched /\ v[2] \in Nat /\ v[2] <= clock
    BY <1>5 DEF Kept, Newer, IInv, Types, RunType, Past
  <1>7. Types'
    <2>1. PICK point \in {"record", "failing"}, moved \in {clock, 0} :
            run' = [run EXCEPT ![r].at = point, ![r].until = moved]
      BY <1>1
    <2>2. job' \in [exists : BOOLEAN, cursor : Nat]
      BY <1>1, <1>5, <1>6 DEF IInv, Types, RunType
    <2>3. UNCHANGED <<clock, source>>
      BY DEF UpdateCursor
    <2>4. [run[r] EXCEPT !.at = point, !.until = moved] \in RunType
      <3>1. run[r] \in RunType /\ moved \in Nat /\ point \in Points
        BY DEF IInv, Types, Points
      <3> QED BY <3>1, RunTyped, Zenon
    <2>5. run' \in [Runs -> RunType]
      BY <2>1, <2>4 DEF IInv, Types
    <2> QED BY <2>2, <2>3, <2>5 DEF IInv, Types
  <1>8. job'.cursor = IF applied THEN v[2] ELSE job.cursor
    BY <1>1, <1>5 DEF IInv, Types, RunType
  <1>9. Past'
    <2>1. UNCHANGED <<clock, source>>
      BY DEF UpdateCursor
    <2>2. job'.cursor <= clock
      BY <1>6, <1>8 DEF IInv, Past
    <2>3. \A q \in Runs : /\ run'[q].base <= clock /\ run'[q].since <= clock
                         /\ run'[q].until <= clock
                         /\ run'[q].fetched = run[q].fetched
      BY <1>3, <1>4 DEF IInv, Past, Types
    <2> QED BY <2>1, <2>2, <2>3 DEF IInv, Past
  <1>10. Listings'
    BY <1>3, <1>4 DEF UpdateCursor, IInv, Listings, Current
  <1>11. Movers'
    BY <1>2, <1>3, <1>4 DEF IInv, Movers, Moved, Past
  <1>12. Cursors'
    <2>1. \A q \in Runs : Moved(q) => Same(q)
      BY <1>2, <1>3 DEF Same
    <2>2. ASSUME NEW c \in Nat, Sound(c) PROVE Sound(c)'
      BY <2>1, <2>2, SoundKept DEF UpdateCursor
    <2>3. \A q \in Runs : Sound(run[q].base)'
      <3> TAKE q \in Runs
      <3>1. PICK c \in Nat : c = run[q].base /\ Sound(c) /\ c = run'[q].base
        BY <1>3, <1>4 DEF IInv, Cursors, Types, RunType
      <3> QED BY <3>1, <2>2 DEF Sound, Reached, Covered
    <2>4. CASE ~applied
      <3>1. PICK c \in Nat : c = job.cursor /\ Sound(c) /\ c = job'.cursor
        BY <1>8, <2>4 DEF IInv, Cursors, Types, RunType
      <3>2. Sound(job.cursor)'
        BY <3>1, <2>2 DEF Sound, Reached, Covered
      <3> QED BY <3>2, <2>3 DEF Cursors
    <2>5. CASE applied
      <3>1. run'[r].until = clock /\ job'.cursor = v[2] /\ Moved(r)'
        BY <1>4, <1>8, <2>5 DEF Moved, IInv, Types, RunType
      <3>2. Reached(job.cursor)'
        BY <3>1, <1>6 DEF Reached
      <3>3. ASSUME NEW x \in Records, source[x] \in 1..v[2]
            PROVE  <<x, source[x]>> \in Processed' \/ WhileListing(source[x])'
        <4>1. source[x] \in Nat /\ source[x] # 0 /\ source[x] <= clock
          BY <3>3, <1>6 DEF IInv, Types, RunType
        <4>2. CASE source[x] >= run[r].since
          <5>1. source[x] \in run'[r].since..run'[r].until
            BY <4>1, <4>2, <3>1, <1>4 DEF IInv, Types, RunType
          <5> QED BY <5>1 DEF WhileListing, UpdateCursor
        <4>3. CASE <<x, source[x]>> \in run[r].fetched /\ source[x] > run[r].base
          <5>1. <<x, source[x]>> \in Kept(r)'
            BY <4>3, <1>4 DEF Kept, Newer, Stamp
          <5> QED BY <5>1, <3>1 DEF Processed
        <4>4. CASE ~ (source[x] > run[r].base)
          <5>1. source[x] \in 1..run[r].base /\ run[r].base \in Nat
            BY <4>1, <4>4 DEF IInv, Types, RunType
          <5>2. PICK c \in Nat : c = run[r].base /\ Sound(c)
            BY <5>1 DEF IInv, Cursors
          <5>3. Covered(x, c)'
            BY <5>2, <2>2 DEF Sound
          <5> QED BY <5>1, <5>2, <5>3 DEF Covered, UpdateCursor
        <4>5. Current(r, x)
          BY <4>1, <1>2 DEF IInv, Listings
        <4> QED BY <4>2, <4>3, <4>4, <4>5 DEF Current
      <3>4. \A x \in Records : Covered(x, job.cursor)'
        BY <3>1, <3>3 DEF Covered, UpdateCursor
      <3> QED BY <3>2, <3>4, <2>3 DEF Cursors, Sound
    <2> QED BY <2>4, <2>5
  <1> QED BY <1>7, <1>9, <1>10, <1>11, <1>12 DEF IInv

LEMMA CrashStep ==
  ASSUME IInv, Crash
  PROVE  IInv'
  <1>1. Types'
    BY DEF Crash, IInv, Types, RunType, Points, Ended
  <1>2. \A r \in Runs : Same(r)
    BY DEF Crash, Same, IInv, Types, RunType
  <1>3. \A r \in Runs : run'[r].at = run[r].at \/ run'[r].at = "crashed"
    BY DEF Crash, IInv, Types, RunType
  <1>4. Past'
    BY <1>1, <1>2 DEF Crash, IInv, Past, Same
  <1>5. Listings'
    BY <1>2, <1>3 DEF Crash, IInv, Listings, Current, Same
  <1>6. Movers'
    BY <1>2, <1>3 DEF IInv, Movers, Moved, Same, Ended
  <1>7. Cursors'
    BY <1>2, CursorsKept DEF Crash, Same
  <1> QED BY <1>1, <1>4, <1>5, <1>6, <1>7 DEF IInv

\* A new version bears the present stamp; a cursor that has reached the
\* present was set by a run that is listing as of now.
LEMMA ChangeStep ==
  ASSUME IInv, NEW x \in Records, Change(x)
  PROVE  IInv'
  <1>1. Types' /\ source'[x] = clock
        /\ \A y \in Records : y # x => source'[y] = source[y]
    BY DEF Change, IInv, Types, RunType
  <1>2. Past'
    BY <1>1 DEF Change, IInv, Past, Types, RunType
  <1>3. \A r \in Runs, y \in Records : Current(r, y) => Current(r, y)'
    BY <1>1 DEF Change, Current, IInv, Past, Types, RunType
  <1>4. Listings'
    BY <1>1, <1>3 DEF Change, IInv, Listings, Current, Past, Types, RunType
  <1>5. Movers'
    BY DEF Change, IInv, Movers, Moved
  <1>6. ASSUME NEW c \in Nat, Sound(c), c <= clock PROVE Sound(c)'
    <2>1. Reached(c)'
      BY <1>6 DEF Change, Sound, Reached
    <2>2. Processed' = Processed /\ \A n \in Nat : WhileListing(n) => WhileListing(n)'
      BY DEF Change, Processed, Moved, Kept, Newer, WhileListing
    <2>3. ASSUME NEW y \in Records, y # x PROVE Covered(y, c)'
      BY <1>1, <1>6, <2>2, <2>3 DEF Sound, Covered, IInv, Types, RunType
    <2>4. ASSUME clock \in 1..c PROVE WhileListing(clock)'
      <3>1. PICK r \in Runs : c <= run[r].until
        BY <1>6, <2>4 DEF Sound, Reached
      <3>2. run[r].until = clock /\ run[r].since <= run[r].until
        BY <3>1, <1>6, <2>4 DEF IInv, Past, Types, RunType, Movers, Moved
      <3>3. WhileListing(clock)
        BY <3>2 DEF WhileListing, IInv, Types, RunType
      <3> QED BY <3>3 DEF WhileListing, Change
    <2>5. Covered(x, c)'
      BY <1>1, <2>4 DEF Covered, Change, WhileListing
    <2> QED BY <2>1, <2>3, <2>5 DEF Sound
  <1>7. Cursors'
    <2>1. Sound(job.cursor)'
      <3>1. PICK c \in Nat : c = job.cursor /\ Sound(c) /\ c <= clock
        BY DEF IInv, Cursors, Types, RunType, Past
      <3> QED BY <3>1, <1>6 DEF Change, Sound, Reached, Covered
    <2>2. ASSUME NEW r \in Runs PROVE Sound(run[r].base)'
      <3>1. PICK c \in Nat : c = run[r].base /\ Sound(c) /\ c <= clock
        BY DEF IInv, Cursors, Types, RunType, Past
      <3> QED BY <3>1, <1>6 DEF Change, Sound, Reached, Covered
    <2> QED BY <2>1, <2>2 DEF Cursors
  <1> QED BY <1>1, <1>2, <1>4, <1>5, <1>7 DEF IInv

LEMMA TickStep ==
  ASSUME IInv, Tick
  PROVE  IInv'
  <1>1. Types'
    BY DEF Tick, IInv, Types, RunType
  <1>2. Past'
    BY DEF Tick, IInv, Past, Types, RunType
  <1>3. Listings' /\ Movers'
    BY DEF Tick, IInv, Listings, Current, Movers, Moved
  <1>4. Cursors'
    BY CursorsKept DEF Tick, Same
  <1> QED BY <1>1, <1>2, <1>3, <1>4 DEF IInv

LEMMA DeleteJobStep ==
  ASSUME IInv, DeleteJob
  PROVE  IInv'
  <1>1. Types' /\ job'.cursor = job.cursor
    BY DEF DeleteJob, IInv, Types, RunType
  <1>2. Past'
    BY <1>1 DEF DeleteJob, IInv, Past
  <1>3. Listings' /\ Movers'
    BY DEF DeleteJob, IInv, Listings, Current, Movers, Moved
  <1>4. Cursors'
    BY <1>1, CursorsKept DEF DeleteJob, Same
  <1> QED BY <1>1, <1>2, <1>3, <1>4 DEF IInv

LEMMA NextIInv == IInv /\ [Next]_vars => IInv'
  <1> SUFFICES ASSUME IInv, [Next]_vars PROVE IInv'
    OBVIOUS
  <1>1. ASSUME NEW r \in Runs, CreateRun(r) PROVE IInv'
    BY <1>1, CreateRunStep
  <1>2. ASSUME NEW r \in Runs, Find(r) PROVE IInv'
    BY <1>2, FindStep
  <1>3. ASSUME NEW r \in Runs, FindFails(r) PROVE IInv'
    BY <1>3, GotoStep DEF FindFails
  <1>4. ASSUME NEW r \in Runs, FetchPage(r) PROVE IInv'
    BY <1>4, FetchPageStep
  <1>5. ASSUME NEW r \in Runs, FetchFails(r) PROVE IInv'
    BY <1>5, FetchFailsStep
  <1>6. ASSUME NEW r \in Runs, Wake(r) PROVE IInv'
    BY <1>6, WakeStep
  <1>7. ASSUME NEW r \in Runs, NothingNew(r) PROVE IInv'
    BY <1>7, GotoStep DEF NothingNew
  <1>8. ASSUME NEW r \in Runs, UpdateCursor(r) PROVE IInv'
    BY <1>8, UpdateCursorStep
  <1>9. ASSUME NEW r \in Runs, UpdateRejected(r) PROVE IInv'
    BY <1>9, GotoStep DEF UpdateRejected
  <1>10. ASSUME NEW r \in Runs, Record(r) PROVE IInv'
    <2>1. Goto(r, "returned") \/ Goto(r, "failing")
      BY <1>10 DEF Record
    <2> QED BY <1>10, <2>1, GotoStep DEF Record, Ended
  <1>11. ASSUME NEW r \in Runs, Fail(r) PROVE IInv'
    <2>1. Goto(r, "returned") \/ Goto(r, "threw")
      BY <1>11 DEF Fail
    <2> QED BY <1>11, <2>1, GotoStep DEF Fail, Ended
  <1>12. CASE DeleteJob
    BY <1>12, DeleteJobStep
  <1>13. CASE Crash
    BY <1>13, CrashStep
  <1>14. ASSUME NEW x \in Records, Change(x) PROVE IInv'
    BY <1>14, ChangeStep
  <1>15. CASE Tick
    BY <1>15, TickStep
  <1>16. CASE UNCHANGED vars
    BY <1>16 DEF vars, IInv, Types, RunType, Past, Listings, Current, Movers, Moved,
       Cursors, Sound, Reached, Covered, Processed, Kept, Newer, Stamp,
       WhileListing
  <1> QED BY <1>1, <1>2, <1>3, <1>4, <1>5, <1>6, <1>7, <1>8, <1>9, <1>10,
             <1>11, <1>12, <1>13, <1>14, <1>15, <1>16 DEF Next, Step

(***************************************************************************)
(* Incremental sync skips nothing that stood still.                        *)
(***************************************************************************)
THEOREM SkipsNothingSettled == Spec => []SkipsOnlyMovingTargets
  <1>1. IInv => SkipsOnlyMovingTargets
    BY DEF IInv, Cursors, Sound, SkipsOnlyMovingTargets
  <1> QED BY InitIInv, NextIInv, <1>1, PTL DEF Spec

-----------------------------------------------------------------------------
(***************************************************************************)
(* No run loses its job: a run that got past createRun has a row, and the  *)
(* row keeps the job from being deleted.                                   *)
(***************************************************************************)
Rows ==
  /\ row = [r \in Runs |-> row[r]]
  /\ \A r \in Runs : run[r].at \notin {"idle", "refused"} => row[r].status # "none"
  /\ \A r \in Runs : row[r].status # "none" => job.exists

LEMMA InitRows == Init => Rows
  BY DEF Init, Rows, Fresh, NoRow

\* The steps between two points of the same run leave rows and job alone.
LEMMA InnerRows ==
  ASSUME IInv, Rows, NEW r \in Runs, row' = row, job'.exists = job.exists,
         run[r].at \notin {"idle", "refused"},
         \A q \in Runs : q # r => run'[q].at = run[q].at
  PROVE  Rows'
  BY DEF Rows

\* The steps that close a run's row.
LEMMA ClosingRows ==
  ASSUME IInv, Rows, NEW r \in Runs, job' = job, NEW point, Goto(r, point),
         run[r].at \notin {"idle", "refused"},
         NEW status, status # "none", NEW n,
         row' \in {row, [row EXCEPT ![r] = Report(status, n)]}
  PROVE  Rows'
  <1>1. \A q \in Runs : q # r => run'[q] = run[q]
    BY DEF Goto, IInv, Types
  <1>2. \A q \in Runs : row'[q].status # "none" => row[q].status # "none" \/ q = r
    BY DEF Rows
  <1>3. row'[r].status # "none"
    BY DEF Rows, Report
  <1>4. row' = [q \in Runs |-> row'[q]]
    BY DEF Rows
  <1>5. \A q \in Runs : row[q].status # "none" => row'[q].status # "none"
    BY <1>3 DEF Rows
  <1> QED BY <1>1, <1>2, <1>3, <1>4, <1>5 DEF Rows

LEMMA NextRows == IInv /\ Rows /\ [Next]_vars => Rows'
  <1> SUFFICES ASSUME IInv, Rows, [Next]_vars PROVE Rows'
    OBVIOUS
  <1>1. ASSUME NEW r \in Runs, CreateRun(r) PROVE Rows'
    <2>1. PICK applied \in BOOLEAN, acked \in BOOLEAN :
            /\ applied => job.exists
            /\ acked => applied
            /\ row' = IF applied THEN [row EXCEPT ![r] = Report("running", 0)]
                      ELSE row
            /\ IF acked THEN Goto(r, "find") ELSE Goto(r, "refused")
      BY <1>1 DEF CreateRun, Outcome
    <2>2. job' = job /\ \A q \in Runs : q # r => run'[q] = run[q]
      BY <1>1, <2>1 DEF CreateRun, Goto, IInv, Types
    <2>3. run'[r].at = IF acked THEN "find" ELSE "refused"
      BY <2>1 DEF Goto, IInv, Types, RunType
    <2>4. CASE applied
      <3>1. row' = [row EXCEPT ![r] = Report("running", 0)]
        BY <2>1, <2>4
      <3>2. row'[r].status = "running" /\ \A q \in Runs : q # r => row'[q] = row[q]
        BY <3>1 DEF Rows, Report
      <3>3. row' = [q \in Runs |-> row'[q]]
        BY <3>1 DEF Rows
      <3> QED BY <2>1, <2>2, <2>4, <3>2, <3>3 DEF Rows
    <2>5. CASE ~applied
      BY <2>1, <2>2, <2>3, <2>5 DEF Rows
    <2> QED BY <2>4, <2>5
  <1>2. ASSUME NEW r \in Runs, Step(r), ~ Record(r), ~ Fail(r) PROVE Rows'
    <2>1. run[r].at \notin {"idle", "refused"}
      BY <1>2 DEF Step, Find, FindFails, FetchPage, FetchFails, Wake, NothingNew,
         UpdateCursor, UpdateRejected
    <2>2. row' = row
      BY <1>2 DEF Step, Find, FindFails, FetchPage, FetchFails, Wake, NothingNew,
         UpdateCursor, UpdateRejected
    <2>3. job'.exists = job.exists
      BY <1>2 DEF Step, Find, FindFails, FetchPage, FetchFails, Wake, NothingNew,
         UpdateCursor, UpdateRejected, IInv, Types
    <2>4. \A q \in Runs : q # r => run'[q].at = run[q].at
      BY <1>2 DEF Step, Find, FindFails, FetchPage, FetchFails, Wake, NothingNew,
         UpdateCursor, UpdateRejected, Goto, IInv, Types
    <2> QED BY <2>1, <2>2, <2>3, <2>4, InnerRows
  <1>3. ASSUME NEW r \in Runs, Record(r) PROVE Rows'
    <2>1. PICK applied \in BOOLEAN, status \in {"success", "partial"} :
            row' = IF applied
                   THEN [row EXCEPT ![r] = Report(status, Cardinality(Kept(r)))]
                   ELSE row
      BY <1>3 DEF Record
    <2>2. PICK point : Goto(r, point)
      BY <1>3 DEF Record
    <2>3. run[r].at \notin {"idle", "refused"} /\ job' = job
      BY <1>3 DEF Record
    <2>4. status # "none"
      OBVIOUS
    <2> QED BY <2>1, <2>2, <2>3, <2>4, ClosingRows
  <1>4. ASSUME NEW r \in Runs, Fail(r) PROVE Rows'
    <2>1. row' \in {row, [row EXCEPT ![r] = Report("failed", 0)]}
      BY <1>4 DEF Fail
    <2>2. PICK point : Goto(r, point)
      BY <1>4 DEF Fail
    <2>3. run[r].at \notin {"idle", "refused"} /\ job' = job
      BY <1>4 DEF Fail
    <2>4. "failed" # "none"
      OBVIOUS
    <2> QED BY <2>1, <2>2, <2>3, <2>4, ClosingRows
  <1>5. CASE DeleteJob
    BY <1>5 DEF DeleteJob, Rows
  <1>6. CASE Crash
    <2>1. \A r \in Runs : run[r].at \in {"idle", "refused"} => run'[r] = run[r]
      BY <1>6 DEF Crash, Ended, IInv, Types
    <2> QED BY <1>6, <2>1 DEF Crash, Rows
  <1>7. ASSUME NEW x \in Records, Change(x) PROVE Rows'
    BY <1>7 DEF Change, Rows
  <1>8. CASE Tick
    BY <1>8 DEF Tick, Rows
  <1>9. CASE UNCHANGED vars
    BY <1>9 DEF vars, Rows
  <1> QED BY <1>1, <1>2, <1>3, <1>4, <1>5, <1>6, <1>7, <1>8, <1>9 DEF Next

\* A working run's job exists: the cursor it writes has a row to go to.
THEOREM JobsOutliveRuns == Spec => []RunsHaveTheirJob
  <1>1. Rows => RunsHaveTheirJob
    BY DEF Rows, RunsHaveTheirJob, Ended
  <1> QED BY InitIInv, NextIInv, InitRows, NextRows, <1>1, PTL DEF Spec

-----------------------------------------------------------------------------
(***************************************************************************)
(* What a step leaves alone: the other runs, their rows and results, and   *)
(* the locals of its own run that it does not name.                        *)
(***************************************************************************)
Still(r) == run'[r] = run[r] /\ row'[r] = row[r] /\ result'[r] = result[r]

Shaped ==
  /\ row \in [Runs -> [status : {"none", "running", "success", "partial", "failed"},
                       processed : 0..Cardinality(Records)]]
  /\ result \in [Runs -> [status : {"none", "success", "partial", "failed"},
                          processed : 0..Cardinality(Records)]]

\* A listing visits a record once, so it holds no record twice.
Distinct(r) ==
  \A v \in run[r].fetched : v[2] # 0 /\ \A w \in run[r].fetched : v[1] = w[1] => v = w

Bounds ==
  /\ repaired \in BOOLEAN
  /\ clock <= MaxTime
  /\ faults \in 0..MaxFaults
  /\ Shaped
  /\ \A r \in Runs :
       /\ Distinct(r)
       /\ run[r].attempt <= MaxRetries
       /\ run[r].at = "sleep" => run[r].attempt < MaxRetries

LEMMA OthersStill ==
  ASSUME IInv, Bounds, NEW r \in Runs, CreateRun(r) \/ Step(r)
  PROVE  \A q \in Runs : q # r => Still(q)
  <1> SUFFICES ASSUME NEW q \in Runs, q # r PROVE Still(q)
    OBVIOUS
  <1> USE DEF IInv, Types, Bounds, Shaped, Still, Goto
  <1>1. CASE CreateRun(r)
    BY <1>1 DEF CreateRun
  <1>2. CASE Find(r) \/ FindFails(r) \/ FetchPage(r)
    BY <1>2 DEF Find, FindFails, FetchPage
  <1>3. CASE FetchFails(r) \/ Wake(r) \/ NothingNew(r)
    BY <1>3 DEF FetchFails, Wake, NothingNew
  <1>4. CASE UpdateCursor(r) \/ UpdateRejected(r)
    BY <1>4 DEF UpdateCursor, UpdateRejected
  <1>5. CASE Record(r)
    BY <1>5 DEF Record
  <1>6. CASE Fail(r)
    BY <1>6 DEF Fail
  <1> QED BY <1>1, <1>2, <1>3, <1>4, <1>5, <1>6 DEF Step

\* A run counts no more records than there are.
LEMMA KeptIsSmall ==
  ASSUME IInv, Bounds, NEW r \in Runs
  PROVE  Cardinality(Kept(r)) \in 0..Cardinality(Records)
  <1> DEFINE f == [v \in Kept(r) |-> v[1]]
  <1>1. Kept(r) \subseteq run[r].fetched /\ run[r].fetched \subseteq Records \X Nat
    BY DEF Kept, Newer, IInv, Types, RunType
  <1>2. f \in Injection(Kept(r), Records)
    BY <1>1 DEF Injection, IsInjective, Bounds, Distinct
  <1>3. IsFiniteSet(Kept(r)) /\ Cardinality(Kept(r)) <= Cardinality(Records)
    BY <1>2, FS_Injection, SyncAssumption
  <1> QED BY <1>3, FS_CardinalityType, SyncAssumption

-----------------------------------------------------------------------------
(***************************************************************************)
(* Bounds.                                                                 *)
(***************************************************************************)
LEMMA InitBounds == Init => Bounds
  <1> SUFFICES ASSUME Init PROVE Bounds
    OBVIOUS
  <1>1. 0 \in 0..Cardinality(Records)
    BY FS_CardinalityType, SyncAssumption
  <1>2. Shaped
    BY <1>1 DEF Init, Shaped, NoRow
  <1>3. repaired \in BOOLEAN /\ clock <= MaxTime /\ faults \in 0..MaxFaults
    BY SyncAssumption DEF Init
  <1>4. \A r \in Runs : run[r].fetched = {} /\ run[r].attempt = 0 /\ run[r].at = "idle"
    BY DEF Init, Fresh
  <1> QED BY <1>2, <1>3, <1>4, SyncAssumption DEF Bounds, Distinct

\* Faults are counted as long as there may be any.
LEMMA FaultsBounded ==
  ASSUME Bounds, NEW applied, NEW acked, Outcome(applied, acked)
  PROVE  faults' \in 0..MaxFaults
  BY SyncAssumption DEF Bounds, Outcome

\* A step that writes a row or a result writes a report of a count that fits.
LEMMA ShapedStep ==
  ASSUME Bounds, NEW r \in Runs, NEW n \in 0..Cardinality(Records),
         NEW status \in {"success", "partial", "failed"},
         row' \in {row, [row EXCEPT ![r] = Report(status, n)],
                   [row EXCEPT ![r] = Report("running", 0)]},
         result' \in {result, [result EXCEPT ![r] = Report(status, n)]}
  PROVE  Shaped'
  <1>1. 0 \in 0..Cardinality(Records)
    BY FS_CardinalityType, SyncAssumption
  <1>2. row' \in [Runs -> [status : {"none", "running", "success", "partial", "failed"},
                           processed : 0..Cardinality(Records)]]
    BY <1>1 DEF Bounds, Shaped, Report
  <1>3. result' \in [Runs -> [status : {"none", "success", "partial", "failed"},
                              processed : 0..Cardinality(Records)]]
    BY DEF Bounds, Shaped, Report
  <1> QED BY <1>2, <1>3 DEF Shaped

\* The steps that neither list nor wake leave a listing as it is.
LEMMA BoundsKept ==
  ASSUME Bounds, NEW r \in Runs, Shaped', repaired' = repaired, clock' = clock,
         faults' \in 0..MaxFaults, \A q \in Runs : q # r => run'[q] = run[q],
         run'[r].fetched \in {run[r].fetched, {}}, run'[r].attempt = run[r].attempt,
         run'[r].at = "sleep" => run[r].attempt < MaxRetries
  PROVE  Bounds'
  <1>1. Distinct(r)'
    BY DEF Bounds, Distinct
  <1>2. \A q \in Runs : q # r => Distinct(q)'
    BY DEF Bounds, Distinct
  <1> QED BY <1>1, <1>2 DEF Bounds

LEMMA BoundsStep ==
  ASSUME IInv, Bounds, [Next]_vars
  PROVE  Bounds'
  <1>1. ASSUME NEW r \in Runs, CreateRun(r) PROVE Bounds'
    <2>1. Shaped' /\ faults' \in 0..MaxFaults
      <3>1. 0 \in 0..Cardinality(Records)
        BY FS_CardinalityType, SyncAssumption
      <3>2. /\ row' \in {row, [row EXCEPT ![r] = Report("running", 0)]}
            /\ result' \in {result, [result EXCEPT ![r] = Report("failed", 0)]}
        BY <1>1 DEF CreateRun
      <3>3. faults' \in 0..MaxFaults
        BY <1>1, FaultsBounded DEF CreateRun, Bounds
      <3> QED BY <3>1, <3>2, <3>3, ShapedStep
    <2>2. PICK point \in {"find", "refused"} : Goto(r, point)
      BY <1>1 DEF CreateRun
    <2>3. /\ run'[r].fetched = run[r].fetched /\ run'[r].attempt = run[r].attempt
          /\ run'[r].at = point
      BY <2>2 DEF Goto, IInv, Types, RunType
    <2>4. \A q \in Runs : q # r => run'[q] = run[q]
      BY <1>1, OthersStill DEF Still
    <2>5. UNCHANGED <<repaired, clock>>
      BY <1>1 DEF CreateRun
    <2> QED BY <2>1, <2>3, <2>4, <2>5, BoundsKept
  <1>2. ASSUME NEW r \in Runs, Step(r), ~FetchPage(r), ~Wake(r) PROVE Bounds'
    <2>1. \A q \in Runs : q # r => run'[q] = run[q]
      BY <1>2, OthersStill DEF Still
    <2>2. UNCHANGED <<repaired, clock>>
      BY <1>2 DEF Step, Find, FindFails, FetchFails, NothingNew, UpdateCursor,
                  UpdateRejected, Record, Fail
    <2>3. CASE Find(r) \/ FetchFails(r) \/ NothingNew(r) \/ UpdateRejected(r) \/ FindFails(r)
      <3>1. Shaped'
        BY <2>3 DEF Find, FetchFails, NothingNew, UpdateRejected, FindFails, Bounds, Shaped
      <3>2. faults' \in 0..MaxFaults
        <4>1. CASE Find(r) \/ NothingNew(r) \/ UpdateRejected(r)
          BY <4>1 DEF Find, NothingNew, UpdateRejected, Bounds
        <4>2. CASE FetchFails(r)
          BY <4>2, SyncAssumption DEF FetchFails, Bounds
        <4>3. CASE FindFails(r)
          BY <4>3, FaultsBounded DEF FindFails, Bounds
        <4> QED BY <2>3, <4>1, <4>2, <4>3
      <3>3. /\ run'[r].fetched \in {run[r].fetched, {}} /\ run'[r].attempt = run[r].attempt
            /\ run'[r].at = "sleep" => run[r].attempt < MaxRetries
        <4>1. CASE Find(r)
          BY <4>1 DEF Find, IInv, Types, RunType
        <4>2. CASE FetchFails(r)
          <5>1. PICK point \in {"sleep", "failing"} :
                  /\ run' = [run EXCEPT ![r].fetched = {}, ![r].at = point]
                  /\ point = "sleep" => run[r].attempt < MaxRetries
            BY <4>2 DEF FetchFails, ShouldRetry
          <5> QED BY <5>1 DEF IInv, Types, RunType
        <4>3. CASE NothingNew(r) \/ UpdateRejected(r) \/ FindFails(r)
          <5>1. Goto(r, "record") \/ Goto(r, "failing")
            BY <4>3 DEF NothingNew, UpdateRejected, FindFails
          <5> QED BY <5>1 DEF Goto, IInv, Types, RunType
        <4> QED BY <2>3, <4>1, <4>2, <4>3
      <3> QED BY <2>1, <2>2, <3>1, <3>2, <3>3, BoundsKept
    <2>4. CASE UpdateCursor(r)
      <3>1. Shaped'
        BY <2>4 DEF UpdateCursor, Bounds, Shaped
      <3>2. faults' \in 0..MaxFaults
        BY <2>4, FaultsBounded DEF UpdateCursor
      <3>3. /\ run'[r].fetched = run[r].fetched /\ run'[r].attempt = run[r].attempt
            /\ run'[r].at # "sleep"
        BY <2>4 DEF UpdateCursor, IInv, Types, RunType
      <3> QED BY <2>1, <2>2, <3>1, <3>2, <3>3, BoundsKept
    <2>5. CASE Record(r) \/ Fail(r)
      <3>1. faults' \in 0..MaxFaults
        BY <2>5, FaultsBounded DEF Record, Fail
      <3>2. PICK n \in 0..Cardinality(Records), status \in {"success", "partial", "failed"} :
              /\ row' \in {row, [row EXCEPT ![r] = Report(status, n)]}
              /\ result' \in {result, [result EXCEPT ![r] = Report(status, n)]}
        <4>1. CASE Record(r)
          BY <4>1, KeptIsSmall DEF Record
        <4>2. CASE Fail(r)
          <5>1. 0 \in 0..Cardinality(Records)
            BY FS_CardinalityType, SyncAssumption
          <5>2. /\ row' \in {row, [row EXCEPT ![r] = Report("failed", 0)]}
                /\ result' \in {result, [result EXCEPT ![r] = Report("failed", 0)]}
            BY <4>2 DEF Fail
          <5> QED BY <5>1, <5>2
        <4> QED BY <2>5, <4>1, <4>2
      <3>3. Shaped'
        BY <3>2, ShapedStep
      <3>4. PICK point \in {"returned", "failing", "threw"} : Goto(r, point)
        BY <2>5 DEF Record, Fail
      <3>5. /\ run'[r].fetched = run[r].fetched /\ run'[r].attempt = run[r].attempt
            /\ run'[r].at = point
        BY <3>4 DEF Goto, IInv, Types, RunType
      <3> QED BY <2>1, <2>2, <3>1, <3>3, <3>5, BoundsKept
    <2> QED BY <1>2, <2>3, <2>4, <2>5 DEF Step
  <1>3. ASSUME NEW r \in Runs, FetchPage(r) PROVE Bounds'
    <2>1. PICK page \in SUBSET Unlisted(r) :
            run' = [run EXCEPT
              ![r].fetched = @ \cup {<<x, source[x]>> : x \in page},
              ![r].at = IF page # Unlisted(r) THEN "fetch" ELSE "settle"]
      BY <1>3 DEF FetchPage
    <2>2. /\ run'[r].fetched = run[r].fetched \cup {<<x, source[x]>> : x \in page}
          /\ run'[r].attempt = run[r].attempt /\ run'[r].at # "sleep"
      BY <2>1 DEF IInv, Types, RunType
    <2>3. \A x \in page : source[x] # 0 /\ \A v \in run[r].fetched : v[1] # x
      BY DEF Unlisted
    <2>4. Distinct(r)'
      <3> SUFFICES ASSUME NEW v \in run'[r].fetched
                   PROVE  v[2] # 0 /\ \A w \in run'[r].fetched : v[1] = w[1] => v = w
        BY DEF Distinct
      <3>1. \A w \in run'[r].fetched :
              w \in run[r].fetched \/ \E x \in page : w = <<x, source[x]>>
        BY <2>2
      <3>2. CASE v \in run[r].fetched
        BY <2>3, <3>1, <3>2 DEF Bounds, Distinct
      <3>3. CASE v \notin run[r].fetched
        <4>1. PICK x \in page : v = <<x, source[x]>>
          BY <3>1, <3>3
        <4> QED BY <2>3, <3>1, <4>1
      <3> QED BY <3>2, <3>3
    <2>5. \A q \in Runs : q # r => run'[q] = run[q]
      BY <1>3, OthersStill DEF Still, Step
    <2>6. \A q \in Runs : q # r => Distinct(q)'
      BY <2>5 DEF Bounds, Distinct
    <2>7. UNCHANGED <<repaired, clock, row, result, faults>>
      BY <1>3 DEF FetchPage
    <2> QED BY <2>2, <2>4, <2>5, <2>6, <2>7 DEF Bounds, Shaped
  <1>4. ASSUME NEW r \in Runs, Wake(r) PROVE Bounds'
    <2>1. /\ run'[r].fetched = run[r].fetched /\ run'[r].attempt = run[r].attempt + 1
          /\ run'[r].at # "sleep" /\ run[r].attempt \in Nat /\ run[r].at = "sleep"
      BY <1>4 DEF Wake, IInv, Types, RunType
    <2>2. \A q \in Runs : q # r => run'[q] = run[q]
      BY <1>4, OthersStill DEF Still, Step
    <2>3. \A q \in Runs : Distinct(q)'
      BY <2>1, <2>2 DEF Bounds, Distinct
    <2>4. run'[r].attempt <= MaxRetries
      BY <2>1, SyncAssumption DEF Bounds
    <2>5. UNCHANGED <<repaired, clock, row, result, faults>>
      BY <1>4 DEF Wake
    <2> QED BY <2>1, <2>2, <2>3, <2>4, <2>5 DEF Bounds, Shaped
  <1>5. CASE Crash
    <2>1. \A r \in Runs : /\ run'[r].fetched = run[r].fetched
                          /\ run'[r].attempt = run[r].attempt
                          /\ run'[r].at \in {run[r].at, "crashed"}
      BY <1>5 DEF Crash, IInv, Types, RunType
    <2>2. faults' \in 0..MaxFaults
      BY <1>5, SyncAssumption DEF Crash, Bounds
    <2> QED BY <1>5, <2>1, <2>2 DEF Crash, Bounds, Shaped, Distinct
  <1>6. CASE DeleteJob \/ (\E x \in Records : Change(x)) \/ Tick
    BY <1>6, SyncAssumption DEF DeleteJob, Change, Tick, Bounds, Shaped, Distinct, IInv, Types
  <1>7. CASE UNCHANGED vars
    BY <1>7 DEF vars, Bounds, Shaped, Distinct
  <1> QED BY <1>1, <1>2, <1>3, <1>4, <1>5, <1>6, <1>7 DEF Next, Step

(***************************************************************************)
(* Type correctness: attempts stay within the retries that are allowed,    *)
(* counts within the records there are.                                    *)
(***************************************************************************)
THEOREM TypeCorrect == Spec => []TypeOK
  <1>1. IInv /\ Bounds => TypeOK
    <2> SUFFICES ASSUME IInv, Bounds PROVE TypeOK
      OBVIOUS
    <2>1. \A n \in Nat : n <= clock => n \in Stamps
      BY SyncAssumption DEF IInv, Types, Bounds, Stamps
    <2>2. source \in [Records -> Stamps] /\ job \in [exists : BOOLEAN, cursor : Stamps]
      BY <2>1 DEF IInv, Types, Past
    <2>3. ASSUME NEW r \in Runs
          PROVE  run[r] \in [at : Points, base : Stamps, fetched : SUBSET Versions,
                             attempt : 0..MaxRetries, since : Stamps, until : Stamps,
                             after : SUBSET Runs]
      <3>1. /\ run[r] \in RunType
            /\ run[r].base \in Stamps /\ run[r].since \in Stamps /\ run[r].until \in Stamps
        BY <2>1 DEF IInv, Types, RunType, Past
      <3>2. run[r].attempt \in 0..MaxRetries
        BY <3>1, SyncAssumption DEF RunType, Bounds
      <3>3. run[r].fetched \in SUBSET Versions
        <4> SUFFICES ASSUME NEW v \in run[r].fetched PROVE v \in Versions
          OBVIOUS
        <4>1. v \in Records \X Nat /\ v[2] <= clock /\ v[2] # 0
          BY <3>1 DEF RunType, IInv, Past, Bounds, Distinct
        <4> QED BY <4>1, <2>1 DEF Versions, Stamps
      <3> QED BY <3>1, <3>2, <3>3 DEF RunType
    <2>4. clock \in 1..MaxTime
      BY SyncAssumption DEF IInv, Types, Bounds
    <2> QED BY <2>2, <2>3, <2>4 DEF IInv, Types, Bounds, Shaped, TypeOK
  <1> QED BY InitIInv, NextIInv, InitBounds, BoundsStep, <1>1, PTL DEF Spec
-----------------------------------------------------------------------------
(***************************************************************************)
(* What runs that take turns see of one another.  A run that has moved the *)
(* cursor and overlaps with none has left it where it put it or further,   *)
(* and so have the runs that began after it ended; a row that counts       *)
(* records is the row of a run that has moved the cursor, if it kept any.  *)
(***************************************************************************)
Listed(r) == run[r].since # 0
TakesTurns(r) == \A p \in Runs : ~Overlap(p, r)

Behind(r, cursor) == \A v \in Kept(r) : v[2] <= cursor

Turns ==
  \A r \in Runs :
    /\ run[r].at \in {"idle", "find"} => ~Listed(r)
    /\ Moved(r) \/ run[r].at \in {"fetch", "sleep", "settle", "record"} => Listed(r)
    /\ \A p \in run[r].after : run[p].at \in Ended

Order ==
  \A r \in Runs : Moved(r) /\ TakesTurns(r) =>
    /\ Behind(r, job.cursor)
    /\ \A p \in Runs : r \in run[p].after => Behind(r, run[p].base)

Counts(r) == row[r].status \in {"success", "partial"}

History ==
  \A r \in Runs :
    /\ run[r].at = "returned" => row[r] = result[r]
    /\ run[r].at = "refused" => result[r] = Report("failed", 0)
    /\ run[r].at = "record" \/ Counts(r) => Kept(r) = {} \/ Moved(r)
    /\ Counts(r) => run[r].at \in {"failing", "returned", "threw", "crashed"}
    /\ row[r].processed > 0 => Counts(r) /\ row[r].processed = Cardinality(Kept(r))
LEMMA InitTurns == Init => Turns /\ Order /\ History
  <1>1. Init => \A r \in Runs : run[r] = Fresh /\ row[r] = NoRow
    BY DEF Init
  <1> QED BY <1>1 DEF Turns, Order, History, Listed, Moved, Counts, Fresh, NoRow

\* The step a run takes between its look-up of the job and its end.
LEMMA RunMoves ==
  ASSUME IInv, NEW r \in Runs, CreateRun(r) \/ Step(r), ~Find(r)
  PROVE  /\ run'[r].base = run[r].base /\ run'[r].after = run[r].after
         /\ run[r].at # "fetch" => run'[r].fetched = run[r].fetched
         /\ run[r].at # "settle" => run'[r].until = run[r].until
         /\ run[r].at # "sleep" => run'[r].since = run[r].since
         /\ run[r].at \notin Ended
         /\ run[r].at = "idle" => run'[r].at \in {"find", "refused"}
         /\ run[r].at = "find" => run'[r].at = "failing"
         /\ run[r].at = "fetch" => run'[r].at \in {"fetch", "settle", "sleep", "failing"}
         /\ run[r].at = "sleep" => run'[r].at = "fetch" /\ run'[r].since = clock
         /\ run[r].at = "settle" => run'[r].at \in {"record", "failing"}
         /\ run[r].at = "record" => run'[r].at \in {"returned", "failing"}
         /\ run[r].at = "failing" => run'[r].at \in {"returned", "threw"}
  <1> USE DEF Ended
  <1>1. ASSUME NEW point, Goto(r, point)
        PROVE  /\ run'[r].base = run[r].base /\ run'[r].after = run[r].after
               /\ run'[r].fetched = run[r].fetched
               /\ run'[r].until = run[r].until /\ run'[r].since = run[r].since
               /\ run'[r].at = point
    BY <1>1 DEF Goto, IInv, Types, RunType
  <1>2. CASE CreateRun(r)
    <2>1. PICK point \in {"find", "refused"} : Goto(r, point) /\ run[r].at = "idle"
      BY <1>2 DEF CreateRun
    <2> QED BY <1>1, <2>1
  <1>3. CASE FindFails(r)
    BY <1>1, <1>3 DEF FindFails
  <1>4. CASE FetchPage(r)
    <2>1. PICK page \in SUBSET Unlisted(r) :
            run' = [run EXCEPT
              ![r].fetched = @ \cup {<<x, source[x]>> : x \in page},
              ![r].at = IF page # Unlisted(r) THEN "fetch" ELSE "settle"]
      BY <1>4 DEF FetchPage
    <2> QED BY <1>4, <2>1 DEF FetchPage, IInv, Types, RunType
  <1>5. CASE FetchFails(r)
    <2>1. PICK point \in {"sleep", "failing"} :
            run' = [run EXCEPT ![r].fetched = {}, ![r].at = point]
      BY <1>5 DEF FetchFails
    <2> QED BY <1>5, <2>1 DEF FetchFails, IInv, Types, RunType
  <1>6. CASE Wake(r)
    BY <1>6 DEF Wake, IInv, Types, RunType
  <1>7. CASE NothingNew(r) \/ UpdateRejected(r)
    <2>1. PICK point \in {"record", "failing"} : Goto(r, point) /\ run[r].at = "settle"
      BY <1>7 DEF NothingNew, UpdateRejected
    <2> QED BY <1>1, <2>1
  <1>8. CASE UpdateCursor(r)
    <2>1. PICK moved : \E point \in {"record", "failing"} :
            run' = [run EXCEPT ![r].at = point, ![r].until = moved]
      BY <1>8 DEF UpdateCursor
    <2>2. PICK point \in {"record", "failing"} :
            run' = [run EXCEPT ![r].at = point, ![r].until = moved]
      BY <2>1
    <2> QED BY <1>8, <2>2 DEF UpdateCursor, IInv, Types, RunType
  <1>9. CASE Record(r)
    <2>1. PICK point \in {"returned", "failing"} : Goto(r, point) /\ run[r].at = "record"
      BY <1>9 DEF Record
    <2> QED BY <1>1, <2>1
  <1>10. CASE Fail(r)
    <2>1. PICK point \in {"returned", "threw"} : Goto(r, point) /\ run[r].at = "failing"
      BY <1>10 DEF Fail
    <2> QED BY <1>1, <2>1
  <1> QED BY <1>2, <1>3, <1>4, <1>5, <1>6, <1>7, <1>8, <1>9, <1>10 DEF Step

\* What a run keeps does not change once it has moved the cursor, nor does
\* it move the cursor but by an update.
LEMMA MoversStay ==
  ASSUME IInv, Bounds, NEW r \in Runs, CreateRun(r) \/ Step(r), ~Find(r),
         NEW q \in Runs, q # r \/ run[r].at # "settle"
  PROVE  /\ Moved(q)' <=> Moved(q)
         /\ Moved(q) => Kept(q)' = Kept(q)
  <1>1. CASE q # r
    BY <1>1, OthersStill DEF Still, Moved, Kept, Newer
  <1>2. CASE q = r
    <2>1. run'[r].until = run[r].until /\ run'[r].base = run[r].base
      BY <1>2, RunMoves
    <2>2. Moved(r) => run[r].at # "fetch"
      BY DEF IInv, Movers, Ended
    <2>3. Moved(r) => run'[r].fetched = run[r].fetched
      BY <2>2, RunMoves
    <2> QED BY <1>2, <2>1, <2>3 DEF Moved, Kept, Newer
  <1> QED BY <1>1, <1>2

LEMMA TurnsStep ==
  ASSUME IInv, Bounds, Turns, [Next]_vars
  PROVE  Turns'
  <1> USE DEF Turns, Listed, Moved
  <1>0. \A r \in Runs : run[r].after \subseteq Runs
    BY DEF IInv, Types, RunType
  <1>1. ASSUME NEW r \in Runs, CreateRun(r) \/ Step(r) PROVE Turns'
    <2>1. \A q \in Runs : q # r => run'[q] = run[q]
      BY <1>1, OthersStill DEF Still
    <2>2. clock # 0
      BY DEF IInv, Types
    <2>3. CASE Find(r)
      <3>1. /\ run'[r].at = "fetch" /\ run'[r].since = clock
            /\ run'[r].after = {q \in Runs : run[q].at \in Ended}
            /\ run[r].at = "find"
        BY <2>3 DEF Find, IInv, Types, RunType
      <3>2. \A q \in Runs : run[q].at \in Ended => run'[q].at \in Ended
        BY <2>1, <3>1 DEF Ended
      <3> QED BY <1>0, <2>1, <2>2, <3>1, <3>2
    <2>4. CASE ~Find(r)
      <3>1. \A q \in Runs : run[q].at \in Ended => run'[q].at \in Ended
        BY <1>1, <2>1, <2>4, RunMoves
      <3>2. Listed(r)' <=> Listed(r)
        BY <1>1, <2>2, <2>4, RunMoves
      <3>3. run'[r].after = run[r].after
        BY <1>1, <2>4, RunMoves
      <3>4. run'[r].at \in {"idle", "find"} => ~Listed(r)
        BY <1>1, <2>4, RunMoves DEF IInv, Types, RunType, Points
      <3>5. Moved(r)' \/ run'[r].at \in {"fetch", "sleep", "settle", "record"} => Listed(r)
        <4>1. Moved(r)' => Moved(r) \/ run[r].at = "settle"
          BY <1>1, <2>4, RunMoves
        <4>2. run'[r].at \in {"fetch", "sleep", "settle", "record"}
                => run[r].at \in {"fetch", "sleep", "settle", "record"}
          BY <1>1, <2>4, RunMoves DEF IInv, Types, RunType, Points
        <4> QED BY <4>1, <4>2
      <3> QED BY <1>0, <2>1, <3>1, <3>2, <3>3, <3>4, <3>5
    <2> QED BY <2>3, <2>4
  <1>2. CASE Crash
    <2>1. \A r \in Runs : /\ run'[r].since = run[r].since /\ run'[r].until = run[r].until
                          /\ run'[r].after = run[r].after
                          /\ run'[r].at \in {run[r].at, "crashed"}
      BY <1>2 DEF Crash, IInv, Types, RunType
    <2> QED BY <1>0, <2>1 DEF Ended
  <1>3. CASE DeleteJob \/ (\E x \in Records : Change(x)) \/ Tick \/ UNCHANGED vars
    BY <1>3 DEF DeleteJob, Change, Tick, vars
  <1> QED BY <1>1, <1>2, <1>3 DEF Next
\* A step that moves no cursor and no base, and lets nobody begin.
LEMMA OrderKept ==
  ASSUME Order, job'.cursor = job.cursor,
         \A r \in Runs : /\ run'[r].base = run[r].base
                         /\ run'[r].after = run[r].after
                         /\ Listed(r)' <=> Listed(r)
                         /\ Moved(r)' <=> Moved(r)
                         /\ Moved(r) => Kept(r)' = Kept(r)
  PROVE  Order'
  <1> SUFFICES ASSUME NEW r \in Runs, Moved(r)', TakesTurns(r)'
               PROVE  /\ Behind(r, job.cursor)'
                      /\ \A p \in Runs : r \in run'[p].after => Behind(r, run[p].base)'
    BY DEF Order
  <1>1. TakesTurns(r)
    BY DEF TakesTurns, Overlap, Listed
  <1>2. Behind(r, job.cursor) /\ \A p \in Runs : r \in run[p].after => Behind(r, run[p].base)
    BY <1>1 DEF Order
  <1> QED BY <1>2 DEF Behind

\* The run that begins reads the cursor the runs before it have left.
LEMMA FindOrder ==
  ASSUME IInv, Bounds, Turns, Order, NEW r \in Runs, Find(r)
  PROVE  Order'
  <1>1. /\ job' = job /\ run[r].at = "find" /\ run'[r].base = job.cursor
        /\ run'[r].until = run[r].until /\ run'[r].fetched = run[r].fetched
    BY DEF Find, IInv, Types, RunType
  <1>2. \A q \in Runs : q # r => run'[q] = run[q]
    BY OthersStill DEF Still, Step
  <1>3. ~Listed(r) /\ ~Moved(r)
    BY <1>1 DEF Turns
  <1> SUFFICES ASSUME NEW q \in Runs, Moved(q)', TakesTurns(q)'
               PROVE  /\ Behind(q, job.cursor)'
                      /\ \A p \in Runs : q \in run'[p].after => Behind(q, run[p].base)'
    BY DEF Order
  <1>4. q # r /\ Moved(q) /\ Kept(q)' = Kept(q)
    BY <1>1, <1>2, <1>3 DEF Moved, Kept, Newer
  <1>5. TakesTurns(q)
    <2> SUFFICES ASSUME NEW p \in Runs PROVE ~Overlap(p, q)
      BY DEF TakesTurns
    <2>1. CASE p = r
      BY <2>1, <1>3 DEF Overlap, Listed
    <2>2. CASE p # r
      <3>1. run'[p] = run[p] /\ run'[q] = run[q]
        BY <2>2, <1>2, <1>4
      <3> QED BY <3>1 DEF TakesTurns, Overlap
    <2> QED BY <2>1, <2>2
  <1>6. Behind(q, job.cursor) /\ \A p \in Runs : q \in run[p].after => Behind(q, run[p].base)
    BY <1>4, <1>5 DEF Order
  <1>7. ASSUME NEW p \in Runs, q \in run'[p].after PROVE Behind(q, run[p].base)'
    <2>1. CASE p = r
      BY <2>1, <1>1, <1>4, <1>6 DEF Behind
    <2>2. CASE p # r
      BY <2>2, <1>2, <1>4, <1>6, <1>7 DEF Behind
    <2> QED BY <2>1, <2>2
  <1> QED BY <1>1, <1>4, <1>6, <1>7 DEF Behind

\* A run that moves the cursor moves it beyond the one it started from.
LEMMA UpdateOrder ==
  ASSUME IInv, Bounds, Turns, Order, NEW r \in Runs, UpdateCursor(r)
  PROVE  Order'
  <1>1. PICK applied \in BOOLEAN, acked \in BOOLEAN :
          /\ job' = IF applied THEN [job EXCEPT !.cursor = Latest(Kept(r))] ELSE job
          /\ run' = [run EXCEPT ![r].at = IF acked THEN "record" ELSE "failing",
                                ![r].until = IF applied THEN clock ELSE 0]
    BY DEF UpdateCursor
  <1>2. \A q \in Runs : q # r => run'[q] = run[q]
    BY OthersStill DEF Still, Step
  <1>3. /\ run'[r].base = run[r].base /\ run'[r].since = run[r].since
        /\ run'[r].until = IF applied THEN clock ELSE 0
        /\ run'[r].fetched = run[r].fetched /\ run'[r].after = run[r].after
    BY <1>1 DEF IInv, Types, RunType
  <1>4. run[r].at = "settle" /\ Listed(r) /\ ~Moved(r)
    BY DEF UpdateCursor, Turns, IInv, Movers, Ended
  <1>5. \A p \in Runs : r \notin run[p].after
    BY <1>4 DEF Turns, Ended
  <1>6. /\ \E v \in Kept(r) : Latest(Kept(r)) = v[2]
        /\ \A v \in Kept(r) : v[2] <= Latest(Kept(r))
    <2> DEFINE S == {Stamp(v) : v \in Kept(r)}
    <2>1. S \subseteq Nat /\ \A n \in S : n <= clock
      BY DEF IInv, Types, RunType, Past, Kept, Newer, Stamp
    <2>2. S # {}
      BY DEF UpdateCursor
    <2>3. Max(S) \in S /\ \A n \in S : n <= Max(S)
      <3> HIDE DEF S
      <3> QED BY <2>1, <2>2, MaxIsMaximum DEF IInv, Types, RunType
    <2> QED BY <2>3 DEF Latest, Stamp
  <1>7. job'.cursor = IF applied THEN Latest(Kept(r)) ELSE job.cursor
    BY <1>1 DEF IInv, Types
  <1>8. Kept(r)' = Kept(r) /\ \A q \in Runs : q # r => Kept(q)' = Kept(q)
    BY <1>2, <1>3 DEF Kept, Newer
  <1>9. /\ \A q \in Runs : run'[q].base = run[q].base /\ run'[q].after = run[q].after
        /\ \A q \in Runs : TakesTurns(q)' <=> TakesTurns(q)
    <2>1. \A q \in Runs : /\ run'[q].base = run[q].base /\ run'[q].after = run[q].after
                          /\ run'[q].since = run[q].since
      BY <1>2, <1>3
    <2> QED BY <2>1 DEF TakesTurns, Overlap
  <1> SUFFICES ASSUME NEW q \in Runs, Moved(q)', TakesTurns(q)'
               PROVE  /\ Behind(q, job.cursor)'
                      /\ \A p \in Runs : q \in run'[p].after => Behind(q, run[p].base)'
    BY DEF Order
  <1>10. CASE q = r
    <2>1. applied
      BY <1>3, <1>10 DEF Moved
    <2>2. Behind(r, job.cursor)'
      BY <2>1, <1>6, <1>7, <1>8 DEF Behind
    <2> QED BY <2>2, <1>5, <1>9, <1>10
  <1>11. CASE q # r
    <2>1. Moved(q) /\ TakesTurns(q)
      BY <1>2, <1>9, <1>11 DEF Moved
    <2>2. Behind(q, job.cursor) /\ \A p \in Runs : q \in run[p].after => Behind(q, run[p].base)
      BY <2>1 DEF Order
    <2>3. Behind(q, run[r].base)
      <3>1. ~Overlap(r, q)
        BY <2>1 DEF TakesTurns
      <3>2. r \notin run[q].after
        BY <1>5
      <3> QED BY <3>1, <3>2, <1>4, <1>11, <2>2 DEF Overlap, Listed
    <2>4. applied => Behind(q, Latest(Kept(r)))
      <3>1. PICK v \in Kept(r) : Latest(Kept(r)) = v[2]
        BY <1>6
      <3>2. v[2] > run[r].base /\ v[2] \in Nat /\ run[r].base \in Nat
        BY DEF Kept, Newer, Stamp, IInv, Types, RunType
      <3>3. \A w \in Kept(q) : w[2] \in Nat
        BY DEF Kept, Newer, IInv, Types, RunType
      <3> QED BY <2>3, <3>1, <3>2, <3>3 DEF Behind
    <2>5. Behind(q, job.cursor)'
      BY <1>7, <1>8, <1>11, <2>2, <2>4 DEF Behind
    <2>6. \A p \in Runs : q \in run'[p].after => Behind(q, run[p].base)'
      BY <1>8, <1>9, <1>11, <2>2 DEF Behind
    <2> QED BY <2>5, <2>6
  <1> QED BY <1>10, <1>11

LEMMA OrderStep ==
  ASSUME IInv, Bounds, Turns, Order, [Next]_vars
  PROVE  Order'
  <1>1. ASSUME NEW r \in Runs, CreateRun(r) \/ Step(r), ~Find(r), ~UpdateCursor(r)
        PROVE  Order'
    <2>1. \A q \in Runs : q # r => run'[q] = run[q]
      BY <1>1, OthersStill DEF Still
    <2>2. job' = job
      BY <1>1 DEF CreateRun, Step, FindFails, FetchPage, FetchFails, Wake, NothingNew,
                  UpdateRejected, Record, Fail
    <2>3. run'[r].base = run[r].base /\ run'[r].after = run[r].after
      BY <1>1, RunMoves
    <2>4. Listed(r)' <=> Listed(r)
      BY <1>1, RunMoves DEF Listed, Turns, IInv, Types
    <2>5. (Moved(r)' <=> Moved(r)) /\ (Moved(r) => Kept(r)' = Kept(r))
      <3>1. CASE run[r].at # "settle"
        BY <1>1, <3>1, MoversStay
      <3>2. CASE run[r].at = "settle"
        <4>1. PICK point : Goto(r, point)
          BY <1>1, <3>2 DEF CreateRun, Step, FindFails, FetchPage, FetchFails, Wake,
                            NothingNew, UpdateRejected, Record, Fail
        <4> QED BY <4>1 DEF Goto, Moved, Kept, Newer, IInv, Types, RunType
      <3> QED BY <3>1, <3>2
    <2>6. \A q \in Runs : q # r => /\ Moved(q)' <=> Moved(q)
                                   /\ Kept(q)' = Kept(q)
      BY <2>1 DEF Moved, Kept, Newer
    <2> QED BY <2>1, <2>2, <2>3, <2>4, <2>5, <2>6, OrderKept DEF Listed
  <1>2. ASSUME NEW r \in Runs, Find(r) PROVE Order'
    BY <1>2, FindOrder
  <1>3. ASSUME NEW r \in Runs, UpdateCursor(r) PROVE Order'
    BY <1>3, UpdateOrder
  <1>4. CASE Crash
    <2>1. \A r \in Runs : /\ run'[r].since = run[r].since /\ run'[r].until = run[r].until
                          /\ run'[r].after = run[r].after /\ run'[r].base = run[r].base
                          /\ run'[r].fetched = run[r].fetched
      BY <1>4 DEF Crash, IInv, Types, RunType
    <2> QED BY <1>4, <2>1, OrderKept DEF Crash, Listed, Moved, Kept, Newer
  <1>5. CASE DeleteJob \/ (\E x \in Records : Change(x)) \/ Tick \/ UNCHANGED vars
    <2>1. run' = run /\ job'.cursor = job.cursor
      BY <1>5 DEF DeleteJob, Change, Tick, vars, IInv, Types
    <2> QED BY <2>1, OrderKept DEF Listed, Moved, Kept, Newer
  <1> QED BY <1>1, <1>2, <1>3, <1>4, <1>5 DEF Next, Step
\* What History says of one run.
Story(r) ==
  /\ run[r].at = "returned" => row[r] = result[r]
  /\ run[r].at = "refused" => result[r] = Report("failed", 0)
  /\ run[r].at = "record" \/ Counts(r) => Kept(r) = {} \/ Moved(r)
  /\ Counts(r) => run[r].at \in {"failing", "returned", "threw", "crashed"}
  /\ row[r].processed > 0 => Counts(r) /\ row[r].processed = Cardinality(Kept(r))

LEMMA StoryKept ==
  ASSUME NEW r \in Runs, Story(r), Still(r)
  PROVE  Story(r)'
  BY DEF Story, Still, Counts, Kept, Newer, Moved

\* Until it closes its row, a run has counted nothing.
LEMMA OpenStory ==
  ASSUME IInv, Bounds, NEW r \in Runs, Story(r),
         run[r].at \notin {"failing", "returned", "threw", "crashed"},
         row'[r] \in {row[r], Report("running", 0)},
         run'[r].at \notin {"returned", "refused", "record"}
  PROVE  Story(r)'
  <1>1. ~Counts(r) /\ ~(row[r].processed > 0)
    BY DEF Story
  <1>2. ~Counts(r)' /\ ~(row'[r].processed > 0)
    BY <1>1 DEF Counts, Report
  <1> QED BY <1>2 DEF Story

LEMMA RecordStory ==
  ASSUME IInv, Bounds, NEW r \in Runs, Story(r), Record(r)
  PROVE  Story(r)'
  <1>1. PICK applied \in BOOLEAN, acked \in BOOLEAN, status \in {"success", "partial"} :
          /\ acked => applied
          /\ row' = IF applied
                    THEN [row EXCEPT ![r] = Report(status, Cardinality(Kept(r)))]
                    ELSE row
          /\ IF acked
               THEN /\ Goto(r, "returned")
                    /\ result' = [result EXCEPT ![r] = Report(status, Cardinality(Kept(r)))]
               ELSE Goto(r, "failing")
    BY DEF Record, Outcome
  <1>2. run[r].at = "record" /\ ~Counts(r) /\ (Kept(r) = {} \/ Moved(r))
    BY DEF Record, Story
  <1>3. run'[r].at = IF acked THEN "returned" ELSE "failing"
    BY <1>1 DEF Goto, IInv, Types, RunType
  <1>4. Kept(r)' = Kept(r) /\ (Moved(r)' <=> Moved(r))
    BY <1>1 DEF Goto, Kept, Newer, Moved, IInv, Types, RunType
  <1>5. CASE applied
    <2>1. /\ row'[r] = Report(status, Cardinality(Kept(r)))
          /\ acked => result'[r] = row'[r]
      BY <1>1, <1>5 DEF Bounds, Shaped
    <2>2. Counts(r)' /\ row'[r].processed = Cardinality(Kept(r))
      BY <2>1 DEF Counts, Report
    <2> QED BY <1>2, <1>3, <1>4, <2>1, <2>2 DEF Story
  <1>6. CASE ~applied
    <2>1. row'[r] = row[r] /\ run'[r].at = "failing"
      BY <1>1, <1>3, <1>6
    <2> QED BY <1>2, <2>1 DEF Story, Counts
  <1> QED BY <1>5, <1>6

LEMMA FailStory ==
  ASSUME IInv, Bounds, NEW r \in Runs, Story(r), Fail(r)
  PROVE  Story(r)'
  <1>1. PICK applied \in BOOLEAN, acked \in BOOLEAN :
          /\ acked => applied
          /\ row' = IF applied THEN [row EXCEPT ![r] = Report("failed", 0)] ELSE row
          /\ IF acked
               THEN /\ Goto(r, "returned")
                    /\ result' = [result EXCEPT ![r] = Report("failed", 0)]
               ELSE Goto(r, "threw")
    BY DEF Fail, Outcome
  <1>2. run'[r].at = IF acked THEN "returned" ELSE "threw"
    BY <1>1 DEF Goto, IInv, Types, RunType
  <1>3. Kept(r)' = Kept(r) /\ (Moved(r)' <=> Moved(r))
    <2>1. PICK point : Goto(r, point)
      BY <1>1
    <2> QED BY <2>1 DEF Goto, Kept, Newer, Moved, IInv, Types, RunType
  <1>4. CASE applied
    <2>1. row'[r] = Report("failed", 0) /\ (acked => result'[r] = row'[r])
      BY <1>1, <1>4 DEF Bounds, Shaped
    <2>2. ~Counts(r)' /\ ~(row'[r].processed > 0)
      BY <2>1 DEF Counts, Report
    <2> QED BY <1>2, <2>1, <2>2 DEF Story
  <1>5. CASE ~applied
    <2>1. row'[r] = row[r] /\ run'[r].at = "threw"
      BY <1>1, <1>2, <1>5
    <2> QED BY <1>3, <2>1 DEF Story, Counts
  <1> QED BY <1>4, <1>5

LEMMA HistoryStep ==
  ASSUME IInv, Bounds, History, [Next]_vars
  PROVE  History'
  <1> SUFFICES ASSUME NEW q \in Runs PROVE Story(q)'
    BY DEF History, Story, Counts, Kept, Newer, Moved
  <1>0. \A r \in Runs : Story(r)
    BY DEF History, Story
  <1>1. ASSUME NEW r \in Runs, CreateRun(r) \/ Step(r) PROVE Story(q)'
    <2>1. CASE q # r
      BY <1>0, <1>1, <2>1, OthersStill, StoryKept
    <2>2. CASE CreateRun(r)
      <3>1. PICK applied \in BOOLEAN, acked \in BOOLEAN :
              /\ row' = IF applied THEN [row EXCEPT ![r] = Report("running", 0)] ELSE row
              /\ IF acked THEN Goto(r, "find")
                 ELSE /\ Goto(r, "refused")
                      /\ result' = [result EXCEPT ![r] = Report("failed", 0)]
        BY <2>2 DEF CreateRun
      <3>2. run[r].at = "idle" /\ run'[r].at = IF acked THEN "find" ELSE "refused"
        BY <2>2, <3>1 DEF CreateRun, Goto, IInv, Types, RunType
      <3>3. row'[r] \in {row[r], Report("running", 0)}
        BY <3>1 DEF Bounds, Shaped
      <3>4. CASE acked
        BY <1>0, <2>1, <3>2, <3>3, <3>4, OpenStory
      <3>5. CASE ~acked
        <4>1. result'[r] = Report("failed", 0)
          BY <3>1, <3>5 DEF Bounds, Shaped
        <4>2. ~Counts(r) /\ ~(row[r].processed > 0)
          BY <1>0, <3>2 DEF Story
        <4>3. ~Counts(r)' /\ ~(row'[r].processed > 0)
          BY <3>3, <4>2 DEF Counts, Report
        <4>4. Story(r)'
          BY <3>2, <3>5, <4>1, <4>3 DEF Story
        <4> QED BY <2>1, <4>4
      <3> QED BY <3>4, <3>5
    <2>3. CASE Find(r) \/ FindFails(r) \/ FetchPage(r) \/ FetchFails(r) \/ Wake(r)
                 \/ UpdateRejected(r)
      <3>1. row' = row
        BY <2>3 DEF Find, FindFails, FetchPage, FetchFails, Wake, UpdateRejected
      <3>2. run[r].at \in {"find", "fetch", "sleep", "settle"}
        BY <2>3 DEF Find, FindFails, FetchPage, FetchFails, Wake, UpdateRejected
      <3>3. run'[r].at \notin {"returned", "refused", "record"}
        <4>1. CASE Find(r)
          BY <4>1 DEF Find, IInv, Types, RunType
        <4>2. CASE UpdateRejected(r)
          BY <4>2 DEF UpdateRejected, Goto, IInv, Types, RunType
        <4>3. CASE FindFails(r) \/ FetchPage(r) \/ FetchFails(r) \/ Wake(r)
          <5>1. run[r].at \in {"find", "fetch", "sleep"}
            BY <4>3 DEF FindFails, FetchPage, FetchFails, Wake
          <5> QED BY <1>1, <4>1, <5>1, RunMoves
        <4> QED BY <2>3, <4>1, <4>2, <4>3
      <3> QED BY <1>0, <2>1, <3>1, <3>2, <3>3, OpenStory
    <2>4. CASE NothingNew(r) \/ UpdateCursor(r)
      <3>1. row' = row /\ run[r].at = "settle"
        BY <2>4 DEF NothingNew, UpdateCursor
      <3>2. ~Counts(r)' /\ ~(row'[r].processed > 0)
        BY <1>0, <3>1 DEF Story, Counts
      <3>3. run'[r].at \in {"record", "failing"}
        <4>1. ~Find(r)
          BY <3>1 DEF Find
        <4> QED BY <1>1, <3>1, <4>1, RunMoves
      <3>4. run'[r].at = "record" => Kept(r)' = {} \/ Moved(r)'
        <4>1. CASE NothingNew(r)
          BY <4>1 DEF NothingNew, Goto, Kept, Newer, IInv, Types, RunType
        <4>2. CASE UpdateCursor(r)
          <5>1. PICK applied \in BOOLEAN, acked \in BOOLEAN :
                  /\ acked => applied
                  /\ run' = [run EXCEPT ![r].at = IF acked THEN "record" ELSE "failing",
                                        ![r].until = IF applied THEN clock ELSE 0]
            BY <4>2 DEF UpdateCursor, Outcome
          <5>2. /\ run'[r].at = IF acked THEN "record" ELSE "failing"
                /\ run'[r].until = IF applied THEN clock ELSE 0
            BY <5>1 DEF IInv, Types, RunType
          <5> QED BY <5>1, <5>2 DEF Moved, IInv, Types
        <4> QED BY <2>4, <4>1, <4>2
      <3>5. Story(r)'
        BY <3>2, <3>3, <3>4 DEF Story
      <3> QED BY <2>1, <3>5
    <2>5. CASE Record(r)
      BY <1>0, <2>1, <2>5, RecordStory
    <2>6. CASE Fail(r)
      BY <1>0, <2>1, <2>6, FailStory
    <2> QED BY <1>1, <2>1, <2>2, <2>3, <2>4, <2>5, <2>6 DEF Step
  <1>2. CASE Crash
    <2>1. /\ IF run[q].at \in Ended \cup {"idle"} THEN run'[q].at = run[q].at
             ELSE run'[q].at = "crashed"
          /\ run'[q].until = run[q].until /\ run'[q].fetched = run[q].fetched
          /\ run'[q].base = run[q].base
      BY <1>2 DEF Crash, IInv, Types, RunType
    <2>2. row' = row /\ result' = result
      BY <1>2 DEF Crash
    <2> QED BY <1>0, <2>1, <2>2 DEF Story, Counts, Moved, Kept, Newer
  <1>3. CASE DeleteJob \/ (\E x \in Records : Change(x)) \/ Tick \/ UNCHANGED vars
    BY <1>0, <1>3, StoryKept DEF DeleteJob, Change, Tick, vars, Still
  <1> QED BY <1>1, <1>2, <1>3 DEF Next

LEMMA TurnsHold == Spec => [](IInv /\ Turns /\ Order /\ History)
  <1> DEFINE Inv == IInv /\ Bounds /\ Turns /\ Order /\ History
  <1>1. Init => Inv
    BY InitIInv, InitBounds, InitTurns
  <1>2. Inv /\ [Next]_vars => Inv'
    BY NextIInv, BoundsStep, TurnsStep, OrderStep, HistoryStep
  <1>3. Inv => IInv /\ Turns /\ Order /\ History
    OBVIOUS
  <1> QED BY <1>1, <1>2, <1>3, PTL DEF Spec

(***************************************************************************)
(* Runs that take turns count no version twice: the later one began from a *)
(* cursor the earlier one had moved beyond all it kept.                    *)
(***************************************************************************)
THEOREM TurnsCountOnce == Spec => []CountedOnce
  <1>1. IInv /\ Turns /\ Order /\ History => CountedOnce
    <2> SUFFICES ASSUME IInv, Turns, Order, History, NEW q \in Runs, NEW r \in Runs, q # r,
                        NEW v \in Counted(q) \cap Counted(r),
                        TakesTurns(q), TakesTurns(r)
                 PROVE  FALSE
      BY DEF CountedOnce, TakesTurns
    <2>1. /\ v \in Kept(q) /\ v \in Kept(r)
          /\ Moved(q) /\ Moved(r)
      BY DEF Counted, History, Counts
    <2>2. v[2] > run[q].base /\ v[2] > run[r].base
      BY <2>1 DEF Kept, Newer, Stamp
    <2>3. v[2] \in Nat /\ run[q].base \in Nat /\ run[r].base \in Nat
      BY <2>1 DEF Kept, Newer, IInv, Types, RunType
    <2>4. CASE q \in run[r].after
      BY <2>1, <2>2, <2>3, <2>4 DEF Order, Behind
    <2>5. CASE r \in run[q].after
      BY <2>1, <2>2, <2>3, <2>5 DEF Order, Behind
    <2>6. q \in run[r].after \/ r \in run[q].after
      BY <2>1 DEF TakesTurns, Overlap, Turns, Listed
    <2> QED BY <2>4, <2>5, <2>6
  <1> QED BY <1>1, TurnsHold, PTL

(***************************************************************************)
(* The run history says what the caller was told.                          *)
(***************************************************************************)
THEOREM HistoryAgrees == Spec => []HistoryAgreesWithResult
  <1>1. History => HistoryAgreesWithResult
    BY DEF History, HistoryAgreesWithResult
  <1> QED BY <1>1, TurnsHold, PTL

(***************************************************************************)
(* The tables agree with the runs: their job is there while they work, and *)
(* their history says what they told the caller.                           *)
(***************************************************************************)
THEOREM TablesAgreeWithRuns == Spec => []TablesAgree
  <1>1. HistoryAgreesWithResult /\ RunsHaveTheirJob => TablesAgree
    BY DEF TablesAgree
  <1> QED BY <1>1, HistoryAgrees, JobsOutliveRuns, PTL
-----------------------------------------------------------------------------
(***************************************************************************)
(* SyncWorker implements SyncLedger.  What the refinement needs beside the *)
(* invariants above: what was fetched the channel has held, and every      *)
(* cursor a run started from, like the one in the job's row, was the start *)
(* or was set by a run that moved it.                                      *)
(***************************************************************************)
Traced ==
  /\ \A r \in Runs : \A v \in run[r].fetched : v[2] <= source[v[1]]
  /\ job.cursor \in CursorsHad
  /\ \A r \in Runs : run[r].base \in CursorsHad

LEMMA InitTraced == Init => Traced /\ Ledger!Init
  <1> SUFFICES ASSUME Init PROVE Traced /\ Ledger!Init
    OBVIOUS
  <1>1. \A r \in Runs : run[r] = Fresh
    BY DEF Init
  <1>2. Movements = {}
    BY <1>1 DEF Movements, Moved, Fresh
  <1>3. CursorsHad = {0} /\ ListingTimes = {}
    BY <1>2 DEF CursorsHad, ListingTimes
  <1>4. Processed = {}
    BY <1>2 DEF Processed, Movements
  <1>5. Traced
    BY <1>1, <1>3 DEF Init, Traced, Fresh
  <1> QED BY <1>3, <1>4, <1>5 DEF Init, Ledger!Init

\* While no run moves the cursor, the history of its movements stands still.
LEMMA MovementsStay ==
  ASSUME \A r \in Runs : Moved(r)' <=> Moved(r),
         \A r \in Runs : Moved(r) => Same(r)
  PROVE  UNCHANGED <<CursorsHad, Processed, ListingTimes>>
  <1>1. Movements' = Movements
    BY DEF Movements
  <1>2. ASSUME NEW r \in Movements
        PROVE  /\ Kept(r)' = Kept(r)
               /\ run'[r].since = run[r].since /\ run'[r].until = run[r].until
    BY DEF Movements, Same, Kept, Newer
  <1>3. CursorsHad' = CursorsHad
    BY <1>1, <1>2 DEF CursorsHad
  <1>4. ListingTimes' = ListingTimes
    BY <1>1, <1>2 DEF ListingTimes
  <1>5. Processed' = Processed
    <2>1. Processed = UNION {Kept(r) : r \in Movements}
      BY DEF Processed, Movements
    <2>2. Processed' = UNION {Kept(r)' : r \in Movements'}
      BY DEF Processed, Movements
    <2> QED BY <1>1, <1>2, <2>1, <2>2
  <1> QED BY <1>3, <1>4, <1>5

\* A step of a run that does not move the cursor: the ledger stands still,
\* what the run fetches the channel holds, and what it starts from the job has.
LEMMA InnerStep ==
  ASSUME IInv, Bounds, Turns, NEW r \in Runs, CreateRun(r) \/ Step(r),
         ~ (UpdateCursor(r) /\ Moved(r)')
  PROVE  /\ \A q \in Runs : Moved(q)' <=> Moved(q)
         /\ \A q \in Runs : Moved(q) => Same(q)
         /\ UNCHANGED <<clock, source, job.cursor>>
         /\ \A q \in Runs : run'[q].base \in {run[q].base, job.cursor}
         /\ \A q \in Runs : \A v \in run'[q].fetched :
              v \in run[q].fetched \/ \E x \in Records : v = <<x, source[x]>>
  <1>1. \A q \in Runs : q # r => run'[q] = run[q]
    BY OthersStill DEF Still
  <1>2. UNCHANGED <<clock, source>>
    BY DEF CreateRun, Step, Find, FindFails, FetchPage, FetchFails, Wake, NothingNew,
       UpdateCursor, UpdateRejected, Record, Fail
  <1>3. job'.cursor = job.cursor
    <2>1. CASE UpdateCursor(r)
      <3>1. PICK applied \in BOOLEAN, point \in {"record", "failing"} :
              /\ job' = IF applied THEN [job EXCEPT !.cursor = Latest(Kept(r))] ELSE job
              /\ run' = [run EXCEPT ![r].at = point,
                                    ![r].until = IF applied THEN clock ELSE 0]
        BY <2>1 DEF UpdateCursor
      <3>2. run'[r].until = IF applied THEN clock ELSE 0
        BY <3>1 DEF IInv, Types, RunType
      <3>3. ~applied
        BY <2>1, <3>2 DEF Moved, IInv, Types
      <3> QED BY <3>1, <3>3
    <2>2. CASE ~UpdateCursor(r)
      BY <2>2 DEF CreateRun, Step, Find, FindFails, FetchPage, FetchFails, Wake,
         NothingNew, UpdateRejected, Record, Fail
    <2> QED BY <2>1, <2>2
  <1>4. CASE Find(r)
    <2>1. /\ run'[r].base = job.cursor /\ run'[r].fetched = run[r].fetched
          /\ run'[r].until = run[r].until /\ run[r].at = "find"
      BY <1>4 DEF Find, IInv, Types, RunType
    <2>2. ~Moved(r)
      BY <2>1 DEF Turns
    <2>3. Moved(r)' <=> Moved(r)
      BY <2>1 DEF Moved
    <2> QED BY <1>1, <1>2, <1>3, <2>1, <2>2, <2>3 DEF Same, Moved
  <1>5. CASE ~Find(r)
    <2>1. run'[r].base = run[r].base
      BY <1>5, RunMoves
    <2>2. Moved(r)' <=> Moved(r)
      <3>1. CASE run[r].at # "settle"
        BY <1>5, <3>1, RunMoves DEF Moved
      <3>2. CASE run[r].at = "settle"
        <4>1. ~Moved(r)
          BY <3>2 DEF IInv, Movers, Ended
        <4>2. CASE UpdateCursor(r)
          BY <4>1, <4>2
        <4>3. CASE ~UpdateCursor(r)
          <5>1. Goto(r, "record") \/ Goto(r, "failing")
            BY <1>5, <3>2, <4>3 DEF CreateRun, Step, Find, FindFails, FetchPage,
               FetchFails, Wake, NothingNew, UpdateRejected, Record, Fail
          <5>2. run'[r].until = run[r].until
            BY <5>1 DEF Goto, IInv, Types, RunType
          <5> QED BY <5>2 DEF Moved
        <4> QED BY <4>2, <4>3
      <3> QED BY <3>1, <3>2
    <2>3. Moved(r) => Same(r)
      <3>1. Moved(r) => run[r].at \notin {"fetch", "settle", "sleep"}
        BY DEF IInv, Movers, Ended
      <3> QED BY <1>5, <3>1, RunMoves DEF Same
    <2>4. \A v \in run'[r].fetched :
            v \in run[r].fetched \/ \E x \in Records : v = <<x, source[x]>>
      <3>1. CASE run[r].at # "fetch"
        BY <1>5, <3>1, RunMoves
      <3>2. CASE FetchPage(r)
        <4>1. PICK page \in SUBSET Unlisted(r), point \in {"fetch", "settle"} :
                run' = [run EXCEPT
                  ![r].fetched = @ \cup {<<x, source[x]>> : x \in page}, ![r].at = point]
          BY <3>2 DEF FetchPage
        <4>2. run'[r].fetched = run[r].fetched \cup {<<x, source[x]>> : x \in page}
          BY <4>1 DEF IInv, Types, RunType
        <4>3. page \subseteq Records
          BY DEF Unlisted
        <4> QED BY <4>2, <4>3
      <3>3. CASE FetchFails(r)
        <4>1. PICK point : run' = [run EXCEPT ![r].fetched = {}, ![r].at = point]
          BY <3>3 DEF FetchFails
        <4>2. run'[r].fetched = {}
          BY <4>1 DEF IInv, Types, RunType
        <4> QED BY <4>2
      <3> QED BY <1>5, <3>1, <3>2, <3>3 DEF CreateRun, Step, Find, FindFails, Wake,
              NothingNew, UpdateCursor, UpdateRejected, Record, Fail
    <2> QED BY <1>1, <1>2, <1>3, <2>1, <2>2, <2>3, <2>4 DEF Same, Moved
  <1> QED BY <1>4, <1>5

\* The step that moves the cursor is a sync of the ledger.
LEMMA UpdateIsSync ==
  ASSUME IInv, Bounds, Turns, Traced, NEW r \in Runs, UpdateCursor(r), Moved(r)'
  PROVE  /\ Ledger!Sync(run[r].base, run[r].since, Kept(r))
         /\ run[r].since \in 1..clock
         /\ Kept(r) \in SUBSET (Records \X (1..clock))
         /\ \A q \in Runs : /\ run'[q].base = run[q].base
                            /\ run'[q].fetched = run[q].fetched
  <1>1. PICK applied \in BOOLEAN, point \in {"record", "failing"} :
          /\ job' = IF applied THEN [job EXCEPT !.cursor = Latest(Kept(r))] ELSE job
          /\ run' = [run EXCEPT ![r].at = point,
                                ![r].until = IF applied THEN clock ELSE 0]
    BY DEF UpdateCursor
  <1>2. \A q \in Runs : q # r => run'[q] = run[q]
    BY OthersStill DEF Still, Step
  <1>3. /\ run'[r].base = run[r].base /\ run'[r].since = run[r].since
        /\ run'[r].until = IF applied THEN clock ELSE 0
        /\ run'[r].fetched = run[r].fetched
    BY <1>1 DEF IInv, Types, RunType
  <1>4. applied /\ run'[r].until = clock
    BY <1>3 DEF Moved
  <1>5. job'.cursor = Latest(Kept(r))
    BY <1>1, <1>4 DEF IInv, Types
  <1>6. run[r].at = "settle" /\ Listed(r) /\ ~Moved(r)
    BY DEF UpdateCursor, Turns, IInv, Movers, Ended
  <1>7. UNCHANGED <<clock, source>>
    BY DEF UpdateCursor
  <1>8. run[r].since \in 1..clock
    BY <1>6 DEF Listed, IInv, Types, RunType, Past
  <1>9. \A v \in Kept(r) : /\ v \in run[r].fetched /\ v[1] \in Records
                           /\ v[2] \in Nat /\ v[2] > run[r].base /\ v[2] <= clock
    BY DEF Kept, Newer, Stamp, IInv, Types, RunType, Past
  <1>10. Kept(r) \in SUBSET (Records \X (1..clock))
    <2>1. Kept(r) \subseteq Records \X Nat
      BY DEF Kept, Newer, IInv, Types, RunType
    <2>2. \A v \in Kept(r) : v[2] \in 1..clock
      BY <1>9 DEF IInv, Types, RunType
    <2> QED BY <2>1, <2>2
  <1>11. /\ \E v \in Kept(r) : Latest(Kept(r)) = v[2]
         /\ \A v \in Kept(r) : v[2] <= Latest(Kept(r))
    <2> DEFINE S == {Stamp(v) : v \in Kept(r)}
    <2>1. S \subseteq Nat /\ \A n \in S : n <= clock
      BY <1>9 DEF Stamp
    <2>2. S # {}
      BY DEF UpdateCursor
    <2>3. Max(S) \in S /\ \A n \in S : n <= Max(S)
      <3> HIDE DEF S
      <3> QED BY <2>1, <2>2, MaxIsMaximum DEF IInv, Types
    <2> QED BY <2>3 DEF Latest, Stamp
  <1>12. Kept(r)' = Kept(r) /\ \A q \in Runs : q # r => Kept(q)' = Kept(q)
    BY <1>2, <1>3 DEF Kept, Newer
  <1>13. Movements' = Movements \cup {r}
    BY <1>2 DEF Movements, Moved
  <1>14. \A q \in Movements : q # r
    BY <1>6 DEF Movements
  <1>15. CursorsHad' = CursorsHad \cup {job'.cursor}
    <2>1. CursorsHad' = {0} \cup {Latest(Kept(q)') : q \in Movements \cup {r}}
      BY <1>13 DEF CursorsHad
    <2>2. \A q \in Movements : Latest(Kept(q)') = Latest(Kept(q))
      BY <1>12, <1>14 DEF Movements
    <2>3. Latest(Kept(r)') = job'.cursor
      BY <1>5, <1>12
    <2> QED BY <2>1, <2>2, <2>3 DEF CursorsHad
  <1>16. Processed' = Processed \cup Kept(r)
    <2>1. Processed = UNION {Kept(q) : q \in Movements}
      BY DEF Processed, Movements
    <2>2. Processed' = UNION {Kept(q)' : q \in Movements \cup {r}}
      BY <1>13 DEF Processed, Movements
    <2>3. \A q \in Movements : Kept(q)' = Kept(q)
      BY <1>12, <1>14 DEF Movements
    <2> QED BY <1>12, <2>1, <2>2, <2>3
  <1>17. ListingTimes' = ListingTimes \cup run[r].since..clock
    <2>1. ListingTimes' = UNION {run'[q].since..run'[q].until : q \in Movements \cup {r}}
      BY <1>13 DEF ListingTimes
    <2>2. \A q \in Movements : run'[q] = run[q]
      BY <1>2, <1>14 DEF Movements
    <2> QED BY <1>3, <1>4, <2>1, <2>2 DEF ListingTimes
  <1>18. Ledger!Genuine(Kept(r))
    BY <1>9 DEF Ledger!Genuine, Traced
  <1>19. Ledger!Complete(run[r].base, run[r].since, Kept(r))
    <2> SUFFICES ASSUME NEW x \in Records, source[x] \in run[r].base + 1 .. run[r].since - 1
                 PROVE  <<x, source[x]>> \in Kept(r)
      BY DEF Ledger!Complete
    <2>1. /\ source[x] \in Nat /\ run[r].base \in Nat /\ run[r].since \in Nat
          /\ source[x] > run[r].base /\ source[x] # 0 /\ ~ (source[x] >= run[r].since)
      BY DEF IInv, Types, RunType
    <2>2. Current(r, x)
      BY <1>6, <2>1 DEF IInv, Listings
    <2> QED BY <2>1, <2>2 DEF Current, Kept, Newer, Stamp
  <1>20. /\ job'.cursor \in {v[2] : v \in Kept(r)}
         /\ \A v \in Kept(r) : v[2] \in run[r].base + 1 .. job'.cursor
    <2>1. run[r].base \in Nat /\ job'.cursor \in Nat
      BY <1>5, <1>9, <1>11 DEF IInv, Types, RunType
    <2> QED BY <1>5, <1>9, <1>11, <2>1
  <1>21. Ledger!Sync(run[r].base, run[r].since, Kept(r))
    BY <1>7, <1>15, <1>16, <1>17, <1>18, <1>19, <1>20 DEF Ledger!Sync
  <1> QED BY <1>2, <1>3, <1>8, <1>10, <1>21

\* A step that moves no cursor, whoever takes it.
LEMMA TracedKept ==
  ASSUME IInv, Traced, job'.cursor = job.cursor,
         \A r \in Runs : Moved(r)' <=> Moved(r),
         \A r \in Runs : Moved(r) => Same(r),
         \A x \in Records : source[x] <= source'[x],
         source' \in [Records -> Nat],
         \A r \in Runs : run'[r].base \in {run[r].base, job.cursor},
         \A r \in Runs : \A v \in run'[r].fetched :
           v \in run[r].fetched \/ \E x \in Records : v = <<x, source[x]>>
  PROVE  Traced'
  <1>1. CursorsHad' = CursorsHad
    BY MovementsStay
  <1>2. ASSUME NEW r \in Runs, NEW v \in run'[r].fetched
        PROVE  v[2] <= source'[v[1]]
    <2>1. CASE v \in run[r].fetched
      <3>1. v[1] \in Records /\ v[2] \in Nat /\ v[2] <= source[v[1]]
        BY <2>1 DEF IInv, Types, RunType, Traced
      <3>2. source[v[1]] \in Nat /\ source'[v[1]] \in Nat /\ source[v[1]] <= source'[v[1]]
        BY <3>1 DEF IInv, Types
      <3> QED BY <3>1, <3>2
    <2>2. CASE \E x \in Records : v = <<x, source[x]>>
      BY <2>2
    <2> QED BY <1>2, <2>1, <2>2
  <1> QED BY <1>1, <1>2 DEF Traced

LEMMA LedgerStep ==
  ASSUME IInv, Bounds, Turns, Traced, [Next]_vars
  PROVE  Traced' /\ [Ledger!Next]_Ledger!vars
  <1>1. ASSUME NEW r \in Runs, CreateRun(r) \/ Step(r), ~ (UpdateCursor(r) /\ Moved(r)')
        PROVE  Traced' /\ [Ledger!Next]_Ledger!vars
    <2>1. /\ \A q \in Runs : Moved(q)' <=> Moved(q)
          /\ \A q \in Runs : Moved(q) => Same(q)
          /\ UNCHANGED <<clock, source, job.cursor>>
          /\ \A q \in Runs : run'[q].base \in {run[q].base, job.cursor}
          /\ \A q \in Runs : \A v \in run'[q].fetched :
               v \in run[q].fetched \/ \E x \in Records : v = <<x, source[x]>>
      BY <1>1, InnerStep
    <2>2. source' \in [Records -> Nat] /\ \A x \in Records : source[x] <= source'[x]
      BY <2>1 DEF IInv, Types
    <2>3. Traced'
      BY <2>1, <2>2, TracedKept
    <2>4. UNCHANGED <<CursorsHad, Processed, ListingTimes>>
      BY <2>1, MovementsStay
    <2> QED BY <2>1, <2>3, <2>4 DEF Ledger!vars
  <1>2. ASSUME NEW r \in Runs, UpdateCursor(r), Moved(r)'
        PROVE  Traced' /\ [Ledger!Next]_Ledger!vars
    <2>1. /\ Ledger!Sync(run[r].base, run[r].since, Kept(r))
          /\ run[r].since \in 1..clock
          /\ Kept(r) \in SUBSET (Records \X (1..clock))
          /\ \A q \in Runs : /\ run'[q].base = run[q].base
                             /\ run'[q].fetched = run[q].fetched
      BY <1>2, UpdateIsSync
    <2>2. CursorsHad' = CursorsHad \cup {job'.cursor} /\ source' = source
      BY <2>1 DEF Ledger!Sync
    <2>3. Traced'
      BY <2>1, <2>2 DEF Traced
    <2>4. run[r].base \in CursorsHad
      BY DEF Traced
    <2>5. Ledger!Next
      BY <2>1, <2>4 DEF Ledger!Next
    <2> QED BY <2>3, <2>5
  <1>3. CASE Crash \/ DeleteJob \/ UNCHANGED vars
    <2>1. \A q \in Runs : Same(q)
      BY <1>3 DEF Crash, DeleteJob, vars, Same, IInv, Types, RunType
    <2>2. /\ UNCHANGED <<clock, source>> /\ job'.cursor = job.cursor
      BY <1>3 DEF Crash, DeleteJob, vars, IInv, Types
    <2>3. \A q \in Runs : Moved(q)' <=> Moved(q)
      BY <2>1 DEF Same, Moved
    <2>4. source' \in [Records -> Nat] /\ \A x \in Records : source[x] <= source'[x]
      BY <2>2 DEF IInv, Types
    <2>5. Traced'
      BY <2>1, <2>2, <2>3, <2>4, TracedKept DEF Same
    <2>6. UNCHANGED <<CursorsHad, Processed, ListingTimes>>
      BY <2>1, <2>3, MovementsStay
    <2> QED BY <2>2, <2>5, <2>6 DEF Ledger!vars
  <1>4. ASSUME NEW x \in Records, Change(x)
        PROVE  Traced' /\ [Ledger!Next]_Ledger!vars
    <2>1. UNCHANGED <<clock, run, job>>
      BY <1>4 DEF Change
    <2>2. source' \in [Records -> Nat] /\ \A y \in Records : source[y] <= source'[y]
      BY <1>4 DEF Change, IInv, Types, Past
    <2>3. /\ \A q \in Runs : Moved(q)' <=> Moved(q)
          /\ \A q \in Runs : Same(q)
      BY <2>1 DEF Moved, Same
    <2>4. Traced'
      BY <2>1, <2>2, <2>3, TracedKept
    <2>5. UNCHANGED <<CursorsHad, Processed, ListingTimes>>
      BY <2>3, MovementsStay
    <2>6. Ledger!Change(x)
      BY <1>4, <2>1, <2>5 DEF Change, Ledger!Change
    <2> QED BY <2>4, <2>6 DEF Ledger!Next
  <1>5. CASE Tick
    <2>1. UNCHANGED <<source, run, job>>
      BY <1>5 DEF Tick
    <2>2. source' \in [Records -> Nat] /\ \A y \in Records : source[y] <= source'[y]
      BY <2>1 DEF IInv, Types
    <2>3. /\ \A q \in Runs : Moved(q)' <=> Moved(q)
          /\ \A q \in Runs : Same(q)
      BY <2>1 DEF Moved, Same
    <2>4. Traced'
      BY <2>1, <2>2, <2>3, TracedKept
    <2>5. UNCHANGED <<CursorsHad, Processed, ListingTimes>>
      BY <2>3, MovementsStay
    <2>6. Ledger!Tick
      BY <1>5, <2>1, <2>5 DEF Tick, Ledger!Tick
    <2> QED BY <2>4, <2>6 DEF Ledger!Next
  <1> QED BY <1>1, <1>2, <1>3, <1>4, <1>5 DEF Next

(***************************************************************************)
(* A run is one atomic sync: whatever its awaits interleave with, the      *)
(* cursor and the versions processed go through what SyncLedger allows.    *)
(***************************************************************************)
THEOREM SyncsAreAtomic == Spec => ImplementsLedger
  <1> DEFINE Inv == IInv /\ Bounds /\ Turns /\ Traced
  <1>1. Init => Inv /\ Ledger!Init
    BY InitIInv, InitBounds, InitTurns, InitTraced
  <1>2. Inv /\ [Next]_vars => Inv' /\ [Ledger!Next]_Ledger!vars
    BY NextIInv, BoundsStep, TurnsStep, LedgerStep
  <1> QED BY <1>1, <1>2, PTL DEF Spec, ImplementsLedger, Ledger!Spec
=============================================================================
