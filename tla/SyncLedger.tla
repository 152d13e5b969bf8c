----------------------------- MODULE SyncLedger -----------------------------
(***************************************************************************)
(* What incremental sync promises the owner of a sync job, with nothing of *)
(* how the worker keeps the promise: no rows, no points of execution, no   *)
(* pages, retries, faults or crashes.  There is the channel, whose records *)
(* change, and there is the ledger: the cursor and the versions processed. *)
(* A sync is ONE step.  It starts from a cursor the job has had, perhaps   *)
(* not the present one, and takes a part of what the channel has held, in  *)
(* which nothing is missing that is newer than that cursor and has stood   *)
(* still since the listing began.                                          *)
(***************************************************************************)
EXTENDS Integers

CONSTANT Records

VARIABLES
  clock,      \* the channel's clock
  source,     \* source[x]: updatedAt of record x at the channel, 0 if absent
  cursor,     \* the last cursor of the job
  reached,    \* every cursor the job has had
  processed,  \* the versions <<x, stamp>> that syncs have taken
  moving      \* the stamps during which a listing of some sync was under way

vars == <<clock, source, cursor, reached, processed, moving>>

Init ==
  /\ clock = 1
  /\ source = [x \in Records |-> 0]
  /\ cursor = 0
  /\ reached = {0}
  /\ processed = {}
  /\ moving = {}

Change(x) ==
  /\ source' = [source EXCEPT ![x] = clock]
  /\ UNCHANGED <<clock, cursor, reached, processed, moving>>

Tick ==
  /\ clock' = clock + 1
  /\ UNCHANGED <<source, cursor, reached, processed, moving>>

Genuine(kept) == \A v \in kept : v[2] <= source[v[1]]

Complete(base, since, kept) ==
  \A x \in Records : source[x] \in base + 1 .. since - 1 => <<x, source[x]>> \in kept

(* A sync that began to list at since takes kept, everything in it newer   *)
(* than base, and leaves the cursor at the newest of it.                   *)
Sync(base, since, kept) ==
  /\ Genuine(kept)
  /\ Complete(base, since, kept)
  /\ cursor' \in {v[2] : v \in kept}
  /\ \A v \in kept : v[2] \in base + 1 .. cursor'
  /\ reached' = reached \cup {cursor'}
  /\ processed' = processed \cup kept
  /\ moving' = moving \cup since..clock
  /\ UNCHANGED <<clock, source>>

Next ==
  \/ \E x \in Records : Change(x)
  \/ Tick
  \/ \E base \in reached, since \in 1..clock, kept \in SUBSET (Records \X (1..clock)) :
       Sync(base, since, kept)

Spec == Init /\ [][Next]_vars
=============================================================================
