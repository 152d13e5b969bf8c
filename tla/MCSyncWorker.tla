---------------------------- MODULE MCSyncWorker ----------------------------
(***************************************************************************)
(* Instances of SyncWorker for TLC.                                        *)
(***************************************************************************)
EXTENDS SyncWorker

CONSTANTS r1, r2, x1, x2

AsItIs == {FALSE}
AsItIsAndAsMeant == {FALSE, TRUE}

TwoRuns == {r1, r2}
OneRun == {r1}
TwoRecords == {x1, x2}
=============================================================================
