------------------------------- MODULE Sandbox -------------------------------
(***************************************************************************)
(* The two executors of tools: V8SandboxExecutor and DockerSandboxExecutor *)
(* of src/infrastructure/tools/sandbox.  Both keep a record per execution  *)
(* and a counter of the executions under way, and both answer a caller     *)
(* once; they differ in what ends an execution.                            *)
(*                                                                         *)
(* v8: the tool function, a timer and an abort signal race; whichever      *)
(* settles first decides the answer, and the function itself runs on.      *)
(* docker: the docker command ends or is killed at its timeout, and the    *)
(* container is removed by another command.                                *)
(*                                                                         *)
(* terminate and cleanup may be called at any moment, also between the     *)
(* settling of an execution and the code that continues from it.           *)
(***************************************************************************)
EXTENDS Integers, FiniteSets

CONSTANTS
  Executions,    \* calls of execute
  MaxConcurrent, \* config.maxConcurrent
  Kinds          \* the executors to explore: a subset of {"v8", "docker"}

SandboxAssumption ==
  /\ IsFiniteSet(Executions)
  /\ MaxConcurrent \in Nat
  /\ Kinds \subseteq {"v8", "docker"} /\ Kinds # {}

VARIABLES
  kind,        \* which executor this is
  activeCount,
  executions,  \* executions[e]: status of the record, "none" if there is none
  local,       \* local[e]: the invocation of execute
  tool,        \* tool[e]: the tool function, or the container
  answer,      \* answer[e]: the code of the ToolCallResult
  terminated   \* history: executions for which terminate returned true

vars == <<kind, activeCount, executions, local, tool, answer, terminated>>

(* An execution is idle; running until something settles it; settled with  *)
(* an outcome it has yet to continue from; removing its container; over.   *)
Outcomes == {"result", "error", "timeout", "abort"}
Points == {"idle", "running", "removing", "returned"} \cup Outcomes
Statuses == {"none", "running", "completed", "failed", "timed_out"}
Codes == {"none", "SUCCESS", "SANDBOX_CONCURRENCY_LIMIT", "TOOL_NOT_FOUND",
          "EXECUTION_TIMEOUT", "EXECUTION_TERMINATED", "EXECUTION_ERROR"}

Init ==
  /\ kind \in Kinds
  /\ activeCount = 0
  /\ executions = [e \in Executions |-> "none"]
  /\ local = [e \in Executions |-> "idle"]
  /\ tool = [e \in Executions |-> "none"]
  /\ answer = [e \in Executions |-> "none"]
  /\ terminated = {}

(* The executions that hold a slot: between ++ and --.                     *)
InFlight == {e \in Executions : local[e] \in {"running", "removing"} \cup Outcomes}

Refuse(e, code) ==
  /\ local[e] = "idle"
  /\ local' = [local EXCEPT ![e] = "returned"]
  /\ answer' = [answer EXCEPT ![e] = code]
  /\ UNCHANGED <<kind, activeCount, executions, tool, terminated>>

RefuseFull(e) == activeCount >= MaxConcurrent /\ Refuse(e, "SANDBOX_CONCURRENCY_LIMIT")

(* Only the v8 executor has a registry of tool functions.                  *)
RefuseUnknown(e) ==
  kind = "v8" /\ activeCount < MaxConcurrent /\ Refuse(e, "TOOL_NOT_FOUND")

(* Mutant of HasSlot: one execution too many.                              *)
HasOneMore == activeCount <= MaxConcurrent

HasSlot == activeCount < MaxConcurrent

(* execute up to its first await.  The v8 executor refuses to start the    *)
(* tool when the heap is over its limit: an error like any other.          *)
Execute(e) ==
  /\ local[e] = "idle"
  /\ HasSlot
  /\ executions' = [executions EXCEPT ![e] = "running"]
  /\ activeCount' = activeCount + 1
  /\ \/ /\ local' = [local EXCEPT ![e] = "running"]
        /\ tool' = [tool EXCEPT ![e] = "running"]
     \/ /\ local' = [local EXCEPT ![e] = "error"]
        /\ UNCHANGED tool
  /\ UNCHANGED <<kind, answer, terminated>>

(* The tool ends, well or not; an error that says "timed out" counts as a  *)
(* timeout.  Its outcome counts if it is the first.                        *)
ToolEnds(e) ==
  /\ tool[e] = "running"
  /\ tool' = [tool EXCEPT ![e] = "ended"]
  /\ IF local[e] = "running"
       THEN \E outcome \in {"result", "error", "timeout"} :
              local' = [local EXCEPT ![e] = outcome]
       ELSE UNCHANGED local
  /\ UNCHANGED <<kind, activeCount, executions, answer, terminated>>

(* v8: the timer fires first.  docker: exec kills the client it started,   *)
(* the container runs on.                                                  *)
TimesOut(e) ==
  /\ local[e] = "running"
  /\ local' = [local EXCEPT ![e] = "timeout"]
  /\ UNCHANGED <<kind, activeCount, executions, tool, answer, terminated>>

(* terminate of a running record.  It aborts the race of the v8 executor;  *)
(* of a container it knows the name only when execute is through, so it    *)
(* stops none and only the record changes.                                 *)
Terminate(e) ==
  /\ executions[e] = "running"
  /\ executions' = [executions EXCEPT ![e] = "failed"]
  /\ local' = IF kind = "v8" /\ local[e] = "running"
                THEN [local EXCEPT ![e] = "abort"]
                ELSE local
  /\ terminated' = terminated \cup {e}
  /\ UNCHANGED <<kind, activeCount, tool, answer>>

-----------------------------------------------------------------------------
Status(outcome) ==
  CASE outcome = "result" -> "completed"
    [] outcome = "timeout" -> "timed_out"
    [] OTHER -> "failed"

Code(outcome) ==
  CASE outcome = "result" -> "SUCCESS"
    [] outcome = "timeout" -> "EXECUTION_TIMEOUT"
    [] outcome = "abort" -> "EXECUTION_TERMINATED"
    [] OTHER -> "EXECUTION_ERROR"

(* execute writes to the record it holds, in the map or cleaned up.        *)
Record(e, status) ==
  executions' = IF executions[e] = "none"
                  THEN executions
                  ELSE [executions EXCEPT ![e] = status]

(* Mutant of RecordOf: a record that no longer runs keeps its status.      *)
RecordUnlessTerminated(e) ==
  IF executions[e] = "running" THEN Record(e, Status(local[e]))
                               ELSE UNCHANGED executions

RecordOf(e) == Record(e, Status(local[e]))

Return(e) ==
  /\ local' = [local EXCEPT ![e] = "returned"]
  /\ activeCount' = activeCount - 1

(* The continuation of execute, and its finally.                           *)
Continue(e) ==
  /\ local[e] \in Outcomes
  /\ kind = "v8" \/ local[e] = "error"
  /\ RecordOf(e)
  /\ answer' = [answer EXCEPT ![e] = Code(local[e])]
  /\ Return(e)
  /\ UNCHANGED <<kind, tool, terminated>>

(* docker: a result or a timeout has the container removed first; at a     *)
(* timeout the record is written before, at a result after.                *)
RemoveContainer(e) ==
  /\ kind = "docker"
  /\ local[e] \in {"result", "timeout"}
  /\ IF local[e] = "timeout" THEN RecordOf(e) ELSE UNCHANGED executions
  /\ answer' = [answer EXCEPT ![e] = Code(local[e])]
  /\ local' = [local EXCEPT ![e] = "removing"]
  /\ UNCHANGED <<kind, activeCount, tool, terminated>>

(* docker rm -f, whose failure is swallowed.                               *)
Removed(e) ==
  /\ local[e] = "removing"
  /\ \/ tool' = [tool EXCEPT ![e] = "ended"]
     \/ tool[e] = "running" /\ tool' = [tool EXCEPT ![e] = "leaked"]
  /\ IF answer[e] = "SUCCESS" THEN Record(e, "completed") ELSE UNCHANGED executions
  /\ Return(e)
  /\ UNCHANGED <<kind, answer, terminated>>

(* cleanup: records that do not run and are old enough.  Which are is the  *)
(* clock's to say: any of them.                                            *)
Cleanup ==
  \E old \in SUBSET {e \in Executions : executions[e] \notin {"none", "running"}} :
    /\ old # {}
    /\ executions' = [e \in Executions |-> IF e \in old THEN "none" ELSE executions[e]]
    /\ UNCHANGED <<kind, activeCount, local, tool, answer, terminated>>

Step(e) ==
  \/ RefuseFull(e)
  \/ RefuseUnknown(e)
  \/ Execute(e)
  \/ ToolEnds(e)
  \/ TimesOut(e)
  \/ Terminate(e)
  \/ Continue(e)
  \/ RemoveContainer(e)
  \/ Removed(e)

Next == Cleanup \/ \E e \in Executions : Step(e)

Spec == Init /\ [][Next]_vars

-----------------------------------------------------------------------------
TypeOK ==
  /\ kind \in Kinds
  /\ activeCount \in Int
  /\ executions \in [Executions -> Statuses]
  /\ local \in [Executions -> Points]
  /\ tool \in [Executions -> {"none", "running", "ended", "leaked"}]
  /\ answer \in [Executions -> Codes]
  /\ terminated \subseteq Executions

(* Whatever ends an execution, and whoever terminates or cleans up its     *)
(* record meanwhile, its slot is given back exactly once and there are     *)
(* never more executions than slots.  The limit does not bound the tools:  *)
(* one that still runs without a slot was abandoned by the v8 executor at  *)
(* its timeout or at a termination, or its container could not be removed. *)
SlotsMatch ==
  /\ activeCount = Cardinality(InFlight)
  /\ activeCount <= MaxConcurrent
  /\ \A e \in Executions \ InFlight :
       tool[e] \in {"running", "leaked"} =>
         \/ kind = "v8" /\ answer[e] \in {"EXECUTION_TIMEOUT", "EXECUTION_TERMINATED"}
         \/ kind = "docker" /\ tool[e] = "leaked"

(* Monitoring and caller agree: once execute has answered, a record that   *)
(* is still kept tells what the caller was told, also when terminate wrote *)
(* it while the outcome was decided, and no record is left running.        *)
RecordTellsTheAnswer ==
  \A e \in Executions :
    local[e] = "returned" /\ executions[e] # "none" =>
      executions[e] = CASE answer[e] = "SUCCESS" -> "completed"
                        [] answer[e] = "EXECUTION_TIMEOUT" -> "timed_out"
                        [] OTHER -> "failed"
=============================================================================
