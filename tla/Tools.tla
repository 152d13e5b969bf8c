-------------------------------- MODULE Tools --------------------------------
(***************************************************************************)
(* The tool registry with a sandbox as its executor: invoke awaits         *)
(* executor.execute and answers with what it returned.  An execution is    *)
(* known by the invocation it serves.  terminate and cleanup come from     *)
(* outside, and a tool may run on when its invocation is over.             *)
(***************************************************************************)
EXTENDS Integers, FiniteSets

CONSTANTS Names, Calls, MaxFaults, MaxConcurrent, Kinds

VARIABLES
  rows, clock, cache, executor, call, toolCalls, faults,
  kind, activeCount, executions, local, tool, answer, terminated

Registry == INSTANCE ToolRegistry
Executor == INSTANCE Sandbox WITH Executions <- Calls

registryVars == <<rows, clock, cache, executor, call, toolCalls, faults>>
executorVars == <<kind, activeCount, executions, local, tool, answer, terminated>>
vars == <<registryVars, executorVars>>

Init == Registry!Init /\ Executor!Init

(* Everything of the registry but the execution itself.                    *)
RegistryStep ==
  /\ \/ Registry!SetToolExecutor
     \/ Registry!Expire
     \/ \E c \in Calls :
          \/ \E n \in Names : \/ Registry!Register(c, n)
                              \/ Registry!Unregister(c, n)
                              \/ Registry!UnregisterThrows(c, n)
                              \/ Registry!Invoke(c, n)
          \/ Registry!Invalidate(c)
          \/ Registry!Discover(c)
          \/ Registry!Query(c)
          \/ Registry!Fill(c)
          \/ Registry!Lookup(c)
          \/ Registry!LookupFails(c)
          \/ Registry!LogCall(c)
  /\ UNCHANGED executorVars

(* invoke calls the executor.                                              *)
Begin(c) ==
  /\ call[c].at = "execute"
  /\ Executor!RefuseFull(c) \/ Executor!RefuseUnknown(c) \/ Executor!Execute(c)
  /\ UNCHANGED registryVars

ExecutorStep ==
  /\ \/ Executor!Cleanup
     \/ \E c \in Calls : \/ Executor!ToolEnds(c)
                         \/ Executor!TimesOut(c)
                         \/ Executor!Terminate(c)
                         \/ Executor!Continue(c)
                         \/ Executor!RemoveContainer(c)
                         \/ Executor!Removed(c)
  /\ UNCHANGED registryVars

(* The executor has answered: invoke logs the result and returns it.       *)
(* Neither sandbox throws, so that is left to other executors.             *)
Finish(c) ==
  /\ local[c] = "returned"
  /\ Registry!Execute(c)
  /\ call'[c].answer = IF answer[c] = "SUCCESS" THEN "SUCCESS" ELSE "FAILED"
  /\ UNCHANGED executorVars

Next ==
  \/ RegistryStep
  \/ ExecutorStep
  \/ \E c \in Calls : Begin(c) \/ Finish(c)

Spec == Init /\ [][Next]_vars

-----------------------------------------------------------------------------
TypeOK == Registry!TypeOK /\ Executor!TypeOK

StaleListHasACause == Registry!StaleListHasACause
RunsAnActiveDefinition == Registry!RunsAnActiveDefinition
SlotsMatch == Executor!SlotsMatch
RecordTellsTheAnswer == Executor!RecordTellsTheAnswer

(* Every slot serves an invocation that is waiting for it, and what the    *)
(* invocation answers is what the execution ended with.                    *)
SlotsServeInvocations ==
  /\ \A c \in Executor!InFlight : call[c].at = "execute"
  /\ \A c \in Calls : call[c].answer = "SUCCESS" => answer[c] = "SUCCESS"
=============================================================================
