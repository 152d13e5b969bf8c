---------------------------- MODULE AgentPlatform ----------------------------
(***************************************************************************)
(* The agent platform: AgentPlatformService of                             *)
(* src/agent-runtime/platform/agent-platform.ts, its lifecycle (types.ts)  *)
(* and its routing.                                                        *)
(*                                                                         *)
(* Instances share definitions: registering an agent under a definition's  *)
(* id replaces the definition for all its instances, and so does updating  *)
(* one of them.  Routing picks among the instances of a type that are      *)
(* ready or running with an index that outlives every change of that set.  *)
(***************************************************************************)
EXTENDS Integers, Sequences, FiniteSets

CONSTANTS
  Agents,      \* instance ids
  Definitions, \* definition ids
  Types,       \* agent types, the intents of requests
  MaxRoutes    \* bound: requests routed, per type

PlatformAssumption == IsFiniteSet(Agents) /\ MaxRoutes \in Nat

VARIABLES
  instances,   \* the ids in the order of the map: that of registration
  agent,       \* agent[a]: definition and status
  definitions, \* definitions[d]: the type it says, or "none"
  roundRobin,  \* roundRobinIndex
  picks        \* history: picks[t][a] since the candidates of t last changed

vars == <<instances, agent, definitions, roundRobin, picks>>

Statuses == {"registered", "ready", "running", "paused", "stopped"}

(* VALID_TRANSITIONS.                                                      *)
Valid == {<<"registered", "ready">>, <<"ready", "running">>, <<"ready", "stopped">>,
          <<"running", "paused">>, <<"running", "stopped">>,
          <<"paused", "running">>, <<"paused", "stopped">>}

NoPicks == [a \in Agents |-> 0]
Nobody(d) == [definition |-> d, status |-> "none"]

Init ==
  /\ instances = <<>>
  /\ \E d \in Definitions : agent = [a \in Agents |-> Nobody(d)]
  /\ definitions = [d \in Definitions |-> "none"]
  /\ roundRobin = [t \in Types |-> 0]
  /\ picks = [t \in Types |-> NoPicks]

(* getRoutableCandidates.                                                  *)
Candidates(t) ==
  {a \in Agents : /\ agent[a].status \in {"ready", "running"}
                  /\ definitions[agent[a].definition] = t}

(* Where an agent is in the list of candidates, which is in the order of   *)
(* the map: as many as precede it there.                                   *)
Position(a) == CHOOSE i \in DOMAIN instances : instances[i] = a
Rank(a, candidates) == Cardinality({b \in candidates : Position(b) < Position(a)})

(* The history starts again where the candidates changed.                  *)
Recount ==
  picks' = [t \in Types |-> IF Candidates(t)' = Candidates(t) THEN picks[t] ELSE NoPicks]

(* registerAgent: the definition of that id is replaced.                   *)
Register(a, d, t) ==
  /\ agent[a].status = "none"
  /\ instances' = Append(instances, a)
  /\ agent' = [agent EXCEPT ![a] = [definition |-> d, status |-> "registered"]]
  /\ definitions' = [definitions EXCEPT ![d] = t]
  /\ UNCHANGED roundRobin
  /\ Recount

(* updateAgent: the id stays, anything else of the definition may change.  *)
Update(a, t) ==
  /\ agent[a].status # "none"
  /\ definitions' = [definitions EXCEPT ![agent[a].definition] = t]
  /\ UNCHANGED <<instances, agent, roundRobin>>
  /\ Recount

(* startAgent, pauseAgent and stopAgent up to the publication of the event:*)
(* the status is read, checked and written in one turn of the event loop.  *)
(* Only startAgent derives its target from the status it finds, and it     *)
(* does not take an agent from ready to running.  The publication changes  *)
(* nothing here, and that it fails is swallowed.                           *)
Target(op, status) ==
  CASE op = "pause" -> "paused"
    [] op = "stop" -> "stopped"
    [] status = "registered" -> "ready"
    [] status = "paused" -> "running"
    [] OTHER -> "none"

Change(a, op) ==
  LET status == agent[a].status
      target == Target(op, status)
  IN /\ <<status, target>> \in Valid
     /\ agent' = [agent EXCEPT ![a].status = target]
     /\ UNCHANGED <<instances, definitions, roundRobin>>
     /\ Recount

(* Mutant of Advanced: the index stays within the candidates it saw and    *)
(* skips one at the end of a round.                                        *)
AdvancedWithin(t) ==
  [roundRobin EXCEPT ![t] = IF @ + 1 >= Cardinality(Candidates(t)) THEN 1 ELSE @ + 1]

Advanced(t) == [roundRobin EXCEPT ![t] = @ + 1]

(* route: the requests' tenants are not compared with the agents'.         *)
Route(t) ==
  /\ roundRobin[t] < MaxRoutes
  /\ \E selected \in Candidates(t) :
       /\ Rank(selected, Candidates(t)) = roundRobin[t] % Cardinality(Candidates(t))
       /\ picks' = [picks EXCEPT ![t][selected] = @ + 1]
  /\ roundRobin' = Advanced(t)
  /\ UNCHANGED <<instances, agent, definitions>>

Next ==
  \/ \E a \in Agents :
       \/ \E d \in Definitions, t \in Types : Register(a, d, t)
       \/ \E t \in Types : Update(a, t)
       \/ \E op \in {"start", "pause", "stop"} : Change(a, op)
  \/ \E t \in Types : Route(t)

Spec == Init /\ [][Next]_vars

-----------------------------------------------------------------------------
TypeOK ==
  /\ instances \in Seq(Agents)
  /\ agent \in [Agents -> [definition : Definitions, status : Statuses \cup {"none"}]]
  /\ definitions \in [Definitions -> Types \cup {"none"}]
  /\ roundRobin \in [Types -> 0..MaxRoutes]
  /\ picks \in [Types -> [Agents -> 0..MaxRoutes]]

(* As long as the agents available for a type stay the same, the requests  *)
(* of that type are shared evenly among them, wherever the index stood     *)
(* when the set changed: no two of them differ by more than one request.   *)
FairShare ==
  \A t \in Types : \A a, b \in Candidates(t) : picks[t][a] <= picks[t][b] + 1
=============================================================================
