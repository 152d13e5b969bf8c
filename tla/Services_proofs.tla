--------------------------- MODULE Services_proofs ---------------------------
(***************************************************************************)
(* Proofs about the services as MCServices composes them: what the run     *)
(* services checks of an instance, for every value of the constants.       *)
(*                                                                         *)
(* A behaviour follows one component, so that a property of the component  *)
(* is one of every behaviour once the component's inductive invariant is   *)
(* carried over to the steps of the composition.  For the gateway it is    *)
(* that of LlmGateway_proofs, whose instance here is shown to take the     *)
(* steps which the composition takes.                                      *)
(***************************************************************************)
EXTENDS MCServices, AgentSide_proofs

Gateway == INSTANCE LlmGateway_proofs WITH Requests <- Ids, faults <- llmFaults

(* A behaviour follows one component to its end, and every step but those  *)
(* of the component leaves its state alone.                                *)
LEMMA FocusStays == [Next]_vars => focus' = focus
  BY DEF Next, vars

LEMMA Followed ==
  ASSUME [Next]_vars
  PROVE  /\ focus = "tools" => [ToolServices!Next]_toolVars
         /\ focus = "llm" => [Llm!Next]_llmVars
         /\ focus = "websocket" => [WebSocket!Next]_socketVars
         /\ focus = "streams" => [EventStream!Next]_streamVars
         /\ focus = "platform" => [Platform!Next]_platformVars
         /\ focus = "chat" => [Chat!Next]_chatVars
         /\ focus = "schedules" => [Schedules!Next]_scheduleVars
         /\ focus = "queries" => [Queries!Next]_queryVars
         /\ focus = "mappings" => [Mappings!Next]_mappingVars
         /\ focus = "board" => [Board!Next]_boardVars
         /\ focus = "metrics" => [Metrics!Next]_metricVars
         /\ focus = "page" => [Page!Next]_pageVars
  BY DEF Next, vars, AgentNext, DataNext, DataOthers, agentVars, dataVars, Others

LEMMA Begun ==
  ASSUME Init
  PROVE  /\ focus = "tools" => ToolServices!Init
         /\ focus = "llm" => Llm!Init
         /\ focus = "websocket" => WebSocket!Init
         /\ focus = "streams" => EventStream!Init
         /\ focus = "platform" => Platform!Init
         /\ focus = "chat" => Chat!Init
         /\ focus = "schedules" => Schedules!Init
         /\ focus = "queries" => Queries!Init
         /\ focus = "mappings" => Mappings!Init
         /\ focus = "board" => Board!Init
         /\ focus = "metrics" => Metrics!Init
         /\ focus = "page" => Page!Init
  BY DEF Init, AgentInit

-----------------------------------------------------------------------------
LEMMA GatewayInit == Llm!Init => Gateway!Init
  BY DEF Llm!Init, Gateway!Init, Llm!NoCounter, Gateway!NoCounter, Llm!Fresh,
         Gateway!Fresh

LEMMA GatewayNext == [Llm!Next]_llmVars => [Gateway!Next]_(Gateway!vars)
  <1>1. ASSUME NEW r \in Ids PROVE Llm!Step(r) => Gateway!Step(r)
    <2>1. \A k \in {"complete", "stream"} : Llm!Start(r, k) => Gateway!Start(r, k)
      BY DEF Llm!Start, Gateway!Start
    <2>2. Llm!Count(r) => Gateway!Count(r)
      BY DEF Llm!Count, Gateway!Count, Llm!Fault, Gateway!Fault, Llm!Goto,
             Gateway!Goto
    <2>3. Llm!RedisFails(r) => Gateway!RedisFails(r)
      BY DEF Llm!RedisFails, Gateway!RedisFails, Llm!Fault, Gateway!Fault, Llm!Goto,
             Gateway!Goto
    <2>4. Llm!SetExpiry(r) => Gateway!SetExpiry(r)
      BY DEF Llm!SetExpiry, Gateway!SetExpiry, Llm!Goto, Gateway!Goto
    <2>5. Llm!Check(r) => Gateway!Check(r)
      BY DEF Llm!Check, Gateway!Check, Llm!Allowed, Gateway!Allowed, Llm!Goto,
             Gateway!Goto
    <2>6. Llm!CallComplete(r) => Gateway!CallComplete(r)
      BY DEF Llm!CallComplete, Gateway!CallComplete, Llm!At, Gateway!At,
             Llm!Answers,
             Gateway!Answers, Llm!Retries, Gateway!Retries, Llm!Log, Gateway!Log
    <2>7. Llm!Retry(r) => Gateway!Retry(r)
      BY DEF Llm!Retry, Gateway!Retry, Llm!Goto, Gateway!Goto
    <2>8. Llm!Body(r) => Gateway!Body(r)
      BY DEF Llm!Body, Gateway!Body, Llm!Goto, Gateway!Goto, Llm!Log, Gateway!Log
    <2>9. Llm!CallStream(r) => Gateway!CallStream(r)
      BY DEF Llm!CallStream, Gateway!CallStream, Llm!At, Gateway!At
    <2>10. Llm!Read(r) => Gateway!Read(r)
      BY DEF Llm!Read, Gateway!Read, Llm!Parsed, Gateway!Parsed
    <2>11. Llm!StreamEnds(r) => Gateway!StreamEnds(r)
      BY DEF Llm!StreamEnds, Gateway!StreamEnds, Llm!Goto, Gateway!Goto, Llm!Log,
             Gateway!Log
    <2>12. Llm!StreamStops(r) => Gateway!StreamStops(r)
      BY DEF Llm!StreamStops, Gateway!StreamStops, Llm!Goto, Gateway!Goto
    <2> QED
      BY <2>1, <2>2, <2>3, <2>4, <2>5, <2>6, <2>7, <2>8, <2>9, <2>10, <2>11, <2>12
      DEF Llm!Step, Gateway!Step, Llm!Kinds, Gateway!Kinds
  <1>2. Llm!Next => Gateway!Next
    BY <1>1
    DEF Llm!Next, Gateway!Next, Llm!SetTenant, Gateway!SetTenant, Llm!WindowEnds,
                Gateway!WindowEnds, Llm!NoCounter, Gateway!NoCounter
  <1> QED BY <1>2 DEF Gateway!vars, llmVars

LEMMA GatewayConstants == Gateway!GatewayAssumption
  BY ServicesAssumption
  DEF ServicesAssumption, Llm!GatewayAssumption, Gateway!GatewayAssumption,
      Llm!IsFiniteSet, Gateway!IsFiniteSet

-----------------------------------------------------------------------------
(***************************************************************************)
(* OnboardingSocket: the property is inductive together with the types.    *)
(***************************************************************************)
PageInv == Page!TypeOK /\ Page!ListensToItsSession

LEMMA PageInit ==
  ASSUME Page!HookAssumption, Page!Init PROVE PageInv
  <1>1. Page!TypeOK
    <2>1. pageSocket \in [Ids -> [state : {"none", "connecting", "open", "closed"},
                                  session : Sessions \cup {NoSession}]]
      BY DEF Page!Init, Page!NoSocket
    <2>2. page \in [mounted : BOOLEAN, session : Sessions \cup {NoSession}, enabled : BOOLEAN]
      BY DEF Page!Init
    <2>3. attempts \in 0..MaxReconnectAttempts
      BY DEF Page!HookAssumption, Page!Init
    <2> QED BY <2>1, <2>2, <2>3 DEF Page!Init, Page!TypeOK
  <1>2. \A w \in Ids : pageSocket[w] = Page!NoSocket
    BY DEF Page!Init
  <1> QED BY <1>1, <1>2
          DEF PageInv, Page!Init, Page!ListensToItsSession, Page!NoSocket

(* The cleanup leaves no socket with handlers and no timer.                *)
LEMMA Detaches ==
  ASSUME PageInv PROVE \A w \in Ids : Page!Detached[w] = Page!NoSocket
  BY DEF PageInv, Page!ListensToItsSession, Page!Detached

LEMMA ConnectListens ==
  ASSUME PageInv, NEW session \in Sessions, NEW some \in SUBSET Sessions,
         Page!Connect(session, some),
         page' \in [mounted : {TRUE}, session : {session}, enabled : {TRUE}],
         UNCHANGED <<attempts, heard>>, Page!HookAssumption
  PROVE  PageInv'
  <1>1. PICK w \in Ids :
          /\ pageSocket' = [Page!Detached EXCEPT ![w] = [state |-> "connecting", session |-> session]]
          /\ wsRef' = {w}
    BY DEF Page!Connect
  <1>2. isConnected' = FALSE /\ timer' = {}
    BY DEF Page!Connect, Page!KeptTimers
  <1>3. /\ pageSocket'[w] = [state |-> "connecting", session |-> session]
        /\ \A v \in Ids \ {w} : pageSocket'[v] = Page!NoSocket
        /\ DOMAIN pageSocket' = Ids
    BY <1>1, Detaches DEF Page!Detached
  <1>4. /\ page'.mounted = TRUE /\ page'.session = session /\ page'.enabled = TRUE
        /\ session # NoSession
    BY DEF Page!HookAssumption
  <1>5. Page!Wanted(page')
    BY <1>4 DEF Page!Wanted
  <1>6. Page!TypeOK'
    <2>1. pageSocket' \in [Ids -> [state : {"none", "connecting", "open", "closed"},
                                   session : Sessions \cup {NoSession}]]
      <3>1. \A v \in Ids : pageSocket'[v] \in [state : {"none", "connecting", "open", "closed"},
                                               session : Sessions \cup {NoSession}]
        BY <1>3 DEF Page!NoSocket
      <3>2. pageSocket' = [v \in Ids |-> pageSocket'[v]]
        BY <1>1 DEF Page!Detached
      <3> QED BY <3>1, <3>2
    <2>2. page' \in [mounted : BOOLEAN, session : Sessions \cup {NoSession}, enabled : BOOLEAN]
      OBVIOUS
    <2> QED BY <1>1, <1>2, <2>1, <2>2 DEF PageInv, Page!TypeOK
  <1>7. Page!ListensToItsSession'
    <2>1. ~heard'
      BY DEF PageInv, Page!ListensToItsSession
    <2>2. \A v \in Ids : pageSocket'[v].state # "open"
      BY <1>3 DEF Page!NoSocket
    <2>3. pageSocket'[w].state = "connecting"
      BY <1>3
    <2> QED BY <1>1, <1>2, <1>3, <1>4, <1>5, <2>1, <2>2, <2>3
            DEF Page!ListensToItsSession, Page!Wanted
  <1> QED BY <1>6, <1>7 DEF PageInv

LEMMA CleanupListens ==
  ASSUME PageInv, Page!Cleanup, UNCHANGED <<attempts, heard>>,
         page' \in [mounted : BOOLEAN, session : Sessions \cup {NoSession}, enabled : BOOLEAN],
         ~(page'.mounted /\ Page!Wanted(page'))
  PROVE  PageInv'
  <1>1. /\ pageSocket' = Page!Detached
        /\ wsRef' = {} /\ isConnected' = FALSE /\ timer' = {}
    BY DEF Page!Cleanup, Page!KeptTimers
  <1>2. \A v \in Ids : pageSocket'[v] = Page!NoSocket
    BY <1>1, Detaches
  <1>3. Page!TypeOK'
    <2>1. pageSocket' \in [Ids -> [state : {"none", "connecting", "open", "closed"},
                                   session : Sessions \cup {NoSession}]]
      BY <1>1, <1>2 DEF Page!Detached, Page!NoSocket
    <2> QED BY <1>1, <2>1 DEF PageInv, Page!TypeOK
  <1>4. Page!ListensToItsSession'
    BY <1>1, <1>2 DEF PageInv, Page!ListensToItsSession, Page!NoSocket, Page!Wanted
  <1> QED BY <1>3, <1>4 DEF PageInv

LEMMA PageNext ==
  ASSUME Page!HookAssumption, PageInv, [Page!Next]_pageVars PROVE PageInv'
  <1>1. Page!TypeOK /\ Page!ListensToItsSession
    BY DEF PageInv
  <1>2. ASSUME NEW session \in Sessions \cup {NoSession}, NEW enabled \in BOOLEAN,
               Page!Show(session, enabled)
        PROVE  PageInv'
    <2> DEFINE shown == [mounted |-> TRUE, session |-> session, enabled |-> enabled]
    <2>1. /\ page' = shown /\ UNCHANGED <<attempts, heard>>
          /\ IF Page!Wanted(shown) THEN Page!Connect(session, timer) ELSE Page!Cleanup
      BY <1>2 DEF Page!Show
    <2>2. CASE Page!Wanted(shown)
      <3>1. session \in Sessions /\ enabled = TRUE
        BY <2>2 DEF Page!Wanted
      <3>2. timer \in SUBSET Sessions
        BY <1>1 DEF Page!TypeOK
      <3> QED BY <2>1, <2>2, <3>1, <3>2, ConnectListens
    <2>3. CASE ~Page!Wanted(shown)
      <3>1. page' \in [mounted : BOOLEAN, session : Sessions \cup {NoSession}, enabled : BOOLEAN]
        BY <2>1
      <3>2. ~Page!Wanted(page')
        BY <2>1, <2>3
      <3> QED BY <2>1, <2>3, <3>1, <3>2, CleanupListens
    <2> QED BY <2>2, <2>3
  <1>3. ASSUME Page!Unmount PROVE PageInv'
    <2>1. /\ page' = [page EXCEPT !.mounted = FALSE]
          /\ Page!Cleanup /\ UNCHANGED <<attempts, heard>>
      BY <1>3 DEF Page!Unmount
    <2>2. /\ page' \in [mounted : BOOLEAN, session : Sessions \cup {NoSession}, enabled : BOOLEAN]
          /\ page'.mounted = FALSE
      BY <1>1, <2>1 DEF Page!TypeOK
    <2> QED BY <2>1, <2>2, CleanupListens
  <1>4. ASSUME NEW w \in Ids, Page!Opens(w) PROVE PageInv'
    <2>1. pageSocket[w] # Page!NoSocket
      BY <1>4 DEF Page!Opens, Page!NoSocket
    <2>2. page.mounted /\ timer = {}
      BY <1>1, <1>4, <2>1 DEF Page!ListensToItsSession, Page!Opens
    <2>3. \A v \in Ids \ {w} : pageSocket[v] = Page!NoSocket
      BY <1>1, <2>1 DEF Page!ListensToItsSession
    <2>4. /\ pageSocket' = [pageSocket EXCEPT ![w].state = "open"]
          /\ isConnected' = TRUE /\ attempts' = 0
          /\ UNCHANGED <<page, wsRef, timer, heard>>
      BY <1>4, <2>2 DEF Page!Opens
    <2>5. /\ pageSocket'[w].state = "open" /\ pageSocket'[w].session = pageSocket[w].session
          /\ \A v \in Ids \ {w} : pageSocket'[v] = Page!NoSocket
      BY <1>1, <2>3, <2>4 DEF Page!TypeOK
    <2>6. Page!TypeOK'
      BY <1>1, <2>4 DEF Page!TypeOK, Page!HookAssumption
    <2>7. Page!ListensToItsSession'
      BY <1>1, <2>1, <2>2, <2>4, <2>5 DEF Page!ListensToItsSession, Page!NoSocket
    <2> QED BY <2>6, <2>7 DEF PageInv
  <1>5. ASSUME NEW w \in Ids, Page!Speaks(w) PROVE PageInv'
    <2>1. pageSocket[w] # Page!NoSocket
      BY <1>5 DEF Page!Speaks, Page!NoSocket
    <2>2. heard' = heard /\ UNCHANGED <<page, pageSocket, wsRef, isConnected, attempts, timer>>
      <3>1. pageSocket[w].session = page.session /\ ~heard
        BY <1>1, <2>1 DEF Page!ListensToItsSession
      <3>2. heard' = (heard \/ pageSocket[w].session # page.session)
        BY <1>5 DEF Page!Speaks
      <3>3. heard = FALSE
        BY <1>1, <3>1 DEF Page!TypeOK
      <3> QED BY <1>5, <3>1, <3>2, <3>3 DEF Page!Speaks
    <2> QED BY <1>1, <2>2
            DEF PageInv, Page!TypeOK, Page!ListensToItsSession, Page!Wanted
  <1>6. ASSUME NEW w \in Ids, Page!Closes(w) PROVE PageInv'
    <2>1. pageSocket[w] # Page!NoSocket
      BY <1>6 DEF Page!Closes, Page!NoSocket
    <2>2. /\ page.mounted /\ timer = {} /\ Page!Wanted(page)
          /\ pageSocket[w].session = page.session
      BY <1>1, <1>6, <2>1 DEF Page!ListensToItsSession, Page!Closes
    <2>3. \A v \in Ids \ {w} : pageSocket[v] = Page!NoSocket
      BY <1>1, <2>1 DEF Page!ListensToItsSession
    <2>4. /\ pageSocket' = [pageSocket EXCEPT ![w].state = "closed"]
          /\ isConnected' = FALSE
          /\ IF attempts < MaxReconnectAttempts
               THEN attempts' = attempts + 1 /\ timer' = {page.session}
               ELSE UNCHANGED <<attempts, timer>>
          /\ UNCHANGED <<page, wsRef, heard>>
      BY <1>6, <2>2 DEF Page!Closes
    <2>5. /\ pageSocket'[w].state = "closed" /\ pageSocket'[w].session = pageSocket[w].session
          /\ \A v \in Ids \ {w} : pageSocket'[v] = Page!NoSocket
      BY <1>1, <2>3, <2>4 DEF Page!TypeOK
    <2>6. page.session \in Sessions
      BY <1>1, <2>2 DEF Page!TypeOK, Page!Wanted
    <2>7. attempts' \in 0..MaxReconnectAttempts /\ (timer' = {} => attempts' = MaxReconnectAttempts)
      BY <1>1, <2>4 DEF Page!TypeOK, Page!HookAssumption
    <2>8. Page!TypeOK'
      <3>1. timer' \subseteq Sessions
        BY <2>2, <2>4, <2>6
      <3>2. pageSocket' \in [Ids -> [state : {"none", "connecting", "open", "closed"},
                                    session : Sessions \cup {NoSession}]]
        BY <1>1, <2>4 DEF Page!TypeOK
      <3>3. UNCHANGED <<page, wsRef, heard>> /\ isConnected' \in BOOLEAN
        BY <2>4
      <3> QED BY <1>1, <2>7, <3>1, <3>2, <3>3 DEF Page!TypeOK
    <2>9. Page!ListensToItsSession'
      <3>1. \A v \in Ids : pageSocket'[v].state \in {"none", "closed"}
        BY <2>5 DEF Page!NoSocket
      <3>2. \A v \in Ids : pageSocket'[v] # Page!NoSocket => v = w /\ wsRef' = {w}
        BY <1>1, <2>1, <2>4, <2>5 DEF Page!ListensToItsSession
      <3>3. timer' = {} \/ timer' = {page.session}
        BY <2>2, <2>4
      <3> QED BY <1>1, <2>2, <2>4, <2>5, <2>7, <3>1, <3>2, <3>3
              DEF Page!ListensToItsSession, Page!Wanted
    <2> QED BY <2>8, <2>9 DEF PageInv
  <1>7. ASSUME NEW session \in timer, Page!TimerEnds(session) PROVE PageInv'
    <2>1. /\ page.mounted /\ Page!Wanted(page) /\ session = page.session
          /\ session \in Sessions
      BY <1>1, <1>7 DEF Page!ListensToItsSession, Page!TypeOK
    <2>2. /\ Page!Connect(session, timer \ {session}) /\ UNCHANGED <<page, attempts, heard>>
      BY <1>7, <2>1 DEF Page!TimerEnds
    <2>3. page' \in [mounted : {TRUE}, session : {session}, enabled : {TRUE}]
      BY <1>1, <2>1, <2>2 DEF Page!TypeOK, Page!Wanted
    <2>4. timer \ {session} \in SUBSET Sessions
      BY <1>1 DEF Page!TypeOK
    <2> QED BY <2>1, <2>2, <2>3, <2>4, ConnectListens
  <1>8. CASE UNCHANGED pageVars
    BY <1>1, <1>8
    DEF pageVars, PageInv, Page!TypeOK, Page!ListensToItsSession, Page!Wanted
  <1> QED BY <1>2, <1>3, <1>4, <1>5, <1>6, <1>7, <1>8 DEF Page!Next

-----------------------------------------------------------------------------
(***************************************************************************)
(* SyncSchedule.  The invariant says of each job how far the one request   *)
(* that changes it alone has come: what it has still to remove are all the *)
(* schedules there are, or it has removed them and the row is the one it   *)
(* is about to schedule.  A job that several requests change is tangled.   *)
(***************************************************************************)
Gone == [here : {FALSE}, enabled : BOOLEAN, cron : Ids]
Rows == {Schedules!Unused} \cup Schedules!Existing \cup Gone
Going == [at : Schedules!Halfway, verb : {"POST", "PUT", "DELETE"}, job : Jobs,
          row : Schedules!Existing \cup {[e EXCEPT !.here = FALSE] : e \in Schedules!Existing},
          own : BOOLEAN, keys : SUBSET Ids, alone : BOOLEAN]

(* What a request that is alone with its job has done so far.              *)
HasCome(now_, j) ==
  /\ now_.at = "remove" => now_.keys = Schedules!CronsOf(j)
  /\ now_.at \in {"schedule", "delete"} => Schedules!CronsOf(j) = {}
  /\ now_.at = "schedule" => now_.verb # "DELETE" /\ now_.row.enabled
  /\ now_.verb # "DELETE" => now_.row = jobRows[j] /\ now_.row.here

JobInv(j) ==
  /\ jobRows[j] \in Rows
  /\ Schedules!UnderWay(j) = {} /\ j \notin tangled =>
       Schedules!CronsOf(j) = Schedules!Wanted(j)
  /\ jobRows[j] = Schedules!Unused => Schedules!CronsOf(j) = {}
  /\ \A r \in Schedules!UnderWay(j) :
       /\ jobRows[j] # Schedules!Unused
       /\ request_[r].alone = FALSE => j \in tangled
       /\ request_[r].alone = TRUE => Schedules!UnderWay(j) = {r} /\ HasCome(request_[r], j)

ScheduleInv ==
  /\ Schedules!TypeOK
  /\ DOMAIN request_ = MoreIds
  /\ \A j \in Jobs : JobInv(j)

LEMMA RowsAreRows ==
  /\ \A row \in Rows : /\ row \in [here : BOOLEAN, enabled : BOOLEAN, cron : Ids \cup {"none"}]
                       /\ row.here = TRUE => row \in Schedules!Existing
                       /\ row # Schedules!Unused =>
                            row \in Schedules!Existing \cup {[e EXCEPT !.here = FALSE] : e \in Schedules!Existing}
  /\ \A e \in Schedules!Existing :
       /\ e.here = TRUE /\ e \in Rows \ {Schedules!Unused}
       /\ [e EXCEPT !.here = FALSE] \in Gone
  <1>1. /\ Schedules!Unused.here = FALSE
        /\ Schedules!Unused \in [here : BOOLEAN, enabled : BOOLEAN, cron : Ids \cup {"none"}]
    BY DEF Schedules!Unused
  <1>2. \A e \in Schedules!Existing :
          /\ e \in [here : BOOLEAN, enabled : BOOLEAN, cron : Ids \cup {"none"}]
          /\ e.here = TRUE /\ [e EXCEPT !.here = FALSE] \in Gone
    BY DEF Schedules!Existing, Gone
  <1>3. \A g \in Gone :
          /\ g \in [here : BOOLEAN, enabled : BOOLEAN, cron : Ids \cup {"none"}]
          /\ g.here = FALSE
          /\ [g EXCEPT !.here = TRUE] \in Schedules!Existing
          /\ g = [[g EXCEPT !.here = TRUE] EXCEPT !.here = FALSE]
    BY DEF Schedules!Existing, Gone
  <1> QED BY <1>1, <1>2, <1>3 DEF Rows

LEMMA WantedCrons ==
  ASSUME NEW j \in Jobs, jobRows[j] \in Rows PROVE Schedules!Wanted(j) \subseteq Ids
  <1>1. CASE jobRows[j].here = TRUE
    BY <1>1, RowsAreRows DEF Schedules!Wanted, Schedules!Existing
  <1>2. CASE jobRows[j].here = FALSE
    BY <1>2 DEF Schedules!Wanted
  <1>3. jobRows[j].here \in BOOLEAN
    BY RowsAreRows
  <1> QED BY <1>1, <1>2, <1>3

LEMMA ScheduleInit ==
  ASSUME Schedules!ScheduleAssumption, Schedules!Init PROVE ScheduleInv
  <1>1. Schedules!TypeOK
    <2>1. jobRows \in [Jobs -> [here : BOOLEAN, enabled : BOOLEAN, cron : Ids \cup {"none"}]]
      <3>1. {Schedules!Unused} \cup Schedules!Existing
              \subseteq [here : BOOLEAN, enabled : BOOLEAN, cron : Ids \cup {"none"}]
        BY RowsAreRows DEF Rows
      <3> QED BY <3>1 DEF Schedules!Init
    <2>2. scheduled \subseteq Jobs \X Ids
      <3>1. \A j \in Jobs : Schedules!Wanted(j) \subseteq Ids
        BY WantedCrons DEF Schedules!Init, Rows
      <3> QED BY <3>1 DEF Schedules!Init
    <2>3. \A r \in MoreIds : request_[r] \in [at : {"idle", "done"}]
      BY DEF Schedules!Init
    <2>4. updateBinds \in BOOLEAN /\ hasRuns \subseteq Jobs /\ queue \in BOOLEAN
          /\ tangled \subseteq Jobs /\ scheduleFaults \in Nat
      BY DEF Schedules!Init
    <2> QED BY <2>1, <2>2, <2>3, <2>4 DEF Schedules!TypeOK
  <1>2. ASSUME NEW j \in Jobs PROVE JobInv(j)
    <2>1. jobRows[j] \in {Schedules!Unused} \cup Schedules!Existing
      BY DEF Schedules!Init
    <2>2. Schedules!Wanted(j) \subseteq Ids
      BY <2>1, WantedCrons DEF Rows
    <2>3. Schedules!CronsOf(j) = Schedules!Wanted(j)
      <3>1. \A c \in Ids : <<j, c>> \in scheduled <=> c \in Schedules!Wanted(j)
        <4> DEFINE Of(k) == {<<k, c>> : c \in Schedules!Wanted(k)}
        <4>1. scheduled = UNION {Of(k) : k \in Jobs}
          BY DEF Schedules!Init
        <4>2. \A k \in Jobs, c \in Ids : <<j, c>> \in Of(k) => k = j
          OBVIOUS
        <4>3. \A c \in Ids : <<j, c>> \in Of(j) <=> c \in Schedules!Wanted(j)
          OBVIOUS
        <4> HIDE DEF Of
        <4>4. \A c \in Ids : <<j, c>> \in scheduled <=> \E k \in Jobs : <<j, c>> \in Of(k)
          BY <4>1
        <4> QED BY <4>2, <4>3, <4>4
      <3> QED BY <2>2, <3>1 DEF Schedules!CronsOf
    <2>4. Schedules!UnderWay(j) = {}
      BY DEF Schedules!Init, Schedules!UnderWay, Schedules!Halfway
    <2>5. jobRows[j] = Schedules!Unused => Schedules!Wanted(j) = {}
      BY DEF Schedules!Wanted, Schedules!Unused
    <2> QED BY <2>1, <2>3, <2>4, <2>5 DEF JobInv, Rows
  <1>3. DOMAIN request_ = MoreIds
    BY DEF Schedules!Init
  <1> QED BY <1>1, <1>2, <1>3 DEF ScheduleInv

LEMMA UnderWayGoes ==
  ASSUME ScheduleInv, NEW j \in Jobs, NEW r \in Schedules!UnderWay(j)
  PROVE  request_[r] \in Going /\ r \in MoreIds /\ request_[r].job = j
  BY DEF ScheduleInv, Schedules!TypeOK, Schedules!UnderWay, Schedules!Halfway, Going

(* One request of job j goes a step on, or ends, and what it does is only  *)
(* to the row, the schedules and the history of that job.                  *)
LEMMA OneMoves ==
  ASSUME ScheduleInv, NEW j \in Jobs, NEW r \in Schedules!UnderWay(j), NEW next,
         request_' = [request_ EXCEPT ![r] = next],
         \/ next = [at |-> "done"]
         \/ next \in Going /\ next.job = j /\ next.alone = request_[r].alone,
         \A k \in Jobs \ {j} : /\ jobRows'[k] = jobRows[k]
                               /\ Schedules!CronsOf(k)' = Schedules!CronsOf(k)
                               /\ k \in tangled' <=> k \in tangled,
         jobRows'[j] \in Rows \ {Schedules!Unused},
         request_[r].alone = FALSE /\ j \in tangled => j \in tangled',
         request_[r].alone = TRUE =>
           /\ next.at = "done" /\ j \notin tangled' =>
                Schedules!CronsOf(j)' = Schedules!Wanted(j)'
           /\ next.at # "done" => HasCome(next, j)'
  PROVE  \A k \in Jobs : JobInv(k)'
  <1>1. /\ DOMAIN request_ = MoreIds /\ r \in MoreIds
        /\ request_[r].job = j /\ request_[r].at \in Schedules!Halfway
        /\ \A k \in Jobs : JobInv(k)
        /\ next.at \in Schedules!Halfway => next.job = j /\ next.alone = request_[r].alone
        /\ next.at # "done" => next.at \in Schedules!Halfway
    BY UnderWayGoes DEF ScheduleInv, Going, Schedules!Halfway
  <1>2. /\ request_'[r] = next
        /\ \A q \in MoreIds \ {r} : request_'[q] = request_[q]
    BY <1>1
  <1>3. ASSUME NEW k \in Jobs \ {j} PROVE JobInv(k)'
    <2>1. Schedules!UnderWay(k)' = Schedules!UnderWay(k) /\ r \notin Schedules!UnderWay(k)
      BY <1>1, <1>2 DEF Schedules!UnderWay
    <2>2. \A q \in Schedules!UnderWay(k) : request_'[q] = request_[q]
      BY <1>2, <2>1 DEF Schedules!UnderWay
    <2>3. Schedules!Wanted(k)' = Schedules!Wanted(k)
      BY DEF Schedules!Wanted
    <2> QED BY <1>1, <2>1, <2>2, <2>3 DEF JobInv, HasCome
  <1>4. /\ jobRows[j] # Schedules!Unused
        /\ request_[r].alone = FALSE => j \in tangled
        /\ request_[r].alone = TRUE => Schedules!UnderWay(j) = {r}
        /\ request_[r].alone \in BOOLEAN
    BY <1>1, UnderWayGoes DEF JobInv, Going
  <1>5. JobInv(j)'
    <2>1. ASSUME NEW q \in Schedules!UnderWay(j)', q # r
          PROVE  /\ request_'[q].alone = FALSE /\ j \in tangled'
                 /\ request_[r].alone = FALSE
      <3>1. q \in Schedules!UnderWay(j) /\ request_'[q] = request_[q]
        BY <1>2, <2>1 DEF Schedules!UnderWay
      <3>2. request_[r].alone = FALSE
        BY <1>4, <2>1, <3>1
      <3>3. request_[q].alone = FALSE
        <4>1. request_[q].alone \in BOOLEAN
          BY <3>1, UnderWayGoes DEF Going
        <4>2. Schedules!UnderWay(j) # {q}
          BY <2>1
        <4>3. request_[q].alone # TRUE
          BY <1>1, <3>1, <4>2 DEF JobInv
        <4> QED BY <4>1, <4>3
      <3> QED BY <1>4, <3>1, <3>2, <3>3
    <2>2. r \in Schedules!UnderWay(j)' <=> next.at # "done"
      BY <1>1, <1>2 DEF Schedules!UnderWay, Schedules!Halfway
    <2>3. ASSUME Schedules!UnderWay(j)' = {}, j \notin tangled'
          PROVE  Schedules!CronsOf(j)' = Schedules!Wanted(j)'
      <3>1. request_[r].alone = TRUE /\ next.at = "done"
        BY <1>4, <2>2, <2>3
      <3> QED BY <3>1, <2>3
    <2>4. ASSUME NEW q \in Schedules!UnderWay(j)'
          PROVE  /\ request_'[q].alone = FALSE => j \in tangled'
                 /\ request_'[q].alone = TRUE =>
                      Schedules!UnderWay(j)' = {q} /\ HasCome(request_[q], j)'
      <3>1. CASE q # r
        BY <2>1, <3>1
      <3>2. CASE q = r
        <4>1. next.at # "done" /\ request_'[q] = next /\ next.alone = request_[r].alone
          BY <1>1, <1>2, <2>2, <3>2
        <4>2. request_[r].alone = TRUE => Schedules!UnderWay(j)' = {r}
          BY <2>1, <2>2, <4>1
        <4> QED BY <1>4, <3>2, <4>1, <4>2 DEF HasCome
      <3> QED BY <3>1, <3>2
    <2> QED BY <2>3, <2>4 DEF JobInv, HasCome
  <1> QED BY <1>3, <1>5

(* A request begins to change job j.                                       *)
LEMMA OneBegins ==
  ASSUME ScheduleInv, NEW j \in Jobs, NEW r \in MoreIds, request_[r].at = "idle",
         NEW point \in Schedules!Halfway, NEW verb, NEW row, NEW own,
         Schedules!Begin(r, j, point, verb, row, own), UNCHANGED scheduled,
         \A k \in Jobs \ {j} : jobRows'[k] = jobRows[k],
         jobRows'[j] \in Rows \ {Schedules!Unused},
         point # "remove",
         point \in {"schedule", "delete"} => Schedules!CronsOf(j) = {},
         point = "schedule" => verb # "DELETE" /\ row.enabled,
         verb # "DELETE" => row = jobRows'[j] /\ row.here
  PROVE  \A k \in Jobs : JobInv(k)'
  <1> DEFINE u == Schedules!UnderWay(j) = {}
             new == [at |-> point, verb |-> verb, job |-> j, row |-> row, own |-> own,
                     keys |-> {}, alone |-> u]
  <1>1. /\ request_'[r] = new
        /\ \A q \in Schedules!UnderWay(j) : request_'[q] = [request_[q] EXCEPT !.alone = FALSE]
        /\ \A q \in MoreIds \ ({r} \cup Schedules!UnderWay(j)) : request_'[q] = request_[q]
        /\ r \notin Schedules!UnderWay(j)
    <2>1. r \notin Schedules!UnderWay(j)
      BY DEF Schedules!UnderWay, Schedules!Halfway
    <2>2. Schedules!UnderWay(j) \subseteq MoreIds
      BY DEF Schedules!UnderWay
    <2> QED BY <2>1, <2>2 DEF Schedules!Begin
  <1>2. /\ tangled' = IF Schedules!UnderWay(j) = {} THEN tangled ELSE tangled \cup {j}
        /\ \A k \in Jobs : Schedules!CronsOf(k)' = Schedules!CronsOf(k)
    BY DEF Schedules!Begin, Schedules!CronsOf
  <1>3. \A q \in Schedules!UnderWay(j) :
          /\ request_'[q].at = request_[q].at /\ request_'[q].job = j
          /\ request_'[q].alone = FALSE
    <2> SUFFICES ASSUME NEW q \in Schedules!UnderWay(j)
                 PROVE  /\ request_'[q].at = request_[q].at /\ request_'[q].job = j
                        /\ request_'[q].alone = FALSE
      OBVIOUS
    <2>1. request_[q] \in Going /\ request_[q].job = j
      BY UnderWayGoes
    <2>2. request_'[q] = [request_[q] EXCEPT !.alone = FALSE]
      BY <1>1
    <2> QED BY <2>1, <2>2 DEF Going
  <1>4. \A k \in Jobs : JobInv(k)
    BY DEF ScheduleInv
  <1>5. ASSUME NEW k \in Jobs \ {j} PROVE JobInv(k)'
    <2>1. \A q \in Schedules!UnderWay(k) :
            q # r /\ q \notin Schedules!UnderWay(j)
      BY DEF Schedules!UnderWay, Schedules!Halfway
    <2>2. Schedules!UnderWay(k)' = Schedules!UnderWay(k)
      <3>1. \A q \in MoreIds : q \in Schedules!UnderWay(k)' <=> q \in Schedules!UnderWay(k)
        <4> SUFFICES ASSUME NEW q \in MoreIds
                     PROVE  q \in Schedules!UnderWay(k)' <=> q \in Schedules!UnderWay(k)
          OBVIOUS
        <4>1. CASE q = r
          BY <1>1, <2>1, <4>1 DEF Schedules!UnderWay
        <4>2. CASE q \in Schedules!UnderWay(j)
          BY <1>3, <2>1, <4>2 DEF Schedules!UnderWay
        <4>3. CASE q # r /\ q \notin Schedules!UnderWay(j)
          BY <1>1, <4>3 DEF Schedules!UnderWay
        <4> QED BY <4>1, <4>2, <4>3
      <3> QED BY <3>1 DEF Schedules!UnderWay
    <2>3. \A q \in Schedules!UnderWay(k) : request_'[q] = request_[q]
      BY <1>1, <2>1 DEF Schedules!UnderWay
    <2>4. Schedules!Wanted(k)' = Schedules!Wanted(k) /\ (k \in tangled' <=> k \in tangled)
      BY <1>2 DEF Schedules!Wanted
    <2> QED BY <1>2, <1>4, <2>2, <2>3, <2>4 DEF JobInv, HasCome
  <1>6. Schedules!UnderWay(j)' = Schedules!UnderWay(j) \cup {r}
    <2>1. \A q \in MoreIds : q \in Schedules!UnderWay(j)' <=> q \in Schedules!UnderWay(j) \cup {r}
      <3> SUFFICES ASSUME NEW q \in MoreIds
                   PROVE  q \in Schedules!UnderWay(j)' <=> q \in Schedules!UnderWay(j) \cup {r}
        OBVIOUS
      <3>1. CASE q = r
        BY <1>1, <3>1 DEF Schedules!UnderWay
      <3>2. CASE q \in Schedules!UnderWay(j)
        BY <1>3, <3>2 DEF Schedules!UnderWay
      <3>3. CASE q # r /\ q \notin Schedules!UnderWay(j)
        BY <1>1, <3>3 DEF Schedules!UnderWay
      <3> QED BY <3>1, <3>2, <3>3
    <2> QED BY <2>1 DEF Schedules!UnderWay
  <1>7. JobInv(j)'
    <2>5. request_'[r].alone = (Schedules!UnderWay(j) = {})
      <3>1. new.alone = u
        <4> HIDE DEF u
        <4> QED OBVIOUS
      <3> QED BY <1>1, <3>1, Zenon
    <2>1. request_'[r].alone = FALSE => j \in tangled'
      <3>1. request_'[r].alone = FALSE => Schedules!UnderWay(j) # {}
        BY <2>5, Zenon
      <3> QED BY <1>2, <3>1
    <2>2. request_'[r].alone = TRUE => Schedules!UnderWay(j) = {}
      BY <2>5, Zenon
    <2>3. HasCome(request_[r], j)'
      BY <1>1, <1>2 DEF HasCome
    <2>4. \A q \in Schedules!UnderWay(j) : request_'[q].alone = FALSE /\ j \in tangled'
      BY <1>2, <1>3
    <2> QED BY <1>6, <2>1, <2>2, <2>3, <2>4 DEF JobInv, HasCome
  <1> QED BY <1>5, <1>7

(* What no step touches stays as the invariant says.                       *)
LEMMA JobStays ==
  ASSUME NEW k \in Jobs, JobInv(k), Schedules!UnderWay(k)' = Schedules!UnderWay(k),
         \A q \in Schedules!UnderWay(k) : request_'[q] = request_[q],
         Schedules!CronsOf(k)' = Schedules!CronsOf(k), jobRows'[k] = jobRows[k],
         k \in tangled' <=> k \in tangled
  PROVE  JobInv(k)'
  <1>1. Schedules!Wanted(k)' = Schedules!Wanted(k)
    BY DEF Schedules!Wanted
  <1> QED BY <1>1 DEF JobInv, HasCome

(* A request that has done nothing yet ends.                               *)
LEMMA IdleEnds ==
  ASSUME ScheduleInv, NEW r \in MoreIds, request_[r].at = "idle",
         request_' = [request_ EXCEPT ![r] = [at |-> "done"]], NEW k \in Jobs
  PROVE  /\ Schedules!UnderWay(k)' = Schedules!UnderWay(k)
         /\ \A q \in Schedules!UnderWay(k) : request_'[q] = request_[q]
  <1>1. r \notin Schedules!UnderWay(k)
    BY DEF Schedules!UnderWay, Schedules!Halfway
  <1>2. request_'[r] = [at |-> "done"] /\ \A q \in MoreIds \ {r} : request_'[q] = request_[q]
    BY DEF ScheduleInv
  <1>3. "done" \notin Schedules!Halfway
    BY DEF Schedules!Halfway
  <1>4. \A q \in MoreIds : q \in Schedules!UnderWay(k)' <=> q \in Schedules!UnderWay(k)
    BY <1>1, <1>2, <1>3 DEF Schedules!UnderWay
  <1>5. Schedules!UnderWay(k)' = Schedules!UnderWay(k)
    BY <1>4 DEF Schedules!UnderWay
  <1> QED BY <1>1, <1>2, <1>5 DEF Schedules!UnderWay

Typed(some) == some \in [at : {"idle", "done"}] \/ some \in Going

RequestsTyped == DOMAIN request_ = MoreIds /\ \A r \in MoreIds : Typed(request_[r])

LEMMA TypesSay ==
  /\ ScheduleInv => RequestsTyped
  /\ Schedules!TypeOK <=>
       /\ updateBinds \in BOOLEAN
       /\ jobRows \in [Jobs -> [here : BOOLEAN, enabled : BOOLEAN, cron : Ids \cup {"none"}]]
       /\ hasRuns \subseteq Jobs
       /\ scheduled \subseteq Jobs \X Ids
       /\ queue \in BOOLEAN
       /\ \A r \in MoreIds : Typed(request_[r])
       /\ tangled \subseteq Jobs
       /\ scheduleFaults \in Nat
  BY DEF Schedules!TypeOK, ScheduleInv, RequestsTyped, Typed, Going

LEMMA BeginTyped ==
  ASSUME ScheduleInv, NEW j \in Jobs, NEW r \in MoreIds, NEW point \in Schedules!Halfway,
         NEW verb \in {"POST", "PUT", "DELETE"}, NEW row \in Rows \ {Schedules!Unused},
         NEW own \in BOOLEAN, Schedules!Begin(r, j, point, verb, row, own)
  PROVE  RequestsTyped' /\ tangled' \subseteq Jobs
  <1> DEFINE u == Schedules!UnderWay(j) = {}
             new == [at |-> point, verb |-> verb, job |-> j, row |-> row, own |-> own,
                     keys |-> {}, alone |-> u]
  <1>1. request_' = [q \in MoreIds |->
          IF q = r THEN new
          ELSE IF q \in Schedules!UnderWay(j) THEN [request_[q] EXCEPT !.alone = FALSE]
          ELSE request_[q]]
    BY DEF Schedules!Begin
  <1>2. new \in Going
    <2>1. u \in BOOLEAN
      OBVIOUS
    <2>2. row \in Schedules!Existing \cup {[e EXCEPT !.here = FALSE] : e \in Schedules!Existing}
      BY RowsAreRows
    <2> HIDE DEF u
    <2> QED BY <2>1, <2>2 DEF Going
  <1>3. \A q \in Schedules!UnderWay(j) : [request_[q] EXCEPT !.alone = FALSE] \in Going
    <2> SUFFICES ASSUME NEW q \in Schedules!UnderWay(j)
                 PROVE  [request_[q] EXCEPT !.alone = FALSE] \in Going
      OBVIOUS
    <2>1. request_[q] \in Going
      BY UnderWayGoes
    <2> QED BY <2>1 DEF Going
  <1>4. \A q \in MoreIds : Typed(request_[q])
    BY TypesSay DEF RequestsTyped
  <1> HIDE DEF new
  <1>5. RequestsTyped'
    BY <1>1, <1>2, <1>3, <1>4 DEF RequestsTyped, Typed
  <1>6. tangled' \subseteq Jobs
    BY DEF Schedules!Begin, ScheduleInv, Schedules!TypeOK
  <1> QED BY <1>5, <1>6

LEMMA ChangeTyped ==
  ASSUME ScheduleInv, NEW r \in MoreIds, NEW next, Typed(next),
         request_' = [request_ EXCEPT ![r] = next]
  PROVE  RequestsTyped'
  BY TypesSay DEF RequestsTyped

LEMMA Concluded ==
  ASSUME RequestsTyped', \A k \in Jobs : JobInv(k)', updateBinds' \in BOOLEAN,
         jobRows' \in [Jobs -> [here : BOOLEAN, enabled : BOOLEAN, cron : Ids \cup {"none"}]],
         hasRuns' \subseteq Jobs, scheduled' \subseteq Jobs \X Ids, queue' \in BOOLEAN,
         tangled' \subseteq Jobs, scheduleFaults' \in Nat
  PROVE  ScheduleInv'
  BY DEF ScheduleInv, Schedules!TypeOK, RequestsTyped, Typed, Going

(* The requests.                                                           *)
LEMMA BeginKeeps ==
  ASSUME Schedules!ScheduleAssumption, ScheduleInv, NEW j \in Jobs, NEW r \in MoreIds,
         \/ \E row \in Schedules!Existing : Schedules!Post(r, j, row) \/ Schedules!Put(r, j, row)
         \/ \E own \in BOOLEAN : Schedules!Delete(r, j, own)
  PROVE  ScheduleInv'
  <1>1. Schedules!TypeOK /\ RequestsTyped /\ \A k \in Jobs : JobInv(k)
    BY TypesSay DEF ScheduleInv
  <1>2. ASSUME NEW row \in Schedules!Existing, jobRows' = [jobRows EXCEPT ![j] = row]
        PROVE  /\ jobRows' \in [Jobs -> [here : BOOLEAN, enabled : BOOLEAN, cron : Ids \cup {"none"}]]
               /\ jobRows'[j] = row /\ row \in Rows \ {Schedules!Unused} /\ row.here = TRUE
               /\ \A k \in Jobs \ {j} : jobRows'[k] = jobRows[k]
    <2>1. /\ row \in Rows \ {Schedules!Unused} /\ row.here = TRUE
          /\ row \in [here : BOOLEAN, enabled : BOOLEAN, cron : Ids \cup {"none"}]
      BY RowsAreRows DEF Rows
    <2> QED BY <1>1, <1>2, <2>1, TypesSay
  <1>3. ASSUME NEW row \in Schedules!Existing, Schedules!Post(r, j, row) PROVE ScheduleInv'
    <2>1. /\ request_[r].at = "idle" /\ jobRows[j] = Schedules!Unused
          /\ jobRows' = [jobRows EXCEPT ![j] = row]
          /\ UNCHANGED <<updateBinds, hasRuns, scheduled, queue, scheduleFaults>>
          /\ IF row.enabled THEN Schedules!Begin(r, j, "schedule", "POST", row, TRUE)
                            ELSE Schedules!FailWith(r, {})
      BY <1>3 DEF Schedules!Post
    <2>2. Schedules!CronsOf(j) = {} /\ Schedules!UnderWay(j) = {}
      BY <1>1, <2>1 DEF JobInv
    <2>3. CASE row.enabled
      <3>1. Schedules!Begin(r, j, "schedule", "POST", row, TRUE) /\ "schedule" \in Schedules!Halfway
        BY <2>1, <2>3 DEF Schedules!Halfway
      <3>2. \A k \in Jobs : JobInv(k)'
        BY <1>2, <2>1, <2>2, <2>3, <3>1, OneBegins
      <3>3. RequestsTyped' /\ tangled' \subseteq Jobs
        BY <1>2, <2>1, <3>1, BeginTyped
      <3> QED BY <1>1, <1>2, <2>1, <3>2, <3>3, TypesSay, Concluded
    <2>4. CASE ~row.enabled
      <3>1. request_' = [request_ EXCEPT ![r] = [at |-> "done"]] /\ tangled' = tangled
        BY <2>1, <2>4 DEF Schedules!FailWith
      <3>2. \A k \in Jobs : Schedules!CronsOf(k)' = Schedules!CronsOf(k)
        BY <2>1 DEF Schedules!CronsOf
      <3>3. \A k \in Jobs \ {j} : JobInv(k)'
        BY <1>1, <1>2, <2>1, <3>1, <3>2, IdleEnds, JobStays
      <3>4. JobInv(j)'
        <4>1. Schedules!UnderWay(j)' = {}
          BY <2>1, <2>2, <3>1, IdleEnds
        <4>2. Schedules!Wanted(j)' = {}
          BY <1>2, <2>1, <2>4 DEF Schedules!Wanted
        <4> QED BY <1>2, <2>1, <2>2, <3>2, <4>1, <4>2 DEF JobInv
      <3>5. RequestsTyped'
        BY <3>1, ChangeTyped DEF Typed
      <3> QED BY <1>1, <1>2, <2>1, <3>1, <3>3, <3>4, <3>5, TypesSay, Concluded
    <2> QED BY <2>3, <2>4
  <1>4. ASSUME NEW row \in Schedules!Existing, Schedules!Put(r, j, row) PROVE ScheduleInv'
    <2>1. /\ request_[r].at = "idle"
          /\ jobRows' = [jobRows EXCEPT ![j] = row]
          /\ UNCHANGED <<updateBinds, hasRuns, scheduled, queue, scheduleFaults>>
          /\ Schedules!Begin(r, j, "list", "PUT", row, TRUE) /\ "list" \in Schedules!Halfway
      BY <1>4 DEF Schedules!Put, Schedules!Halfway
    <2>2. \A k \in Jobs : JobInv(k)'
      BY <1>2, <2>1, OneBegins
    <2>3. RequestsTyped' /\ tangled' \subseteq Jobs
      BY <1>2, <2>1, BeginTyped
    <2> QED BY <1>1, <1>2, <2>1, <2>2, <2>3, TypesSay, Concluded
  <1>5. ASSUME NEW own \in BOOLEAN, Schedules!Delete(r, j, own) PROVE ScheduleInv'
    <2>1. /\ request_[r].at = "idle" /\ jobRows[j] # Schedules!Unused
          /\ UNCHANGED <<updateBinds, jobRows, hasRuns, scheduled, queue, scheduleFaults>>
          /\ Schedules!Begin(r, j, "list", "DELETE", jobRows[j], own)
          /\ "list" \in Schedules!Halfway
      BY <1>5 DEF Schedules!Delete, Schedules!Halfway
    <2>2. jobRows[j] \in Rows \ {Schedules!Unused}
      BY <1>1, <2>1 DEF JobInv
    <2>3. \A k \in Jobs : JobInv(k)'
      BY <2>1, <2>2, OneBegins
    <2>4. RequestsTyped' /\ tangled' \subseteq Jobs
      BY <2>1, <2>2, BeginTyped
    <2> QED BY <1>1, <2>1, <2>3, <2>4, TypesSay, Concluded
  <1> QED BY <1>3, <1>4, <1>5

LEMMA HalfwayKeeps ==
  ASSUME Schedules!ScheduleAssumption, ScheduleInv, NEW r \in MoreIds,
         \/ Schedules!List(r)
         \/ Schedules!Remove(r)
         \/ Schedules!Removed(r)
         \/ Schedules!Schedule(r)
         \/ Schedules!DeleteRow(r)
         \/ Schedules!Fails(r) /\ request_[r].at \in Schedules!Halfway
  PROVE  ScheduleInv'
  <1> DEFINE now_ == request_[r]
  <1>1. Schedules!TypeOK /\ RequestsTyped /\ \A k \in Jobs : JobInv(k)
    BY TypesSay DEF ScheduleInv
  <1>2. now_.at \in Schedules!Halfway
    BY DEF Schedules!List, Schedules!Remove, Schedules!Removed, Schedules!Schedule,
           Schedules!DeleteRow, Schedules!Halfway
  <1>15. now_ \in Going /\ now_.job \in Jobs
    BY <1>1, <1>2 DEF RequestsTyped, Typed, Going, Schedules!Halfway
  <1>16. PICK j \in Jobs : j = now_.job
    BY <1>15
  <1>3. now_ \in Going /\ now_.job = j
    BY <1>15, <1>16
  <1>4. r \in Schedules!UnderWay(j)
    BY <1>2, <1>3 DEF Schedules!UnderWay
  <1>5. /\ jobRows[j] \in Rows /\ jobRows[j] # Schedules!Unused
        /\ now_.alone = FALSE => j \in tangled
        /\ now_.alone = TRUE => HasCome(now_, j)
    BY <1>1, <1>3, <1>4 DEF JobInv
  <1>6. DOMAIN request_ = MoreIds /\ now_.alone \in BOOLEAN
    BY <1>1, <1>3 DEF RequestsTyped, Going
  <1>7. ASSUME UNCHANGED scheduled
        PROVE  \A k \in Jobs : Schedules!CronsOf(k)' = Schedules!CronsOf(k)
    BY <1>7 DEF Schedules!CronsOf
  <1>8. Typed([at |-> "done"])
    BY DEF Typed
  <1>9. CASE Schedules!List(r)
    <2>0. PICK next : next = [now_ EXCEPT !.at = "remove", !.keys = Schedules!CronsOf(j)]
      OBVIOUS
    <2>1. /\ request_' = [request_ EXCEPT ![r] = next]
          /\ UNCHANGED <<updateBinds, jobRows, hasRuns, scheduled, queue, tangled, scheduleFaults>>
      BY <1>6, <1>9, <1>3, <2>0 DEF Schedules!List
    <2>2. /\ next \in Going /\ next.job = j /\ next.alone = now_.alone
          /\ next.at = "remove" /\ next.keys = Schedules!CronsOf(j)
          /\ next.verb = now_.verb /\ next.row = now_.row
      BY <1>3, <2>0 DEF Going, Schedules!Halfway, Schedules!CronsOf
    <2>3. now_.alone = TRUE => HasCome(next, j)'
      BY <1>5, <1>7, <1>3, <2>1, <2>2 DEF HasCome
    <2>4. \A k \in Jobs : JobInv(k)'
      BY <1>3, <1>4, <1>5, <1>7, <2>1, <2>2, <2>3, OneMoves
    <2>5. RequestsTyped'
      BY <2>1, <2>2, ChangeTyped DEF Typed
    <2> QED BY <1>1, <2>1, <2>4, <2>5, TypesSay, Concluded
  <1>10. CASE Schedules!Remove(r)
    <2>1. PICK c \in now_.keys :
            /\ scheduled' = scheduled \ {<<j, c>>}
            /\ request_' = [request_ EXCEPT ![r] = [now_ EXCEPT !.keys = @ \ {c}]]
      BY <1>6, <1>10, <1>3 DEF Schedules!Remove, Schedules!KeysToRemove
    <2>2. /\ UNCHANGED <<updateBinds, jobRows, hasRuns, queue, tangled, scheduleFaults>>
          /\ now_.at = "remove"
      BY <1>10 DEF Schedules!Remove
    <2>0. PICK next : next = [now_ EXCEPT !.keys = @ \ {c}]
      OBVIOUS
    <2>3. /\ next \in Going /\ next.job = j /\ next.alone = now_.alone
          /\ next.at = "remove" /\ next.keys = now_.keys \ {c}
          /\ next.verb = now_.verb /\ next.row = now_.row
      BY <1>3, <2>2, <2>0 DEF Going
    <2>4. request_' = [request_ EXCEPT ![r] = next]
      BY <2>1, <2>0
    <2>5. /\ Schedules!CronsOf(j)' = Schedules!CronsOf(j) \ {c}
          /\ \A k \in Jobs \ {j} : Schedules!CronsOf(k)' = Schedules!CronsOf(k)
      BY <2>1 DEF Schedules!CronsOf
    <2>6. now_.alone = TRUE => HasCome(next, j)'
      BY <1>3, <1>5, <2>2, <2>3, <2>5 DEF HasCome
    <2>7. \A k \in Jobs : JobInv(k)'
      BY <1>3, <1>4, <1>5, <2>2, <2>3, <2>4, <2>5, <2>6, OneMoves
    <2>8. RequestsTyped'
      BY <2>3, <2>4, ChangeTyped DEF Typed
    <2>9. scheduled' \subseteq Jobs \X Ids
      BY <1>1, <2>1, TypesSay
    <2> QED BY <1>1, <2>2, <2>7, <2>8, <2>9, TypesSay, Concluded
  <1>11. CASE Schedules!Removed(r)
    <2>1. /\ now_.at = "remove" /\ now_.keys = {}
          /\ UNCHANGED <<updateBinds, jobRows, hasRuns, scheduled, queue, scheduleFaults>>
      BY <1>11 DEF Schedules!Removed, Schedules!KeysToRemove
    <2>2. now_.alone = TRUE => Schedules!CronsOf(j) = {}
      BY <1>5, <2>1 DEF HasCome
    <2>3. CASE now_.verb = "PUT" /\ ~now_.row.enabled
      <3>1. /\ request_' = [request_ EXCEPT ![r] = [at |-> "done"]]
            /\ tangled' = IF now_.alone THEN tangled \ {j} ELSE tangled
        BY <1>11, <2>3, <1>3 DEF Schedules!Removed, Schedules!Succeed
      <3>2. now_.alone = TRUE => Schedules!Wanted(j)' = {}
        BY <1>3, <1>5, <2>1, <2>3 DEF HasCome, Schedules!Wanted
      <3>3. \A k \in Jobs : JobInv(k)'
        <4>1. /\ \A k \in Jobs \ {j} : k \in tangled' <=> k \in tangled
              /\ now_.alone = FALSE => tangled' = tangled
          BY <3>1
        <4>2. now_.alone = TRUE => Schedules!CronsOf(j)' = Schedules!Wanted(j)'
          BY <1>7, <2>1, <2>2, <3>2
        <4>3. [at |-> "done"].at = "done"
          OBVIOUS
        <4> QED BY <1>4, <1>5, <1>7, <2>1, <3>1, <4>1, <4>2, <4>3, OneMoves
      <3>4. RequestsTyped' /\ tangled' \subseteq Jobs
        BY <1>1, <1>8, <3>1, ChangeTyped, TypesSay
      <3> QED BY <1>1, <2>1, <3>3, <3>4, TypesSay, Concluded
    <2>4. CASE ~(now_.verb = "PUT" /\ ~now_.row.enabled)
      <3>0. PICK next : next = [now_ EXCEPT !.at = IF now_.verb = "PUT" THEN "schedule" ELSE "delete"]
        OBVIOUS
      <3>1. request_' = [request_ EXCEPT ![r] = next] /\ UNCHANGED tangled
        BY <1>6, <1>11, <2>4, <3>0 DEF Schedules!Removed
      <3>2. /\ next \in Going /\ next.job = j /\ next.alone = now_.alone
            /\ next.at = IF now_.verb = "PUT" THEN "schedule" ELSE "delete"
            /\ next.verb = now_.verb /\ next.row = now_.row
        BY <1>3, <3>0 DEF Going, Schedules!Halfway
      <3>3. now_.alone = TRUE => HasCome(next, j)'
        BY <1>5, <1>7, <1>3, <2>1, <2>2, <2>4, <3>2 DEF HasCome
      <3>4. \A k \in Jobs : JobInv(k)'
        BY <1>3, <1>4, <1>5, <1>7, <2>1, <3>1, <3>2, <3>3, OneMoves
      <3>5. RequestsTyped'
        BY <3>1, <3>2, ChangeTyped DEF Typed
      <3> QED BY <1>1, <2>1, <3>1, <3>4, <3>5, TypesSay, Concluded
    <2> QED BY <2>3, <2>4
  <1>12. CASE Schedules!Schedule(r)
    <2>1. /\ now_.at = "schedule"
          /\ scheduled' = scheduled \cup {<<j, now_.row.cron>>}
          /\ request_' = [request_ EXCEPT ![r] = [at |-> "done"]]
          /\ tangled' = IF now_.alone THEN tangled \ {j} ELSE tangled
          /\ UNCHANGED <<updateBinds, jobRows, hasRuns, queue, scheduleFaults>>
      BY <1>12, <1>3 DEF Schedules!Schedule, Schedules!Succeed
    <2>2. now_.row.cron \in Ids
      BY <1>3 DEF Going, Schedules!Existing
    <2>3. /\ Schedules!CronsOf(j)' = Schedules!CronsOf(j) \cup {now_.row.cron}
          /\ \A k \in Jobs \ {j} : Schedules!CronsOf(k)' = Schedules!CronsOf(k)
      BY <2>1, <2>2 DEF Schedules!CronsOf
    <2>4. now_.alone = TRUE => Schedules!CronsOf(j)' = Schedules!Wanted(j)'
      <3>1. SUFFICES ASSUME now_.alone = TRUE
                     PROVE  Schedules!CronsOf(j)' = Schedules!Wanted(j)'
        OBVIOUS
      <3>2. /\ Schedules!CronsOf(j) = {} /\ now_.row.enabled /\ now_.row.here
            /\ now_.row = jobRows[j]
        BY <1>5, <2>1, <3>1 DEF HasCome
      <3>3. Schedules!Wanted(j)' = {now_.row.cron}
        BY <1>3, <2>1, <3>2 DEF Schedules!Wanted
      <3> QED BY <2>3, <3>2, <3>3
    <2>5. \A k \in Jobs : JobInv(k)'
      BY <1>3, <1>4, <1>5, <2>1, <2>3, <2>4, OneMoves
    <2>6. RequestsTyped' /\ tangled' \subseteq Jobs
      BY <1>1, <1>8, <2>1, ChangeTyped, TypesSay
    <2>7. scheduled' \subseteq Jobs \X Ids
      BY <1>1, <1>3, <2>1, <2>2, TypesSay
    <2> QED BY <1>1, <2>1, <2>5, <2>6, <2>7, TypesSay, Concluded
  <1>13. CASE Schedules!DeleteRow(r)
    <2>1. /\ now_.at = "delete"
          /\ UNCHANGED <<updateBinds, hasRuns, scheduled, queue, scheduleFaults>>
          /\ request_' = [request_ EXCEPT ![r] = [at |-> "done"]]
      BY <1>13 DEF Schedules!DeleteRow, Schedules!Succeed, Schedules!FailWith
    <2>2. now_.alone = TRUE => Schedules!CronsOf(j) = {}
      BY <1>5, <2>1 DEF HasCome
    <2>3. CASE now_.own /\ jobRows[j].here /\ j \notin hasRuns
      <3>1. /\ jobRows' = [jobRows EXCEPT ![j].here = FALSE]
            /\ tangled' = IF now_.alone THEN tangled \ {j} ELSE tangled
        BY <1>13, <2>3, <1>3 DEF Schedules!DeleteRow, Schedules!Succeed
      <3>2. jobRows[j] \in Schedules!Existing
        BY <1>5, <2>3, RowsAreRows
      <3> DEFINE gone == [jobRows[j] EXCEPT !.here = FALSE]
      <3>3. /\ gone \in Gone /\ gone # Schedules!Unused /\ gone.here = FALSE
            /\ gone \in [here : BOOLEAN, enabled : BOOLEAN, cron : Ids \cup {"none"}]
        BY <3>2, "none" \notin Ids
        DEF Schedules!Existing, Schedules!Unused, Gone, Schedules!ScheduleAssumption
      <3>4. jobRows' = [jobRows EXCEPT ![j] = gone]
        BY <1>1, <1>3, <3>1, TypesSay
      <3> HIDE DEF gone
      <3>5. /\ jobRows' \in [Jobs -> [here : BOOLEAN, enabled : BOOLEAN, cron : Ids \cup {"none"}]]
            /\ jobRows'[j] = gone /\ \A k \in Jobs \ {j} : jobRows'[k] = jobRows[k]
        BY <1>1, <1>3, <3>3, <3>4, TypesSay
      <3>6. Schedules!Wanted(j)' = {} /\ jobRows'[j] \in Rows \ {Schedules!Unused}
        BY <3>3, <3>5 DEF Schedules!Wanted, Rows
      <3>7. \A k \in Jobs : JobInv(k)'
        <4>1. /\ \A k \in Jobs \ {j} : k \in tangled' <=> k \in tangled
              /\ now_.alone = FALSE => tangled' = tangled
          BY <3>1
        <4>2. now_.alone = TRUE => Schedules!CronsOf(j)' = Schedules!Wanted(j)'
          BY <1>7, <2>1, <2>2, <3>6
        <4>3. [at |-> "done"].at = "done"
          OBVIOUS
        <4> QED BY <1>4, <1>5, <1>7, <2>1, <3>5, <3>6, <4>1, <4>2, <4>3, OneMoves
      <3>8. RequestsTyped' /\ tangled' \subseteq Jobs
        BY <1>1, <1>8, <2>1, <3>1, ChangeTyped, TypesSay
      <3> QED BY <1>1, <2>1, <3>5, <3>7, <3>8, TypesSay, Concluded
    <2>4. CASE ~(now_.own /\ jobRows[j].here /\ j \notin hasRuns)
      <3>1. /\ UNCHANGED jobRows
            /\ tangled' = tangled \cup (IF jobRows[j].here THEN {j} ELSE {})
        BY <1>13, <2>4, <1>3 DEF Schedules!DeleteRow, Schedules!FailWith
      <3>2. now_.alone = TRUE /\ j \notin tangled' => Schedules!CronsOf(j)' = Schedules!Wanted(j)'
        BY <1>3, <1>7, <2>1, <2>2, <3>1 DEF Schedules!Wanted
      <3>3. \A k \in Jobs : JobInv(k)'
        BY <1>3, <1>4, <1>5, <1>7, <2>1, <3>1, <3>2, OneMoves
      <3>4. RequestsTyped' /\ tangled' \subseteq Jobs
        BY <1>1, <1>3, <1>8, <2>1, <3>1, ChangeTyped, TypesSay
      <3> QED BY <1>1, <2>1, <3>1, <3>3, <3>4, TypesSay, Concluded
    <2> QED BY <2>3, <2>4
  <1>14. CASE Schedules!Fails(r)
    <2>1. /\ request_' = [request_ EXCEPT ![r] = [at |-> "done"]]
          /\ tangled' = tangled \cup {j}
          /\ UNCHANGED <<updateBinds, jobRows, hasRuns, scheduled, queue>>
      BY <1>14, <1>3 DEF Schedules!Fails, Schedules!FailWith
    <2>2. scheduleFaults' \in Nat
      BY <1>1, <1>14, TypesSay DEF Schedules!Fails, Schedules!Fault
    <2>3. \A k \in Jobs : JobInv(k)'
      BY <1>3, <1>4, <1>5, <1>7, <2>1, OneMoves
    <2>4. RequestsTyped' /\ tangled' \subseteq Jobs
      BY <1>1, <1>3, <1>8, <2>1, ChangeTyped, TypesSay
    <2> QED BY <1>1, <2>1, <2>2, <2>3, <2>4, TypesSay, Concluded
  <1> QED BY <1>9, <1>10, <1>11, <1>12, <1>13, <1>14

LEMMA ScheduleNext ==
  ASSUME Schedules!ScheduleAssumption, ScheduleInv,
         [Schedules!Next]_scheduleVars
  PROVE  ScheduleInv'
  <1>1. Schedules!TypeOK /\ RequestsTyped /\ \A k \in Jobs : JobInv(k)
    BY TypesSay DEF ScheduleInv
  <1>2. ASSUME UNCHANGED <<jobRows, scheduled, request_, tangled>>
        PROVE  (\A k \in Jobs : JobInv(k)') /\ RequestsTyped'
    <2>1. \A k \in Jobs : /\ Schedules!UnderWay(k)' = Schedules!UnderWay(k)
                          /\ Schedules!CronsOf(k)' = Schedules!CronsOf(k)
      BY <1>2 DEF Schedules!UnderWay, Schedules!CronsOf
    <2> QED BY <1>1, <1>2, <2>1, JobStays DEF RequestsTyped
  <1>3. CASE \/ Schedules!Initialize
             \/ Schedules!Shutdown
             \/ \E j \in Jobs : Schedules!Run(j)
             \/ UNCHANGED scheduleVars
    <2>1. /\ UNCHANGED <<updateBinds, jobRows, scheduled, request_, tangled>>
          /\ hasRuns' \subseteq Jobs /\ queue' \in BOOLEAN /\ scheduleFaults' \in Nat
      <3>1. CASE Schedules!Initialize
        BY <1>1, <3>1, TypesSay DEF Schedules!Initialize
      <3>4. CASE Schedules!Shutdown
        <4>1. scheduleFaults \in Nat /\ hasRuns \subseteq Jobs
          BY <1>1, TypesSay
        <4>2. scheduleFaults' = scheduleFaults + 1
          BY <3>4 DEF Schedules!Shutdown, Schedules!Fault
        <4>3. scheduleFaults' \in Nat
          BY <4>1, <4>2
        <4>4. /\ queue' = FALSE
              /\ UNCHANGED <<updateBinds, jobRows, hasRuns, scheduled, request_, tangled>>
          BY <3>4 DEF Schedules!Shutdown
        <4> QED BY <4>1, <4>3, <4>4
      <3>2. CASE \E j \in Jobs : Schedules!Run(j)
        BY <1>1, <3>2, TypesSay DEF Schedules!Run
      <3>3. CASE UNCHANGED scheduleVars
        BY <1>1, <3>3, TypesSay DEF scheduleVars
      <3> QED BY <1>3, <3>1, <3>2, <3>3, <3>4
    <2> QED BY <1>1, <1>2, <2>1, TypesSay, Concluded
  <1>4. CASE Schedules!Crash
    <2>1. /\ queue' = FALSE
          /\ request_' = [r \in MoreIds |->
               IF request_[r].at \in Schedules!Halfway THEN [at |-> "done"] ELSE request_[r]]
          /\ tangled' = tangled \cup {j \in Jobs : Schedules!UnderWay(j) # {}}
          /\ UNCHANGED <<updateBinds, jobRows, hasRuns, scheduled>>
          /\ scheduleFaults' \in Nat
      BY <1>1, <1>4, TypesSay DEF Schedules!Crash, Schedules!Fault
    <2>2. RequestsTyped'
      BY <1>1, <2>1 DEF RequestsTyped, Typed
    <2>3. ASSUME NEW k \in Jobs PROVE JobInv(k)'
      <3>1. Schedules!UnderWay(k)' = {}
        <4>1. \A r \in MoreIds : request_'[r].at \notin Schedules!Halfway
          BY <2>1 DEF Schedules!Halfway
        <4> QED BY <4>1 DEF Schedules!UnderWay
      <3>2. /\ Schedules!CronsOf(k)' = Schedules!CronsOf(k)
            /\ Schedules!Wanted(k)' = Schedules!Wanted(k)
        BY <2>1 DEF Schedules!CronsOf, Schedules!Wanted
      <3> QED BY <1>1, <2>1, <3>1, <3>2 DEF JobInv
    <2>4. tangled' \subseteq Jobs
      BY <1>1, <2>1, TypesSay
    <2> QED BY <1>1, <2>1, <2>2, <2>3, <2>4, TypesSay, Concluded
  <1>5. ASSUME NEW r \in MoreIds, Schedules!PutThrows(r) PROVE ScheduleInv'
    <2>1. /\ request_[r].at = "idle"
          /\ request_' = [request_ EXCEPT ![r] = [at |-> "done"]]
          /\ UNCHANGED <<updateBinds, jobRows, hasRuns, scheduled, queue, scheduleFaults>>
          /\ tangled' = tangled
      BY <1>5 DEF Schedules!PutThrows, Schedules!FailWith
    <2>2. \A k \in Jobs : Schedules!CronsOf(k)' = Schedules!CronsOf(k)
      BY <2>1 DEF Schedules!CronsOf
    <2>3. \A k \in Jobs : JobInv(k)'
      BY <1>1, <2>1, <2>2, IdleEnds, JobStays
    <2>4. RequestsTyped'
      BY <2>1, ChangeTyped DEF Typed
    <2> QED BY <1>1, <2>1, <2>3, <2>4, TypesSay, Concluded
  <1>6. ASSUME NEW r \in MoreIds, Schedules!Step(r) PROVE ScheduleInv'
    <2>1. Schedules!Fails(r) => request_[r].at \in Schedules!Halfway
      BY DEF Schedules!Fails
    <2> QED BY <1>5, <1>6, <2>1, BeginKeeps, HalfwayKeeps DEF Schedules!Step
  <1> QED BY <1>3, <1>4, <1>6 DEF Schedules!Next

-----------------------------------------------------------------------------
(***************************************************************************)
(* SkuMapping.  What a user saw is what the mapping is, or the look is     *)
(* stale; the results of a match that waits to be stored are classified;   *)
(* and an import under way has counted each record before the next, and    *)
(* has refused, or holds the rows of the valid ones.                       *)
(***************************************************************************)
Skus == Ids \cup {Mappings!Null}
MappingRow ==
  [status : {"none", "pending", "confirmed", "rejected", "corrected"}, sku : Skus,
   matchType : {"none", "no_match", "needs_review", "high_confidence"}]

Looked(d) ==
  decision[d].at = "seen" =>
    /\ decision[d] \in [at : {"seen"}, c : ChannelSkus, sku : Skus, stale : BOOLEAN]
    /\ mapping[decision[d].c].status # "none"
    /\ ~decision[d].stale => mapping[decision[d].c].sku = decision[d].sku

Classified(result) ==
  /\ result \in Mappings!Results
  /\ result.matchType = "high_confidence" => result.sku # Mappings!Null

Matched(m) ==
  match[m].at = "persist" =>
    \A c \in DOMAIN match[m].results : Classified(match[m].results[c])

Chosen(c) ==
  /\ mapping[c].status \in {"confirmed", "corrected"} /\ ~chosen[c].stale =>
       mapping[c].sku = chosen[c].sku
  /\ mapping[c].status = "corrected" =>
       corrections[c] # <<>> /\ mapping[c].sku = corrections[c][Len(corrections[c])]

Valid(n) == {import.records[i].sku : i \in {j \in 1..n : import.records[j].outcome = "valid"}}
Refused(n) == \E i \in 1..n : import.records[i].outcome = "refused"

ImportRecordType == [sku : ChannelSkus, outcome : {"valid", "invalid", "refused"}]

Counted(n) ==
  /\ n \in 0..Len(import.records)
  /\ import.imported \in Nat /\ import.skipped \in Nat
  /\ import.imported + import.skipped = n

ImportInv ==
  /\ import.at \in {"idle", "importing", "returned", "failed"}
  /\ import.at = "importing" =>
       /\ DOMAIN import = {"at", "records", "next", "rows", "aborted", "imported", "skipped"}
       /\ import.records \in Seq(ImportRecordType)
       /\ import.next \in Nat /\ Counted(import.next - 1)
       /\ import.aborted <=> Refused(import.next - 1)
       /\ ~Refused(import.next - 1) => import.rows = Valid(import.next - 1)
  /\ import.at = "returned" =>
       /\ import.records \in Seq(ImportRecordType)
       /\ Counted(Len(import.records))
       /\ import.rows = IF Refused(Len(import.records)) THEN {}
                        ELSE Valid(Len(import.records))
       /\ import.rows \subseteq channelSkus

TablesInv ==
  /\ channelSkus \subseteq ChannelSkus
  /\ mapping \in [ChannelSkus -> MappingRow]
  /\ chosen \in [ChannelSkus -> [sku : Skus, stale : BOOLEAN]]
  /\ corrections \in [ChannelSkus -> Seq(Ids)]
  /\ \A c \in ChannelSkus :
       /\ mapping[c].status # "none" => c \in channelSkus
       /\ mapping[c].matchType = "high_confidence" /\ mapping[c].status = "pending" =>
            mapping[c].sku # Mappings!Null
       /\ Chosen(c)

WorkInv ==
  /\ match = [m \in MatchIds |-> match[m]]
  /\ decision = [d \in Decisions |-> decision[d]]
  /\ \A m \in MatchIds : Matched(m)
  /\ \A d \in Decisions : Looked(d)
  /\ mappingFaults \in Nat

MappingInv == TablesInv /\ WorkInv /\ ImportInv

LEMMA MappingInit ==
  ASSUME Mappings!MappingAssumption, Mappings!Init PROVE MappingInv
  <1> USE DEF Mappings!Init, Mappings!NoRow, Mappings!Null, Skus
  <1>1. mapping \in [ChannelSkus -> MappingRow]
    <2>1. \A c \in ChannelSkus : mapping[c] \in MappingRow
      BY DEF MappingRow
    <2> QED BY <2>1
  <1>2. \A c \in ChannelSkus :
          /\ mapping[c].status \in {"none", "pending"}
          /\ mapping[c].status # "none" => c \in channelSkus
          /\ mapping[c].matchType # "high_confidence"
    OBVIOUS
  <1>3. corrections \in [ChannelSkus -> Seq(Ids)] /\ channelSkus \subseteq ChannelSkus
    OBVIOUS
  <1>4. chosen \in [ChannelSkus -> [sku : Skus, stale : BOOLEAN]]
    OBVIOUS
  <1>5. TablesInv
    BY <1>1, <1>2, <1>3, <1>4 DEF TablesInv, Chosen
  <1>6. WorkInv
    BY DEF WorkInv, Matched, Looked
  <1>7. ImportInv
    BY DEF ImportInv, Mappings!NoImport
  <1> QED BY <1>5, <1>6, <1>7 DEF MappingInv

LEMMA ImportStays ==
  ASSUME ImportInv, UNCHANGED import, channelSkus \subseteq channelSkus' PROVE ImportInv'
  BY DEF ImportInv, Counted, Refused, Valid

LEMMA AnswersAreClassified ==
  /\ \A a \in Mappings!Answers : Classified(a)
  /\ Classified(Mappings!NoMatch)
  BY DEF Mappings!Answers, Mappings!Classify, Mappings!NoMatch,
         Mappings!Confidences,
         Mappings!Threshold, Classified, Mappings!Results, Mappings!Null

(* A match that does not store anything.                                   *)
LEMMA MatchMoves ==
  ASSUME MappingInv, NEW m \in MatchIds, NEW next,
         match' = [match EXCEPT ![m] = next],
         next.at = "persist" => \A c \in DOMAIN next.results : Classified(next.results[c]),
         UNCHANGED <<channelSkus, mapping, corrections, decision, chosen, import>>,
         mappingFaults' \in Nat
  PROVE  MappingInv'
  <1>1. /\ match' = [n \in MatchIds |-> match'[n]]
        /\ match'[m] = next
        /\ \A n \in MatchIds \ {m} : match'[n] = match[n]
    BY DEF MappingInv, WorkInv
  <1>2. \A n \in MatchIds : Matched(n)'
    BY <1>1 DEF MappingInv, WorkInv, Matched, Classified, Mappings!Results
  <1>3. TablesInv'
    BY DEF MappingInv, TablesInv, Chosen
  <1>4. WorkInv'
    BY <1>1, <1>2 DEF MappingInv, WorkInv, Looked
  <1> QED BY <1>3, <1>4, ImportStays DEF MappingInv

(* What users saw of the mappings that change becomes stale; what they saw *)
(* of the others stays as true as it was.                                  *)
LEMMA Outdates ==
  ASSUME MappingInv, NEW skus, NEW e \in Decisions,
         Mappings!Outdated(skus)[e].at = "seen"
  PROVE  LET seen == Mappings!Outdated(skus)[e]
         IN  /\ seen \in [at : {"seen"}, c : ChannelSkus, sku : Skus, stale : BOOLEAN]
             /\ mapping[seen.c].status # "none"
             /\ seen.c \in skus => seen.stale
             /\ seen.c \notin skus => seen = decision[e]
  <1> DEFINE seen == Mappings!Outdated(skus)[e]
  <1>1. CASE decision[e].at = "seen" /\ decision[e].c \in skus
    <2>1. Looked(e)
      BY DEF MappingInv, WorkInv
    <2>2. seen = [decision[e] EXCEPT !.stale = TRUE]
      BY <1>1 DEF Mappings!Outdated
    <2>3. seen.c = decision[e].c /\ seen.stale
      BY <1>1, <2>1, <2>2 DEF Looked
    <2>4. seen \in [at : {"seen"}, c : ChannelSkus, sku : Skus, stale : BOOLEAN]
      BY <1>1, <2>1, <2>2 DEF Looked
    <2> QED BY <1>1, <2>1, <2>3, <2>4 DEF Looked
  <1>2. CASE ~(decision[e].at = "seen" /\ decision[e].c \in skus)
    <2>1. seen = decision[e]
      BY <1>2 DEF Mappings!Outdated
    <2>2. Looked(e)
      BY DEF MappingInv, WorkInv
    <2> QED BY <1>2, <2>1, <2>2 DEF Looked
  <1> QED BY <1>1, <1>2

LEMMA Persists ==
  ASSUME MappingInv, NEW m \in MatchIds, Mappings!Persist(m) PROVE MappingInv'
  <1> DEFINE results == match[m].results
  <1>1. /\ match[m].at = "persist" /\ Mappings!Stored(results)
        /\ mapping' = [c \in ChannelSkus |->
             IF c \in DOMAIN results THEN Mappings!Upserted(c, results[c]) ELSE mapping[c]]
        /\ decision' = Mappings!Outdated(DOMAIN results)
        /\ match' = [match EXCEPT ![m] = [at |-> "done"]]
        /\ UNCHANGED <<channelSkus, corrections, chosen, import, mappingFaults>>
    BY DEF Mappings!Persist
  <1>2. \A c \in DOMAIN results : Classified(results[c])
    BY <1>1 DEF MappingInv, WorkInv, Matched
  <1>3. \A c \in ChannelSkus \cap DOMAIN results :
          /\ mapping'[c].status = "pending" /\ mapping'[c] \in MappingRow
          /\ mapping'[c].matchType = "high_confidence" => mapping'[c].sku # Mappings!Null
          /\ c \in channelSkus
    BY <1>1, <1>2
    DEF Mappings!Stored, Mappings!Upserted, Classified, Mappings!Results,
       MappingRow, Skus
  <1>4. \A c \in ChannelSkus \ DOMAIN results : mapping'[c] = mapping[c]
    BY <1>1
  <1>5. TablesInv'
    <2>1. mapping' \in [ChannelSkus -> MappingRow]
      BY <1>1, <1>3, <1>4 DEF MappingInv, TablesInv
    <2> QED BY <1>1, <1>3, <1>4, <2>1 DEF MappingInv, TablesInv, Chosen
  <1>6. \A d \in Decisions : Looked(d)'
    <2> SUFFICES ASSUME NEW d \in Decisions, decision'[d].at = "seen" PROVE Looked(d)'
      BY DEF Looked
    <2>1. decision'[d] = Mappings!Outdated(DOMAIN results)[d]
      BY <1>1
    <2>2. /\ decision'[d] \in [at : {"seen"}, c : ChannelSkus, sku : Skus, stale : BOOLEAN]
          /\ mapping[decision'[d].c].status # "none"
          /\ decision'[d].c \in DOMAIN results => decision'[d].stale
          /\ decision'[d].c \notin DOMAIN results => decision'[d] = decision[d]
      BY <2>1, Outdates
    <2>3. decision'[d].c \in ChannelSkus
      BY <2>2
    <2>4. CASE decision'[d].c \in DOMAIN results
      BY <1>3, <2>2, <2>3, <2>4 DEF Looked
    <2>5. CASE decision'[d].c \notin DOMAIN results
      BY <1>4, <2>2, <2>3, <2>5 DEF Looked, MappingInv, WorkInv
    <2> QED BY <2>4, <2>5
  <1>7. WorkInv'
    <2>1. match' = [n \in MatchIds |-> match'[n]] /\ decision' = [d \in Decisions |-> decision'[d]]
      BY <1>1 DEF MappingInv, WorkInv, Mappings!Outdated
    <2>2. \A n \in MatchIds : Matched(n)'
      BY <1>1 DEF MappingInv, WorkInv, Matched, Classified, Mappings!Results
    <2> QED BY <1>1, <1>6, <2>1, <2>2 DEF MappingInv, WorkInv
  <1> QED BY <1>1, <1>5, <1>7, ImportStays DEF MappingInv

LEMMA MatchKeeps ==
  ASSUME MappingInv, NEW m \in MatchIds,
         \/ \E skus \in SUBSET ChannelSkus \ {{}} : Mappings!Start(m, skus, FALSE)
         \/ \E c \in ChannelSkus : Mappings!Start(m, {c}, TRUE)
         \/ Mappings!Llm(m)
         \/ Mappings!Persist(m)
         \/ Mappings!PersistFails(m)
  PROVE  MappingInv'
  <1>1. mappingFaults \in Nat
    BY DEF MappingInv, WorkInv
  <1>2. ASSUME NEW skus, NEW single \in BOOLEAN, Mappings!Start(m, skus, single)
        PROVE  MappingInv'
    <2>1. CASE match' = [match EXCEPT ![m] = [at |-> "llm", skus |-> skus]]
      BY <1>1, <1>2, <2>1, MatchMoves DEF Mappings!Start
    <2>2. CASE match' = [match EXCEPT ![m] =
                           [at |-> "persist", results |-> [c \in skus |-> Mappings!NoMatch]]]
      BY <1>1, <1>2, <2>2, MatchMoves, AnswersAreClassified DEF Mappings!Start
    <2>3. CASE match' = [match EXCEPT ![m] = [at |-> "done"]]
      BY <1>1, <1>2, <2>3, MatchMoves DEF Mappings!Start
    <2> QED BY <1>2, <2>1, <2>2, <2>3 DEF Mappings!Start
  <1>3. CASE Mappings!Llm(m)
    <2>1. mappingFaults' \in Nat
      BY <1>1, <1>3 DEF Mappings!Llm, Mappings!Fault
    <2>2. ASSUME NEW results \in [match[m].skus -> Mappings!Answers],
                 match' = [match EXCEPT ![m] = [at |-> "persist", results |-> results]]
          PROVE  MappingInv'
      BY <1>3, <2>1, <2>2, MatchMoves, AnswersAreClassified DEF Mappings!Llm
    <2>3. CASE match' = [match EXCEPT ![m] =
                 [at |-> "persist", results |-> [c \in match[m].skus |-> Mappings!NoMatch]]]
      BY <1>3, <2>1, <2>3, MatchMoves, AnswersAreClassified DEF Mappings!Llm
    <2> QED BY <1>3, <2>2, <2>3 DEF Mappings!Llm
  <1>4. CASE Mappings!PersistFails(m)
    <2>1. mappingFaults' \in Nat
      BY <1>1, <1>4 DEF Mappings!PersistFails, Mappings!Fault
    <2>2. match' = [match EXCEPT ![m] = [at |-> "done"]]
      BY <1>4 DEF Mappings!PersistFails
    <2> QED BY <1>4, <2>1, <2>2, MatchMoves DEF Mappings!PersistFails
  <1>5. CASE Mappings!Persist(m)
    BY <1>5, Persists
  <1> QED BY <1>2, <1>3, <1>4, <1>5

-----------------------------------------------------------------------------
(* One user looks or decides; the looks of the others stay true.           *)
LEMMA DecisionKeeps ==
  ASSUME MappingInv, NEW d \in Decisions,
         \/ \E c \in ChannelSkus : Mappings!View(d, c)
         \/ \E confirmed \in BOOLEAN : Mappings!Confirm(d, confirmed)
         \/ \E sku \in Ids : Mappings!Correct(d, sku)
         \/ Mappings!DecideFails(d)
  PROVE  MappingInv'
  <1>1. /\ TablesInv /\ WorkInv /\ ImportInv
        /\ mappingFaults \in Nat
        /\ decision = [e \in Decisions |-> decision[e]]
        /\ \A e \in Decisions : Looked(e)
    BY DEF MappingInv, WorkInv
  <1>2. ASSUME UNCHANGED <<channelSkus, match, import>>, mappingFaults' \in Nat, TablesInv',
               decision' = [e \in Decisions |-> decision'[e]], \A e \in Decisions : Looked(e)'
        PROVE  MappingInv'
    <2>1. WorkInv'
      BY <1>1, <1>2 DEF WorkInv, Matched, Classified, Mappings!Results
    <2> QED BY <1>1, <1>2, <2>1, ImportStays DEF MappingInv
  <1>3. CASE \E c \in ChannelSkus : Mappings!View(d, c)
    <2>1. PICK c \in ChannelSkus : Mappings!View(d, c)
      BY <1>3
    <2>2. TablesInv'
      BY <1>1, <2>1 DEF Mappings!View, TablesInv, Chosen
    <2>3. mapping[c].sku \in Skus
      BY <1>1, <2>1 DEF TablesInv, MappingRow
    <2>4. decision' = [decision EXCEPT ![d] =
            [at |-> "seen", c |-> c, sku |-> mapping[c].sku, stale |-> FALSE]]
      BY <2>1 DEF Mappings!View
    <2>5. Looked(d)'
      BY <1>1, <2>1, <2>3, <2>4 DEF Mappings!View, Looked
    <2>6. \A e \in Decisions \ {d} : Looked(e)'
      BY <1>1, <2>1, <2>4 DEF Mappings!View, Looked
    <2>7. decision' = [e \in Decisions |-> decision'[e]]
      BY <1>1, <2>4
    <2> QED BY <1>1, <1>2, <2>1, <2>2, <2>5, <2>6, <2>7 DEF Mappings!View
  <1>4. CASE Mappings!DecideFails(d)
    <2>1. TablesInv'
      BY <1>1, <1>4 DEF Mappings!DecideFails, TablesInv, Chosen
    <2>2. \A e \in Decisions : Looked(e)'
      BY <1>1, <1>4 DEF Mappings!DecideFails, Looked
    <2>3. decision' = [e \in Decisions |-> decision'[e]]
      BY <1>1, <1>4 DEF Mappings!DecideFails
    <2> QED BY <1>1, <1>2, <1>4, <2>1, <2>2, <2>3
            DEF Mappings!DecideFails, Mappings!Fault
  <1>5. ASSUME NEW confirmed \in BOOLEAN, Mappings!Confirm(d, confirmed) PROVE MappingInv'
    <2> DEFINE seen == decision[d]  status == IF confirmed THEN "confirmed" ELSE "rejected"
    <2>1. PICK c : c = seen.c
      OBVIOUS
    <2>2. /\ c \in ChannelSkus /\ mapping[c] \in MappingRow /\ mapping[c].status # "none"
          /\ seen.sku \in Skus /\ seen.stale \in BOOLEAN
          /\ ~seen.stale => mapping[c].sku = seen.sku
      BY <1>1, <1>5, <2>1 DEF Mappings!Confirm, Looked, TablesInv
    <2>3. /\ mapping' = [mapping EXCEPT ![c].status = status]
          /\ chosen' = [chosen EXCEPT ![c] = [sku |-> seen.sku, stale |-> seen.stale]]
          /\ decision' = [decision EXCEPT ![d] = [at |-> "done"]]
          /\ UNCHANGED <<channelSkus, corrections, match, import, mappingFaults>>
      BY <1>5, <2>1 DEF Mappings!Confirm
    <2>4. /\ mapping'[c] = [mapping[c] EXCEPT !.status = status]
          /\ \A b \in ChannelSkus \ {c} : mapping'[b] = mapping[b] /\ chosen'[b] = chosen[b]
      BY <1>1, <2>2, <2>3 DEF TablesInv
    <2>5. /\ mapping'[c] \in MappingRow /\ mapping'[c].sku = mapping[c].sku
          /\ mapping'[c].status \in {"confirmed", "rejected"}
      BY <2>2, <2>4 DEF MappingRow
    <2>6. chosen'[c].sku = seen.sku /\ chosen'[c].stale = seen.stale
      BY <1>1, <2>2, <2>3 DEF TablesInv
    <2>7. TablesInv'
      <3>1. mapping' \in [ChannelSkus -> MappingRow]
        BY <1>1, <2>2, <2>3, <2>4, <2>5 DEF TablesInv
      <3>2. chosen' \in [ChannelSkus -> [sku : Skus, stale : BOOLEAN]]
        BY <1>1, <2>2, <2>3 DEF TablesInv
      <3>3. Chosen(c)'
        BY <2>2, <2>5, <2>6 DEF Chosen
      <3>4. \A b \in ChannelSkus \ {c} : Chosen(b)'
        BY <1>1, <2>3, <2>4 DEF TablesInv, Chosen
      <3>5. c \in channelSkus
        BY <1>1, <2>2 DEF TablesInv
      <3> QED BY <1>1, <2>3, <2>4, <2>5, <3>1, <3>2, <3>3, <3>4, <3>5 DEF TablesInv
    <2>8. \A e \in Decisions : Looked(e)'
      <3>1. Looked(d)'
        BY <1>1, <2>3 DEF Looked
      <3>2. \A e \in Decisions \ {d} : Looked(e)'
        BY <1>1, <2>3, <2>4, <2>5 DEF Looked
      <3> QED BY <3>1, <3>2
    <2>9. decision' = [e \in Decisions |-> decision'[e]]
      BY <1>1, <2>3
    <2> QED BY <1>1, <1>2, <2>3, <2>7, <2>8, <2>9
  <1>6. ASSUME NEW sku \in Ids, Mappings!Correct(d, sku) PROVE MappingInv'
    <2>1. PICK c : c = decision[d].c
      OBVIOUS
    <2>2. c \in ChannelSkus /\ mapping[c] \in MappingRow /\ mapping[c].status # "none"
      BY <1>1, <1>6, <2>1 DEF Mappings!Correct, Looked, TablesInv
    <2>3. /\ corrections' = [corrections EXCEPT ![c] = Append(corrections[c], sku)]
          /\ mapping' = [mapping EXCEPT ![c].status = "corrected", ![c].sku = sku]
          /\ chosen' = [chosen EXCEPT ![c] = [sku |-> sku, stale |-> FALSE]]
          /\ decision' = [Mappings!Outdated({c}) EXCEPT ![d] = [at |-> "done"]]
          /\ UNCHANGED <<channelSkus, match, import, mappingFaults>>
      BY <1>6, <2>1 DEF Mappings!Correct
    <2>4. /\ mapping'[c] \in MappingRow /\ mapping'[c].sku = sku
          /\ mapping'[c].status = "corrected"
      BY <1>1, <2>2, <2>3 DEF TablesInv, MappingRow, Skus
    <2>5. /\ \A b \in ChannelSkus \ {c} :
               /\ mapping'[b] = mapping[b] /\ chosen'[b] = chosen[b]
               /\ corrections'[b] = corrections[b]
          /\ chosen'[c].sku = sku
          /\ corrections'[c] = Append(corrections[c], sku) /\ corrections[c] \in Seq(Ids)
      BY <1>1, <2>2, <2>3 DEF TablesInv
    <2>6. TablesInv'
      <3>1. mapping' \in [ChannelSkus -> MappingRow]
        BY <1>1, <2>2, <2>3, <2>4, <2>5 DEF TablesInv
      <3>2. chosen' \in [ChannelSkus -> [sku : Skus, stale : BOOLEAN]]
        BY <1>1, <2>2, <2>3 DEF TablesInv, Skus
      <3>3. corrections' \in [ChannelSkus -> Seq(Ids)]
        BY <1>1, <2>2, <2>3, <2>5 DEF TablesInv
      <3>4. corrections'[c] # <<>> /\ corrections'[c][Len(corrections'[c])] = sku
        BY <2>5
      <3>5. Chosen(c)'
        BY <2>4, <2>5, <3>4 DEF Chosen
      <3>6. \A b \in ChannelSkus \ {c} : Chosen(b)'
        BY <1>1, <2>5 DEF TablesInv, Chosen
      <3>7. c \in channelSkus
        BY <1>1, <2>2 DEF TablesInv
      <3> QED BY <1>1, <2>3, <2>4, <2>5, <3>1, <3>2, <3>3, <3>5, <3>6,
                 <3>7 DEF TablesInv
    <2>7. \A e \in Decisions : Looked(e)'
      <3>1. Looked(d)'
        BY <2>3 DEF Looked, Mappings!Outdated
      <3>2. ASSUME NEW e \in Decisions \ {d}, decision'[e].at = "seen" PROVE Looked(e)'
        <4>1. decision'[e] = Mappings!Outdated({c})[e]
          BY <2>3 DEF Mappings!Outdated
        <4>2. /\ decision'[e] \in [at : {"seen"}, c : ChannelSkus, sku : Skus, stale : BOOLEAN]
              /\ mapping[decision'[e].c].status # "none"
              /\ decision'[e].c = c => decision'[e].stale
              /\ decision'[e].c # c => decision'[e] = decision[e]
          BY <3>2, <4>1, Outdates
        <4>3. decision'[e].c \in ChannelSkus
          BY <4>2
        <4>4. CASE decision'[e].c = c
          BY <2>4, <4>2, <4>4 DEF Looked
        <4>5. CASE decision'[e].c # c
          BY <1>1, <2>5, <4>2, <4>3, <4>5 DEF Looked
        <4> QED BY <4>4, <4>5
      <3> QED BY <3>1, <3>2 DEF Looked
    <2>8. decision' = [e \in Decisions |-> decision'[e]]
      BY <2>3 DEF Mappings!Outdated
    <2> QED BY <1>1, <1>2, <2>3, <2>6, <2>7, <2>8
  <1> QED BY <1>3, <1>4, <1>5, <1>6

-----------------------------------------------------------------------------
(* One more record: what was valid, or refused, before it and the record.  *)
LEMMA OneMoreRecord ==
  ASSUME NEW n \in Nat
  PROVE  /\ Refused(n + 1) <=> Refused(n) \/ import.records[n + 1].outcome = "refused"
         /\ Valid(n + 1) = Valid(n) \cup
              (IF import.records[n + 1].outcome = "valid" THEN {import.records[n + 1].sku} ELSE {})
  <1>1. 1..(n + 1) = (1..n) \cup {n + 1}
    OBVIOUS
  <1>2. Refused(n + 1) <=> Refused(n) \/ import.records[n + 1].outcome = "refused"
    BY <1>1 DEF Refused
  <1>3. Valid(n + 1) = Valid(n) \cup
          (IF import.records[n + 1].outcome = "valid" THEN {import.records[n + 1].sku} ELSE {})
    BY <1>1 DEF Valid
  <1> QED BY <1>2, <1>3

LEMMA ValidAreChannelSkus ==
  ASSUME import.records \in Seq(ImportRecordType)
  PROVE  Valid(Len(import.records)) \subseteq ChannelSkus
  <1>1. PICK records : records = import.records
    OBVIOUS
  <1>2. \A i \in 1..Len(records) : records[i] \in ImportRecordType
    BY <1>1
  <1>3. \A i \in 1..Len(records) : records[i].sku \in ChannelSkus
    BY <1>2 DEF ImportRecordType
  <1> QED BY <1>1, <1>3 DEF Valid

LEMMA ImportKeeps ==
  ASSUME Mappings!MappingAssumption, MappingInv,
         \/ \E batch \in Batches : Mappings!Import(batch)
         \/ Mappings!ImportRecord
         \/ Mappings!Commit
         \/ Mappings!CommitFails
  PROVE  MappingInv'
  <1>1. /\ TablesInv /\ WorkInv /\ ImportInv
        /\ mappingFaults \in Nat
    BY DEF MappingInv, WorkInv
  <1>2. ASSUME UNCHANGED <<mapping, corrections, match, decision, chosen>>,
               mappingFaults' \in Nat, channelSkus' \subseteq ChannelSkus,
               channelSkus \subseteq channelSkus', ImportInv'
        PROVE  MappingInv'
    <2>1. WorkInv'
      BY <1>1, <1>2 DEF WorkInv, Matched, Classified, Mappings!Results, Looked
    <2>2. TablesInv'
      BY <1>1, <1>2 DEF TablesInv, Chosen
    <2> QED BY <1>2, <2>1, <2>2 DEF MappingInv
  <1>3. channelSkus \subseteq ChannelSkus
    BY <1>1 DEF TablesInv
  <1>4. ASSUME NEW batch \in Batches, Mappings!Import(batch) PROVE MappingInv'
    <2>1. batch \in Seq(ImportRecordType)
      BY DEF Mappings!MappingAssumption, ImportRecordType
    <2>2. import' = [at |-> "importing", records |-> batch, next |-> 1, rows |-> {},
                     aborted |-> FALSE, imported |-> 0, skipped |-> 0]
      BY <1>4 DEF Mappings!Import
    <2>3. ImportInv'
      BY <2>1, <2>2 DEF ImportInv, Counted, Refused, Valid
    <2> QED BY <1>1, <1>2, <1>3, <1>4, <2>3 DEF Mappings!Import
  <1>5. CASE Mappings!ImportRecord
    <2>1. PICK i, record, n :
            i = import /\ n = import.next - 1 /\ record = import.records[n + 1]
      OBVIOUS
    <2>2. /\ import.at = "importing" /\ n \in Nat /\ n + 1 = import.next
          /\ n + 1 <= Len(import.records)
          /\ import.records \in Seq(ImportRecordType) /\ record \in ImportRecordType
          /\ DOMAIN import = {"at", "records", "next", "rows", "aborted", "imported", "skipped"}
          /\ import.imported \in Nat /\ import.skipped \in Nat
          /\ import.imported + import.skipped = n
          /\ import.aborted <=> Refused(n)
          /\ ~Refused(n) => import.rows = Valid(n)
      BY <1>1, <1>5, <2>1 DEF Mappings!ImportRecord, ImportInv, Counted
    <2>3. CASE record.outcome = "valid" /\ ~Refused(n)
      <3>1. import' = [import EXCEPT !.next = n + 2, !.imported = import.imported + 1,
                                     !.rows = import.rows \cup {record.sku}]
        <4>1. /\ import.records[import.next] = record /\ record.outcome = "valid"
              /\ ~import.aborted /\ import.next + 1 = n + 2
          BY <2>1, <2>2, <2>3
        <4>2. import' = [import EXCEPT !.next = import.next + 1, !.imported = import.imported + 1,
                                       !.rows = import.rows \cup {record.sku}]
          BY <1>5, <4>1, Zenon DEF Mappings!ImportRecord
        <4> QED BY <4>1, <4>2
      <3>2. /\ import'.at = "importing" /\ import'.records = import.records
            /\ import'.next = n + 2 /\ import'.imported = import.imported + 1
            /\ import'.skipped = import.skipped /\ import'.aborted = import.aborted
            /\ import'.rows = import.rows \cup {record.sku}
            /\ DOMAIN import' = DOMAIN import
        BY <2>2, <3>1
      <3>3. Refused(n + 1)' = Refused(n + 1) /\ Valid(n + 1)' = Valid(n + 1)
        BY <3>2 DEF Refused, Valid
      <3>4. ~Refused(n + 1) /\ import'.rows = Valid(n + 1)
        BY <2>1, <2>2, <2>3, <3>2, OneMoreRecord
      <3>5. ImportInv'
        BY <2>2, <2>3, <3>2, <3>3, <3>4 DEF ImportInv, Counted
      <3> QED BY <1>1, <1>2, <1>3, <1>5, <3>5 DEF Mappings!ImportRecord
    <2>4. CASE ~(record.outcome = "valid" /\ ~Refused(n))
      <3>1. import' = [import EXCEPT !.next = n + 2, !.skipped = import.skipped + 1,
                                     !.aborted = Mappings!Aborted(record.outcome)]
        <4>1. /\ import.records[import.next] = record /\ import.next + 1 = n + 2
              /\ \/ record.outcome = "invalid"
                 \/ record.outcome = "refused" \/ import.aborted
          BY <2>1, <2>2, <2>4 DEF ImportRecordType
        <4>2. import' = [import EXCEPT !.next = import.next + 1, !.skipped = import.skipped + 1,
                                       !.aborted = Mappings!Aborted(record.outcome)]
          BY <1>5, <4>1 DEF Mappings!ImportRecord
        <4> QED BY <4>1, <4>2
      <3>2. /\ import'.at = "importing" /\ import'.records = import.records
            /\ import'.next = n + 2 /\ import'.imported = import.imported
            /\ import'.skipped = import.skipped + 1 /\ import'.rows = import.rows
            /\ import'.aborted = Mappings!Aborted(record.outcome)
            /\ DOMAIN import' = DOMAIN import
        BY <2>2, <3>1
      <3>3. Refused(n + 1)' = Refused(n + 1) /\ Valid(n + 1)' = Valid(n + 1)
        BY <3>2 DEF Refused, Valid
      <3>4. Mappings!Aborted(record.outcome) <=> Refused(n + 1)
        BY <2>1, <2>2, OneMoreRecord DEF Mappings!Aborted
      <3>5. ~Refused(n + 1) => import'.rows = Valid(n + 1)
        BY <2>1, <2>2, <2>4, <3>2, OneMoreRecord
      <3>6. ImportInv'
        BY <2>2, <3>2, <3>3, <3>4, <3>5 DEF ImportInv, Counted
      <3> QED BY <1>1, <1>2, <1>3, <1>5, <3>6 DEF Mappings!ImportRecord
    <2> QED BY <2>3, <2>4
  <1>6. CASE Mappings!Commit
    <2>1. PICK n : n = Len(import.records)
      OBVIOUS
    <2>2. /\ import.at = "importing" /\ n \in Nat /\ n = import.next - 1
          /\ import.records \in Seq(ImportRecordType) /\ n = Len(import.records)
          /\ DOMAIN import = {"at", "records", "next", "rows", "aborted", "imported", "skipped"}
          /\ Counted(n)
          /\ import.aborted <=> Refused(n)
          /\ ~Refused(n) => import.rows = Valid(n)
      BY <1>1, <1>6, <2>1 DEF Mappings!Commit, ImportInv, Counted
    <2>3. PICK stored : stored = IF Refused(n) THEN {} ELSE Valid(n)
      OBVIOUS
    <2>4. /\ channelSkus' = channelSkus \cup stored
          /\ import' = [import EXCEPT !.at = "returned", !.rows = stored]
      BY <1>6, <2>2, <2>3 DEF Mappings!Commit
    <2>5. stored \subseteq ChannelSkus
      BY <2>1, <2>2, <2>3, ValidAreChannelSkus
    <2>6. /\ import'.at = "returned" /\ import'.records = import.records
          /\ import'.imported = import.imported /\ import'.skipped = import.skipped
          /\ import'.rows = stored
      BY <2>2, <2>4
    <2>7. Refused(n)' = Refused(n) /\ Valid(n)' = Valid(n) /\ Counted(n)'
      BY <2>2, <2>6 DEF Refused, Valid, Counted
    <2>8. ImportInv'
      BY <2>1, <2>2, <2>3, <2>4, <2>6, <2>7 DEF ImportInv
    <2> QED BY <1>1, <1>2, <1>3, <1>6, <2>4, <2>5, <2>8 DEF Mappings!Commit
  <1>7. CASE Mappings!CommitFails
    <2>1. ImportInv'
      BY <1>7 DEF Mappings!CommitFails, ImportInv
    <2> QED BY <1>1, <1>2, <1>3, <1>7, <2>1 DEF Mappings!CommitFails, Mappings!Fault
  <1> QED BY <1>4, <1>5, <1>6, <1>7

LEMMA MappingNext ==
  ASSUME Mappings!MappingAssumption, MappingInv, [Mappings!Next]_mappingVars
  PROVE  MappingInv'
  <1>1. CASE UNCHANGED mappingVars
    <2>1. TablesInv'
      BY <1>1 DEF mappingVars, MappingInv, TablesInv, Chosen
    <2>2. WorkInv'
      BY <1>1 DEF mappingVars, MappingInv, WorkInv, Matched, Looked, Classified,
         Mappings!Results
    <2>3. ImportInv'
      BY <1>1, ImportStays DEF mappingVars, MappingInv
    <2> QED BY <2>1, <2>2, <2>3 DEF MappingInv
  <1> QED BY <1>1, MatchKeeps, DecisionKeeps, ImportKeeps DEF Mappings!Next

LEMMA MappingSays ==
  ASSUME MappingInv
  PROVE  Mappings!TypeOK /\ Mappings!ChoicesStand /\ Mappings!ImportAddsUp
  <1>1. TablesInv /\ WorkInv /\ ImportInv
    BY DEF MappingInv
  <1>2. Mappings!TypeOK
    BY <1>1
    DEF TablesInv, WorkInv, Matched, Classified, MappingRow, Skus, Mappings!TypeOK
  <1>3. Mappings!ChoicesStand
    BY <1>1 DEF TablesInv, Chosen, Mappings!ChoicesStand
  <1>4. Mappings!ImportAddsUp
    <2> SUFFICES ASSUME import.at = "returned"
                 PROVE  /\ import.imported + import.skipped = Len(import.records)
                        /\ import.rows \subseteq Mappings!ValidSkus \cap channelSkus
                        /\ (\A i \in DOMAIN import.records :
                              import.records[i].outcome # "refused") =>
                             import.rows = Mappings!ValidSkus
      BY DEF Mappings!ImportAddsUp
    <2>1. DOMAIN import.records = 1..Len(import.records)
      BY <1>1 DEF ImportInv
    <2>2. Mappings!ValidSkus = Valid(Len(import.records))
      BY <2>1 DEF Valid, Mappings!ValidSkus
    <2>3. (\A i \in DOMAIN import.records : import.records[i].outcome # "refused") <=>
            ~Refused(Len(import.records))
      BY <2>1 DEF Refused
    <2> QED BY <1>1, <2>2, <2>3 DEF ImportInv, Counted
  <1> QED BY <1>2, <1>3, <1>4

-----------------------------------------------------------------------------
(***************************************************************************)
(* QueryTools.  A cached answer is its key's tenant's, and old for a known *)
(* reason only; a call under way has met no fault, and reads products and  *)
(* mappings for query_products only.                                       *)
(***************************************************************************)
Keyed(k, e) ==
  \/ e = Queries!NoEntry
  \/ /\ e \in [held : {TRUE}, tenant : {k[1]}, version : Nat, raced : BOOLEAN, missed : BOOLEAN]
     /\ e.version < synced[k[1]] => k[2] # "empty" \/ e.raced \/ e.missed

Concludes(q) ==
  /\ q \in [at : {"done"}, t : Tenants, input : Queries!Inputs,
            code : {"SUCCESS", "INVALID_PARAMETERS", "QUERY_FAILED"},
            tenant : Tenants, version : Nat, hurt : BOOLEAN]
  /\ q.tenant = q.t
  /\ Queries!Mend \in queryRepairs /\ q.input # "invalid" /\ ~q.hurt
     => q.code = "SUCCESS"

Asking(q) ==
  \/ q = [at |-> "idle"]
  \/ /\ q \in [at : Queries!Statements \cup {"get", "fill"}, t : Tenants,
               input : {"empty", "filter", "channel"}, version : Nat, hurt : {FALSE}]
     /\ q.at \in {"products", "mappings"} => dataType = "products"
  \/ Concludes(q)

Syncing(s) ==
  s.at = "invalidate" => s.t \in Tenants /\ s.version \in Nat

QueryInv ==
  /\ queryRepairs \subseteq {"condition", "column"}
  /\ dataType \in Queries!DataTypes /\ queryFaults \in Nat
  /\ data \in [Tenants -> Nat] /\ synced \in [Tenants -> Nat]
  /\ DOMAIN entries = Queries!Keys /\ entries = [k \in Queries!Keys |-> entries[k]]
  /\ \A k \in Queries!Keys : Keyed(k, entries[k])
  /\ query = [c \in Ids |-> query[c]] /\ \A c \in Ids : Asking(query[c])
  /\ sync = [s \in Syncs |-> sync[s]] /\ \A s \in Syncs : Syncing(sync[s])

LEMMA QueryInit ==
  ASSUME Queries!QueryAssumption, Queries!Init PROVE QueryInv
  BY DEF Queries!Init, QueryInv, Keyed, Asking, Syncing

LEMMA QuerySays ==
  ASSUME QueryInv
  PROVE  /\ Queries!TypeOK /\ Queries!AnswersAreOwn
         /\ Queries!FreshAfterSync /\ Queries!AnswersOnceRepaired
  <1>1. \A k \in Queries!Keys : k[1] \in Tenants
    BY DEF Queries!Keys
  <1>2. \A k \in Queries!Keys :
          entries[k] \in {Queries!NoEntry} \cup
            [held : {TRUE}, tenant : Tenants, version : Nat, raced : BOOLEAN, missed : BOOLEAN]
    BY <1>1 DEF QueryInv, Keyed
  <1>3. \A c \in Ids :
       \/ query[c] = [at |-> "idle"]
       \/ query[c] \in [at : Queries!Statements \cup {"get", "fill"}, t : Tenants,
                        input : Queries!Inputs, version : Nat, hurt : BOOLEAN]
       \/ query[c] \in [at : {"done"}, t : Tenants, input : Queries!Inputs,
                        code : {"SUCCESS", "INVALID_PARAMETERS", "QUERY_FAILED"},
                        tenant : Tenants, version : Nat, hurt : BOOLEAN]
    BY DEF QueryInv, Asking, Concludes, Queries!Inputs
  <1>4. Queries!TypeOK
    BY <1>2, <1>3 DEF QueryInv, Queries!TypeOK
  <1>5. Queries!AnswersAreOwn /\ Queries!AnswersOnceRepaired
    <2>1. \A c \in Ids : Asking(query[c])
      BY DEF QueryInv
    <2>2. \A c \in Ids : query[c].at = "done" => Concludes(query[c])
      <3> SUFFICES ASSUME NEW c \in Ids, query[c].at = "done" PROVE Concludes(query[c])
        OBVIOUS
      <3>1. query[c] # [at |-> "idle"]
        OBVIOUS
      <3>2. query[c] \notin [at : Queries!Statements \cup {"get", "fill"}, t : Tenants,
                             input : {"empty", "filter", "channel"}, version : Nat, hurt : {FALSE}]
        BY DEF Queries!Statements
      <3> QED BY <2>1, <3>1, <3>2, Zenon DEF Asking
    <2>3. Queries!AnswersAreOwn
      BY <2>2 DEF Concludes, Queries!AnswersAreOwn
    <2>4. Queries!AnswersOnceRepaired
      BY <2>2, Zenon DEF Concludes, Queries!AnswersOnceRepaired
    <2> QED BY <2>3, <2>4
  <1>6. Queries!FreshAfterSync
    <2>1. ASSUME NEW k \in Queries!Keys, entries[k].held
          PROVE  entries[k] # Queries!NoEntry
      BY <2>1 DEF Queries!NoEntry
    <2> QED BY <2>1, Zenon DEF QueryInv, Keyed, Queries!FreshAfterSync
  <1> QED BY <1>4, <1>5, <1>6

(* One call moves; the cached answers, and what syncs made visible, stay.  *)
LEMMA CallMoves ==
  ASSUME QueryInv, NEW c \in Ids, NEW q, Asking(q),
         query' = [query EXCEPT ![c] = q],
         UNCHANGED <<queryRepairs, dataType, data, entries, sync, synced>>,
         queryFaults' \in Nat
  PROVE  QueryInv'
  <1>1. query' = [b \in Ids |-> query'[b]]
    BY DEF QueryInv
  <1>2. \A b \in Ids : query'[b] = q \/ query'[b] = query[b]
    BY DEF QueryInv
  <1>3. \A b \in Ids : Asking(query'[b])
    BY <1>2 DEF QueryInv
  <1>4. \A b \in Ids : Asking(query[b])'
    BY <1>3 DEF Asking, Concludes, Queries!Mend
  <1>5. \A k \in Queries!Keys : Keyed(k, entries[k])'
    BY DEF QueryInv, Keyed
  <1> QED BY <1>1, <1>4, <1>5 DEF QueryInv, Syncing

(* The cached answers move; the calls stay, or have moved already.         *)
LEMMA EntriesMove ==
  ASSUME QueryInv, UNCHANGED <<queryRepairs, dataType, query>>, queryFaults' \in Nat,
         data' \in [Tenants -> Nat], synced' \in [Tenants -> Nat],
         entries' = [k \in Queries!Keys |-> entries'[k]],
         \A k \in Queries!Keys : Keyed(k, entries[k])',
         sync' = [s \in Syncs |-> sync'[s]], \A s \in Syncs : Syncing(sync'[s])
  PROVE  QueryInv'
  <1>1. \A b \in Ids : Asking(query[b])'
    BY DEF QueryInv, Asking, Concludes, Queries!Mend
  <1> QED BY <1>1 DEF QueryInv, Syncing

LEMMA KeysOfCalls ==
  ASSUME NEW t \in Tenants, NEW asked \in {"empty", "filter", "channel"}
  PROVE  /\ Queries!Key(t, asked) \in Queries!Keys
         /\ Queries!Key(t, asked)[1] = t /\ Queries!Key(t, asked)[2] = asked
  BY DEF Queries!Key, Queries!Keys, Queries!Inputs

(* A call that is neither idle nor done.                                   *)
UnderWay(q) ==
  /\ q \in [at : Queries!Statements \cup {"get", "fill"}, t : Tenants,
            input : {"empty", "filter", "channel"}, version : Nat, hurt : {FALSE}]
  /\ q.at \in {"products", "mappings"} => dataType = "products"

LEMMA CallUnderWay ==
  ASSUME QueryInv, NEW c \in Ids, query[c].at \notin {"idle", "done"}
  PROVE  UnderWay(query[c])
  <1>1. query[c] # [at |-> "idle"]
    OBVIOUS
  <1>2. ~Concludes(query[c])
    BY DEF Concludes
  <1> QED BY <1>1, <1>2, Zenon DEF QueryInv, Asking, UnderWay

LEMMA GoesOn ==
  ASSUME NEW q, UnderWay(q),
         NEW point \in Queries!Statements \cup {"get", "fill"},
         point \in {"products", "mappings"} => dataType = "products"
  PROVE  Asking([q EXCEPT !.at = point])
  <1>1. [q EXCEPT !.at = point].at = point
    BY DEF UnderWay
  <1>2. [q EXCEPT !.at = point] \in
          [at : Queries!Statements \cup {"get", "fill"}, t : Tenants,
           input : {"empty", "filter", "channel"}, version : Nat, hurt : {FALSE}]
    BY DEF UnderWay
  <1> QED BY <1>1, <1>2, Zenon DEF Asking

(* A call that ends: with an answer, or with an error that has a cause.    *)
LEMMA EndsWell ==
  ASSUME NEW q, UnderWay(q), NEW version \in Nat, NEW hurt \in BOOLEAN,
         NEW code \in {"SUCCESS", "QUERY_FAILED"},
         code = "SUCCESS" \/ hurt \/ Queries!Mend \notin queryRepairs
  PROVE  Asking([at |-> "done", t |-> q.t, input |-> q.input, code |-> code,
                 tenant |-> q.t, version |-> version, hurt |-> hurt])
  <1> DEFINE e == [at |-> "done", t |-> q.t, input |-> q.input, code |-> code,
                   tenant |-> q.t, version |-> version, hurt |-> hurt]
  <1>1. /\ q.t \in Tenants /\ q.input \in Queries!Inputs
    BY DEF UnderWay, Queries!Inputs
  <1>2. /\ e \in [at : {"done"}, t : Tenants, input : Queries!Inputs,
                  code : {"SUCCESS", "INVALID_PARAMETERS", "QUERY_FAILED"},
                  tenant : Tenants, version : Nat, hurt : BOOLEAN]
        /\ e.tenant = e.t /\ e.code = code /\ e.hurt = hurt
    BY <1>1
  <1> HIDE DEF e
  <1>3. Concludes(e)
    BY <1>2, Zenon DEF Concludes
  <1> QED BY <1>3 DEF Asking, e

LEMMA Executes ==
  ASSUME QueryInv, NEW c \in Ids, NEW t \in Tenants, NEW asked \in Queries!Inputs,
         Queries!Execute(c, t, asked)
  PROVE  QueryInv'
  <1>1. queryFaults' \in Nat
    BY DEF Queries!Execute, QueryInv
  <1>2. CASE asked = "invalid"
    <2> DEFINE q == [at |-> "done", t |-> t, input |-> asked, code |-> "INVALID_PARAMETERS",
                     tenant |-> t, version |-> 0, hurt |-> FALSE]
    <2>1. /\ q \in [at : {"done"}, t : Tenants, input : Queries!Inputs,
                    code : {"SUCCESS", "INVALID_PARAMETERS", "QUERY_FAILED"},
                    tenant : Tenants, version : Nat, hurt : BOOLEAN]
          /\ q.tenant = q.t /\ q.input = "invalid"
      BY <1>2
    <2>2. query' = [query EXCEPT ![c] = q]
      BY <1>2 DEF Queries!Execute
    <2> HIDE DEF q
    <2>3. Asking(q)
      BY <2>1, Zenon DEF Asking, Concludes
    <2> QED BY <1>1, <2>2, <2>3, CallMoves DEF Queries!Execute
  <1>3. CASE asked # "invalid"
    <2> DEFINE q == [at |-> "get", t |-> t, input |-> asked, version |-> 0, hurt |-> FALSE]
    <2>1. /\ q \in [at : Queries!Statements \cup {"get", "fill"}, t : Tenants,
                    input : {"empty", "filter", "channel"}, version : Nat, hurt : {FALSE}]
          /\ q.at \notin {"products", "mappings"}
      BY <1>3 DEF Queries!Inputs
    <2>2. query' = [query EXCEPT ![c] = q]
      BY <1>3 DEF Queries!Execute
    <2> HIDE DEF q
    <2>3. Asking(q)
      BY <2>1, Zenon DEF Asking
    <2> QED BY <1>1, <2>2, <2>3, CallMoves DEF Queries!Execute
  <1> QED BY <1>2, <1>3

LEMMA Gets ==
  ASSUME QueryInv, NEW c \in Ids, Queries!Get(c) PROVE QueryInv'
  <1> DEFINE key == Queries!Key(query[c].t, query[c].input)
             e == entries[key]
  <1>1. UnderWay(query[c]) /\ query[c].at = "get"
    BY CallUnderWay DEF Queries!Get
  <1>2. /\ query[c].t \in Tenants /\ query[c].hurt = FALSE
        /\ query[c].input \in {"empty", "filter", "channel"}
    BY <1>1 DEF UnderWay
  <1>3. queryFaults' \in Nat
    BY DEF Queries!Get, Queries!Fault, QueryInv
  <1>4. CASE e.held /\ Queries!Answered(c, "SUCCESS", e.tenant, e.version)
    <2>1. key \in Queries!Keys /\ key[1] = query[c].t
      BY <1>2, KeysOfCalls
    <2>2. Keyed(key, e) /\ e # Queries!NoEntry
      BY <1>4, <2>1 DEF QueryInv, Queries!NoEntry
    <2>3. e.tenant = query[c].t /\ e.version \in Nat
      BY <2>1, <2>2 DEF Keyed
    <2>4. Asking([at |-> "done", t |-> query[c].t, input |-> query[c].input, code |-> "SUCCESS",
                  tenant |-> query[c].t, version |-> e.version, hurt |-> FALSE])
      BY <1>1, <2>3, EndsWell
    <2>5. query' = [query EXCEPT ![c] =
            [at |-> "done", t |-> query[c].t, input |-> query[c].input, code |-> "SUCCESS",
             tenant |-> query[c].t, version |-> e.version, hurt |-> FALSE]]
      BY <1>2, <1>4, <2>3 DEF Queries!Answered
    <2> QED BY <1>3, <2>4, <2>5, CallMoves DEF Queries!Get
  <1>5. CASE Queries!Goto(c, "count")
    <2>1. Asking([query[c] EXCEPT !.at = "count"])
      BY <1>1, GoesOn DEF Queries!Statements
    <2>2. query' = [query EXCEPT ![c] = [query[c] EXCEPT !.at = "count"]]
      BY <1>5 DEF Queries!Goto
    <2> QED BY <1>3, <2>1, <2>2, CallMoves DEF Queries!Get
  <1> QED BY <1>4, <1>5 DEF Queries!Get

LEMMA Reads ==
  ASSUME QueryInv, NEW c \in Ids, Queries!Read(c) PROVE QueryInv'
  <1>1. UnderWay(query[c])
    BY CallUnderWay DEF Queries!Read, Queries!Statements
  <1>2. queryFaults' \in Nat
    BY DEF Queries!Read, QueryInv
  <1>3. ASSUME NEW point \in {"fill", "products", "mappings"}, Queries!Goto(c, point),
               point \in {"products", "mappings"} => dataType = "products"
        PROVE  QueryInv'
    <2>1. Asking([query[c] EXCEPT !.at = point])
      BY <1>1, <1>3, GoesOn DEF Queries!Statements
    <2>2. query' = [query EXCEPT ![c] = [query[c] EXCEPT !.at = point]]
      BY <1>3 DEF Queries!Goto
    <2> QED BY <1>2, <2>1, <2>2, CallMoves DEF Queries!Read
  <1>4. CASE query' = [query EXCEPT ![c].at = "rows", ![c].version = data[query[c].t]]
    <2>1. data[query[c].t] \in Nat
      BY <1>1 DEF UnderWay, QueryInv
    <2> DEFINE q == [query[c] EXCEPT !.at = "rows", !.version = data[query[c].t]]
    <2>2. q \in [at : Queries!Statements \cup {"get", "fill"}, t : Tenants,
                 input : {"empty", "filter", "channel"}, version : Nat, hurt : {FALSE}] /\ q.at = "rows"
      BY <1>1, <2>1 DEF UnderWay, Queries!Statements
    <2>3. query' = [query EXCEPT ![c] = q]
      BY <1>4
    <2> HIDE DEF q
    <2>4. Asking(q)
      BY <2>2, Zenon DEF Asking
    <2> QED BY <1>2, <2>3, <2>4, CallMoves DEF Queries!Read
  <1>5. query[c].at \in {"products", "mappings"} => dataType = "products"
    BY <1>1 DEF UnderWay
  <1> QED BY <1>3, <1>4, <1>5 DEF Queries!Read

LEMMA ReadsFail ==
  ASSUME QueryInv, NEW c \in Ids, Queries!ReadFails(c) PROVE QueryInv'
  <1>1. UnderWay(query[c])
    BY CallUnderWay DEF Queries!ReadFails, Queries!Statements
  <1>2. queryFaults' \in Nat
    BY DEF Queries!ReadFails, Queries!Fault, QueryInv
  <1>3. CASE ~Queries!Binds(c) /\ Queries!Answered(c, "QUERY_FAILED", query[c].t, 0)
    <2>1. query[c].hurt = FALSE
      BY <1>1 DEF UnderWay
    <2>2. Queries!Mend \notin queryRepairs
      BY <1>1, <1>3 DEF Queries!Binds, Queries!Joins, Queries!NamesChannel, Queries!Mend, UnderWay,
         QueryInv, Queries!DataTypes
    <2>3. Asking([at |-> "done", t |-> query[c].t, input |-> query[c].input,
                  code |-> "QUERY_FAILED", tenant |-> query[c].t, version |-> 0, hurt |-> FALSE])
      BY <1>1, <2>2, EndsWell
    <2>4. query' = [query EXCEPT ![c] =
            [at |-> "done", t |-> query[c].t, input |-> query[c].input,
             code |-> "QUERY_FAILED", tenant |-> query[c].t, version |-> 0, hurt |-> FALSE]]
      BY <1>3, <2>1 DEF Queries!Answered
    <2> QED BY <1>2, <2>3, <2>4, CallMoves DEF Queries!ReadFails
  <1>4. CASE query' = [query EXCEPT ![c] =
               [at |-> "done", t |-> query[c].t, input |-> query[c].input,
                code |-> "QUERY_FAILED", tenant |-> query[c].t, version |-> 0, hurt |-> TRUE]]
    <2>1. Asking([at |-> "done", t |-> query[c].t, input |-> query[c].input,
                  code |-> "QUERY_FAILED", tenant |-> query[c].t, version |-> 0, hurt |-> TRUE])
      BY <1>1, EndsWell
    <2> QED BY <1>2, <1>4, <2>1, CallMoves DEF Queries!ReadFails
  <1> QED BY <1>3, <1>4 DEF Queries!ReadFails

LEMMA Fills ==
  ASSUME QueryInv, NEW c \in Ids, Queries!Fill(c) PROVE QueryInv'
  <1>1. UnderWay(query[c]) /\ query[c].at = "fill"
    BY CallUnderWay DEF Queries!Fill
  <1>2. PICK t, asked, version :
          t = query[c].t /\ asked = query[c].input /\ version = query[c].version
    OBVIOUS
  <1>3. /\ t \in Tenants /\ asked \in {"empty", "filter", "channel"} /\ version \in Nat
        /\ query[c].hurt = FALSE
    BY <1>1, <1>2 DEF UnderWay
  <1>4. queryFaults' \in Nat
    BY DEF Queries!Fill, Queries!Fault, QueryInv
  <1>5. /\ UNCHANGED <<queryRepairs, dataType, data, sync, synced>>
        /\ query' = [query EXCEPT ![c] =
             [at |-> "done", t |-> t, input |-> asked, code |-> "SUCCESS",
              tenant |-> t, version |-> version, hurt |-> FALSE]]
    BY <1>2, <1>3 DEF Queries!Fill, Queries!Answered
  <1>6. Asking([at |-> "done", t |-> t, input |-> asked, code |-> "SUCCESS",
                tenant |-> t, version |-> version, hurt |-> FALSE])
    BY <1>1, <1>2, <1>3, EndsWell
  <1>7. /\ entries' = [k \in Queries!Keys |-> entries'[k]]
        /\ \A k \in Queries!Keys : Keyed(k, entries'[k])
    <2>1. CASE UNCHANGED entries
      BY <2>1 DEF QueryInv
    <2>2. CASE entries' = [entries EXCEPT ![Queries!Key(t, asked)] =
                 Queries!Entry(t, version, version < synced[t])]
      <3>1. PICK key \in Queries!Keys : key = Queries!Key(t, asked) /\ key[1] = t
        BY <1>3, KeysOfCalls
      <3>2. PICK raced \in BOOLEAN : raced <=> version < synced[t]
        OBVIOUS
      <3> DEFINE e == Queries!Entry(t, version, version < synced[t])
      <3>3. /\ e \in [held : {TRUE}, tenant : {key[1]}, version : Nat, raced : BOOLEAN,
                      missed : BOOLEAN]
            /\ e.version = version /\ e.raced = (version < synced[t])
        BY <1>3, <3>1 DEF Queries!Entry
      <3> HIDE DEF e
      <3>4. Keyed(key, e)
        BY <3>1, <3>3 DEF Keyed
      <3>5. \A k \in Queries!Keys \ {key} : entries'[k] = entries[k]
        BY <2>2, <3>1 DEF QueryInv
      <3>6. entries'[key] = e
        BY <2>2, <3>1 DEF QueryInv, e
      <3> QED BY <2>2, <3>4, <3>5, <3>6 DEF QueryInv
    <2> QED BY <1>2, <2>1, <2>2 DEF Queries!Fill
  <1>8. query' = [b \in Ids |-> query'[b]] /\ \A b \in Ids : Asking(query'[b])
    <2>1. query' = [b \in Ids |-> query'[b]]
      BY <1>5 DEF QueryInv
    <2>2. \A b \in Ids \ {c} : query'[b] = query[b]
      BY <1>5 DEF QueryInv
    <2>3. Asking(query'[c])
      BY <1>5, <1>6 DEF QueryInv
    <2> QED BY <2>1, <2>2, <2>3 DEF QueryInv
  <1>9. /\ \A k \in Queries!Keys : Keyed(k, entries[k])'
        /\ \A b \in Ids : Asking(query[b])'
    BY <1>5, <1>7, <1>8 DEF Keyed, Asking, Concludes, Queries!Mend
  <1> QED BY <1>4, <1>5, <1>7, <1>8, <1>9 DEF QueryInv, Syncing

(* The sync made visible what it was to, and the answers that are older    *)
(* are under other keys or could not be deleted.                           *)
LEMMA Invalidates ==
  ASSUME QueryInv, NEW s \in Syncs, Queries!Invalidate(s) PROVE QueryInv'
  <1>1. PICK t, version : t = sync[s].t /\ version = sync[s].version
    OBVIOUS
  <1>2. t \in Tenants /\ version \in Nat
    BY <1>1 DEF Queries!Invalidate, QueryInv, Syncing
  <1>3. PICK key \in Queries!Keys :
          /\ key = Queries!Invalidated(s) /\ key[1] = t /\ key[2] = "empty"
          /\ \A k \in Queries!Keys : k[1] = t /\ k[2] = "empty" => k = key
    <2>1. PICK key \in Queries!Keys : key = Queries!Key(t, "empty") /\ key[1] = t /\ key[2] = "empty"
      BY <1>2, KeysOfCalls
    <2>2. \A k \in Queries!Keys : k = <<k[1], k[2]>>
      BY DEF Queries!Keys
    <2>3. \A k \in Queries!Keys : k[1] = t /\ k[2] = "empty" => k = key
      BY <2>1, <2>2 DEF Queries!Key
    <2> QED BY <1>1, <2>1, <2>3 DEF Queries!Invalidated
  <1>4. /\ UNCHANGED <<queryRepairs, dataType, query, data>>
        /\ queryFaults' \in Nat
        /\ synced' \in [Tenants -> Nat]
        /\ \A u \in Tenants \ {t} : synced'[u] = synced[u]
        /\ sync' = [sync EXCEPT ![s] = [at |-> "done"]]
    BY <1>1, <1>2 DEF Queries!Invalidate, Queries!Fault, QueryInv
  <1>5. sync' = [r \in Syncs |-> sync'[r]] /\ \A r \in Syncs : Syncing(sync'[r])
    BY <1>4 DEF QueryInv, Syncing
  <1>6. /\ entries' = [k \in Queries!Keys |-> entries'[k]]
        /\ \A k \in Queries!Keys \ {key} : entries'[k] = entries[k]
        /\ \/ entries'[key] = Queries!NoEntry
           \/ entries[key].held /\ entries'[key] = [entries[key] EXCEPT !.missed = TRUE]
           \/ ~entries[key].held /\ entries'[key] = entries[key]
    BY <1>3 DEF Queries!Invalidate
  <1>7. \A k \in Queries!Keys \ {key} : Keyed(k, entries[k])'
    <2> SUFFICES ASSUME NEW k \in Queries!Keys \ {key} PROVE Keyed(k, entries[k])'
      OBVIOUS
    <2>1. Keyed(k, entries[k]) /\ entries'[k] = entries[k]
      BY <1>6 DEF QueryInv
    <2>2. k[1] \in Tenants
      BY DEF Queries!Keys
    <2>3. k[2] # "empty" \/ synced'[k[1]] = synced[k[1]]
      BY <1>3, <1>4, <2>2
    <2> QED BY <2>1, <2>3 DEF Keyed
  <1>8. Keyed(key, entries[key])'
    <2>1. CASE entries'[key] = Queries!NoEntry
      BY <2>1 DEF Keyed
    <2>2. CASE entries[key].held /\ entries'[key] = [entries[key] EXCEPT !.missed = TRUE]
      <3>1. entries[key] # Queries!NoEntry
        BY <2>2 DEF Queries!NoEntry
      <3>2. entries[key] \in
              [held : {TRUE}, tenant : {key[1]}, version : Nat, raced : BOOLEAN, missed : BOOLEAN]
        BY <3>1 DEF QueryInv, Keyed
      <3>3. /\ entries'[key] \in
              [held : {TRUE}, tenant : {key[1]}, version : Nat, raced : BOOLEAN, missed : BOOLEAN]
            /\ entries'[key].missed
        BY <2>2, <3>2
      <3> QED BY <3>3 DEF Keyed
    <2>3. CASE ~entries[key].held /\ entries'[key] = entries[key]
      <3>1. entries[key] = Queries!NoEntry
        BY <2>3 DEF QueryInv, Keyed
      <3> QED BY <2>3, <3>1 DEF Keyed
    <2> QED BY <1>6, <2>1, <2>2, <2>3
  <1>9. \A k \in Queries!Keys : Keyed(k, entries[k])'
    BY <1>7, <1>8
  <1>10. data' \in [Tenants -> Nat]
    BY <1>4 DEF QueryInv
  <1> QED BY <1>4, <1>5, <1>6, <1>9, <1>10, EntriesMove

LEMMA QueryNext ==
  ASSUME QueryInv, [Queries!Next]_queryVars PROVE QueryInv'
  <1>1. CASE UNCHANGED queryVars
    <2>1. \A k \in Queries!Keys : Keyed(k, entries[k])'
      BY <1>1 DEF queryVars, QueryInv, Keyed
    <2> QED BY <1>1, <2>1, EntriesMove DEF queryVars, QueryInv
  <1>2. ASSUME NEW t \in Tenants, Queries!Write(t) PROVE QueryInv'
    <2>1. /\ UNCHANGED <<queryRepairs, dataType, query, entries, sync, synced, queryFaults>>
          /\ data' \in [Tenants -> Nat]
      BY <1>2 DEF Queries!Write, QueryInv
    <2>2. \A k \in Queries!Keys : Keyed(k, entries[k])'
      BY <2>1 DEF QueryInv, Keyed
    <2> QED BY <2>1, <2>2, EntriesMove DEF QueryInv
  <1>3. ASSUME NEW t \in Tenants, NEW s \in Syncs, Queries!OnSyncComplete(s, t)
        PROVE  QueryInv'
    <2>1. /\ UNCHANGED <<queryRepairs, dataType, query, entries, data, synced, queryFaults>>
          /\ sync' = [sync EXCEPT ![s] = [at |-> "invalidate", t |-> t, version |-> data[t]]]
      BY <1>3 DEF Queries!OnSyncComplete
    <2>2. \A k \in Queries!Keys : Keyed(k, entries[k])'
      BY <2>1 DEF QueryInv, Keyed
    <2>3. sync' = [r \in Syncs |-> sync'[r]] /\ \A r \in Syncs : Syncing(sync'[r])
      BY <2>1 DEF QueryInv, Syncing
    <2> QED BY <2>1, <2>2, <2>3, EntriesMove DEF QueryInv
  <1>4. ASSUME NEW k \in Queries!Keys, Queries!Expire(k) PROVE QueryInv'
    <2>1. /\ UNCHANGED <<queryRepairs, dataType, query, sync, data, synced, queryFaults>>
          /\ entries' = [entries EXCEPT ![k] = Queries!NoEntry]
      BY <1>4 DEF Queries!Expire
    <2>2. \A l \in Queries!Keys : entries'[l] = entries[l] \/ entries'[l] = Queries!NoEntry
      BY <2>1 DEF QueryInv
    <2>3. \A l \in Queries!Keys : Keyed(l, entries[l])'
      BY <2>1, <2>2 DEF QueryInv, Keyed
    <2>4. entries' = [l \in Queries!Keys |-> entries'[l]]
      BY <2>1 DEF QueryInv
    <2> QED BY <2>1, <2>3, <2>4, EntriesMove DEF QueryInv
  <1> QED BY <1>1, <1>2, <1>3, <1>4, Executes, Gets, Reads, ReadsFail, Fills,
             Invalidates
          DEF Queries!Next

-----------------------------------------------------------------------------
(***************************************************************************)
(* QueueMetrics.  The statistics an older poll has read of a queue are not *)
(* newer than those of a younger one, and the previous ones not newer than *)
(* those of any poll in flight; what was recorded is what the previous     *)
(* statistics had seen, what came too late for them and what was recorded  *)
(* since, or more if a poll skipped the queue.                             *)
(***************************************************************************)
StatsFit(s, q) ==
  /\ s \in Metrics!Statistics
  /\ s.known => /\ s.consumed <= s.arrived
                /\ s.arrived <= arrived[q] /\ s.consumed <= consumed[q]
  /\ metricFaults = 0 => s.known

Precedes(s, t) == s.known /\ t.known => s.consumed <= t.consumed

(* The polls in flight, and the statistics before them.                    *)
PollsInv(ps, previous) ==
  /\ ps \in Seq(Seq(Metrics!Statistics)) /\ Len(ps) <= MaxPolls
  /\ \A p \in 1..Len(ps) : Len(ps[p]) <= QueueCount
  /\ \A p \in 1..Len(ps) : \A q \in 1..Len(ps[p]) :
       StatsFit(ps[p][q], q) /\ Precedes(previous[q], ps[p][q])
  /\ \A o, p \in 1..Len(ps) : o < p =>
       /\ Len(ps[p]) <= Len(ps[o])
       /\ \A q \in 1..Len(ps[p]) : Precedes(ps[o][q], ps[p][q])

CountsInv ==
  /\ recorded \in [Metrics!Queues -> Nat] /\ arrived \in [Metrics!Queues -> Nat]
  /\ consumed \in [Metrics!Queues -> Nat] /\ publishCounts \in [Metrics!Queues -> Nat]
  /\ reported \in [Metrics!Queues -> Nat]
  /\ previousStats \in [Metrics!Queues -> Metrics!Statistics]
  /\ running \in BOOLEAN /\ metricFaults \in 0..MaxFaults
  /\ currentMetrics \in [Metrics!Queues -> [publishedRate : Nat, consumedRate : Nat]]
  /\ truth \in [Metrics!Queues -> [consumed : Nat, late : Nat, early : Nat]]

QueueInv(q) ==
  /\ consumed[q] <= arrived[q] /\ arrived[q] <= recorded[q]
  /\ previousStats[q].known =>
       /\ previousStats[q].consumed <= previousStats[q].arrived
       /\ previousStats[q].consumed <= consumed[q]
       /\ previousStats[q].arrived + truth[q].late + publishCounts[q] <= recorded[q]
  /\ reported[q] + publishCounts[q] <= recorded[q]
  /\ currentMetrics[q].consumedRate <= truth[q].consumed + truth[q].late
  /\ metricFaults = 0 =>
       /\ previousStats[q].known =>
            previousStats[q].arrived + truth[q].late + publishCounts[q] = recorded[q]
       /\ reported[q] + publishCounts[q] = recorded[q]
       /\ truth[q].consumed <= currentMetrics[q].consumedRate + truth[q].early

MetricsInv ==
  /\ CountsInv
  /\ PollsInv(polls, previousStats)
  /\ \A q \in Metrics!Queues : QueueInv(q)

LEMMA StatsTypes ==
  ASSUME NEW s \in Metrics!Statistics, s.known
  PROVE  s.arrived \in Nat /\ s.consumed \in Nat
  BY DEF Metrics!Statistics

LEMMA MetricsInit ==
  ASSUME Metrics!MetricsAssumption, Metrics!Init PROVE MetricsInv
  <1>1. CountsInv
    <2>1. Metrics!Zero \in [Metrics!Queues -> Nat]
      BY DEF Metrics!Zero
    <2>2. previousStats \in [Metrics!Queues -> Metrics!Statistics]
      BY DEF Metrics!Init, Metrics!None, Metrics!Statistics
    <2>3. currentMetrics \in [Metrics!Queues -> [publishedRate : Nat, consumedRate : Nat]]
      BY DEF Metrics!Init
    <2>4. truth \in [Metrics!Queues -> [consumed : Nat, late : Nat, early : Nat]]
      BY DEF Metrics!Init
    <2>5. metricFaults \in 0..MaxFaults /\ running \in BOOLEAN
      <3>1. metricFaults = 0 /\ running = FALSE
        BY DEF Metrics!Init
      <3>2. MaxFaults \in Nat
        BY DEF Metrics!MetricsAssumption
      <3>3. metricFaults \in 0..MaxFaults
        BY <3>1, <3>2
      <3> QED BY <3>1, <3>3
    <2>6. /\ recorded = Metrics!Zero /\ arrived = Metrics!Zero /\ consumed = Metrics!Zero
          /\ publishCounts = Metrics!Zero /\ reported = Metrics!Zero
      BY DEF Metrics!Init
    <2> QED BY <2>1, <2>2, <2>3, <2>4, <2>5, <2>6 DEF CountsInv
  <1>2. PollsInv(polls, previousStats)
    BY DEF Metrics!MetricsAssumption, Metrics!Init, PollsInv
  <1>3. \A q \in Metrics!Queues : QueueInv(q)
    BY DEF Metrics!Init, Metrics!Zero, Metrics!None, QueueInv
  <1> QED BY <1>1, <1>2, <1>3 DEF MetricsInv

LEMMA MetricsSay ==
  ASSUME MetricsInv PROVE Metrics!TypeOK /\ Metrics!RatesAreExplained
  <1>1. Metrics!TypeOK
    BY DEF MetricsInv, CountsInv, PollsInv, Metrics!TypeOK
  <1>2. Metrics!RatesAreExplained
    BY DEF MetricsInv, QueueInv, Metrics!RatesAreExplained
  <1> QED BY <1>1, <1>2

(* A message is recorded, arrives or is consumed: what the polls have read *)
(* is not newer for it.                                                    *)
LEMMA MessagesMove ==
  ASSUME Metrics!MetricsAssumption, MetricsInv, NEW q \in Metrics!Queues,
         \/ Metrics!RecordPublish(q)
         \/ Metrics!Arrive(q)
         \/ Metrics!Consume(q)
  PROVE  MetricsInv'
  <1>1. /\ UNCHANGED <<running, polls, previousStats, currentMetrics, reported, truth,
                       metricFaults>>
        /\ recorded' \in [Metrics!Queues -> Nat] /\ arrived' \in [Metrics!Queues -> Nat]
        /\ consumed' \in [Metrics!Queues -> Nat] /\ publishCounts' \in [Metrics!Queues -> Nat]
        /\ \A u \in Metrics!Queues :
             /\ consumed[u] <= consumed'[u] /\ arrived[u] <= arrived'[u]
             /\ consumed'[u] <= arrived'[u] /\ arrived'[u] <= recorded'[u]
             /\ recorded'[u] - publishCounts'[u] = recorded[u] - publishCounts[u]
    <2>1. CountsInv /\ \A u \in Metrics!Queues : consumed[u] <= arrived[u] /\ arrived[u] <= recorded[u]
      BY DEF MetricsInv, QueueInv
    <2>2. CASE Metrics!RecordPublish(q)
      <3>1. /\ recorded' = [recorded EXCEPT ![q] = recorded[q] + 1]
            /\ publishCounts' = [publishCounts EXCEPT ![q] = publishCounts[q] + 1]
            /\ UNCHANGED <<arrived, consumed, running, polls, previousStats, currentMetrics,
                           reported, truth, metricFaults>>
        BY <2>2, Zenon DEF Metrics!RecordPublish
      <3>2. /\ recorded'[q] = recorded[q] + 1 /\ publishCounts'[q] = publishCounts[q] + 1
            /\ \A u \in Metrics!Queues \ {q} :
                 recorded'[u] = recorded[u] /\ publishCounts'[u] = publishCounts[u]
        BY <2>1, <3>1 DEF CountsInv
      <3>3. \A u \in Metrics!Queues :
              /\ recorded[u] \in Nat /\ arrived[u] \in Nat /\ consumed[u] \in Nat
              /\ publishCounts[u] \in Nat
        BY <2>1 DEF CountsInv
      <3>4. recorded' \in [Metrics!Queues -> Nat] /\ publishCounts' \in [Metrics!Queues -> Nat]
        BY <2>1, <3>1, <3>3 DEF CountsInv
      <3>5. \A u \in Metrics!Queues :
              /\ arrived[u] <= recorded'[u]
              /\ recorded'[u] - publishCounts'[u] = recorded[u] - publishCounts[u]
        BY <2>1, <3>2, <3>3
      <3>6. /\ UNCHANGED <<arrived, consumed>>
            /\ arrived \in [Metrics!Queues -> Nat] /\ consumed \in [Metrics!Queues -> Nat]
            /\ \A u \in Metrics!Queues : consumed[u] <= consumed[u] /\ arrived[u] <= arrived[u]
        BY <2>1, <3>1, <3>3 DEF CountsInv
      <3> QED BY <2>1, <3>1, <3>4, <3>5, <3>6
    <2>3. CASE Metrics!Arrive(q)
      BY <2>1, <2>3 DEF CountsInv, Metrics!Arrive
    <2>4. CASE Metrics!Consume(q)
      BY <2>1, <2>4 DEF CountsInv, Metrics!Consume
    <2> QED BY <2>2, <2>3, <2>4
  <1>2. CountsInv'
    BY <1>1 DEF MetricsInv, CountsInv
  <1>3. ASSUME NEW s, NEW u \in Metrics!Queues, StatsFit(s, u)
        PROVE  StatsFit(s, u)'
    <2>1. s.known => s.arrived <= arrived'[u] /\ s.consumed <= consumed'[u]
      BY <1>1, <1>3, StatsTypes DEF MetricsInv, CountsInv, StatsFit
    <2> QED BY <1>1, <1>3, <2>1 DEF StatsFit
  <1>4. PollsInv(polls, previousStats)'
    <2>1. PollsInv(polls, previousStats) /\ QueueCount \in Nat
      BY DEF MetricsInv, Metrics!MetricsAssumption
    <2>2. \A p \in 1..Len(polls) : \A u \in 1..Len(polls[p]) : StatsFit(polls[p][u], u)'
      <3> SUFFICES ASSUME NEW p \in 1..Len(polls), NEW u \in 1..Len(polls[p])
                   PROVE  StatsFit(polls[p][u], u)'
        BY <1>1
      <3>1. StatsFit(polls[p][u], u) /\ u \in Metrics!Queues
        BY <2>1 DEF PollsInv, Metrics!Queues
      <3>2. PICK s : s = polls[p][u]
        OBVIOUS
      <3>3. StatsFit(s, u)'
        BY <1>3, <3>1, <3>2
      <3>4. polls'[p][u] = s
        BY <1>1, <3>2
      <3> QED BY <3>3, <3>4
    <2> QED BY <1>1, <2>1, <2>2 DEF PollsInv, Precedes
  <1>5. \A u \in Metrics!Queues : QueueInv(u)'
    <2> SUFFICES ASSUME NEW u \in Metrics!Queues PROVE QueueInv(u)'
      OBVIOUS
    <2>1. QueueInv(u) /\ CountsInv /\ truth[u].late \in Nat
      BY DEF MetricsInv, CountsInv
    <2>2. previousStats[u].known =>
            previousStats[u].arrived \in Nat /\ previousStats[u].consumed \in Nat
      BY <2>1, StatsTypes DEF CountsInv
    <2>3. /\ recorded[u] \in Nat /\ recorded'[u] \in Nat /\ publishCounts[u] \in Nat
          /\ publishCounts'[u] \in Nat /\ reported[u] \in Nat
          /\ consumed[u] \in Nat /\ consumed'[u] \in Nat
      BY <1>1, <2>1 DEF CountsInv
    <2> QED BY <1>1, <2>1, <2>2, <2>3 DEF QueueInv
  <1> QED BY <1>2, <1>4, <1>5 DEF MetricsInv

(* What the polls in flight do with nothing recorded, arriving, consumed   *)
(* or reported.                                                            *)
LEMMA PollsMove ==
  ASSUME MetricsInv,
         UNCHANGED <<recorded, arrived, consumed, publishCounts, previousStats, currentMetrics,
                     reported, truth>>,
         running' \in BOOLEAN, metricFaults' \in 0..MaxFaults,
         metricFaults' = 0 => metricFaults = 0,
         PollsInv(polls, previousStats)'
  PROVE  MetricsInv'
  <1>1. CountsInv'
    BY DEF MetricsInv, CountsInv
  <1>2. \A u \in Metrics!Queues : QueueInv(u)'
    BY DEF MetricsInv, QueueInv
  <1> QED BY <1>1, <1>2 DEF MetricsInv

LEMMA PollsBegin ==
  ASSUME Metrics!MetricsAssumption, MetricsInv, Metrics!Begin, running' \in BOOLEAN
  PROVE  MetricsInv'
  <1>1. PICK ps, next : ps = polls /\ next = polls'
    OBVIOUS
  <1>2. /\ next = Append(ps, <<>>) /\ Len(ps) < MaxPolls
        /\ UNCHANGED <<recorded, arrived, consumed, publishCounts, previousStats,
                       currentMetrics, reported, truth, metricFaults>>
    BY <1>1 DEF Metrics!Begin
  <1>3. PollsInv(ps, previousStats) /\ MaxPolls \in Nat /\ QueueCount \in Nat
    BY <1>1 DEF MetricsInv, Metrics!MetricsAssumption
  <1>4. /\ ps \in Seq(Seq(Metrics!Statistics)) /\ Len(ps) \in Nat
        /\ Len(next) = Len(ps) + 1 /\ Len(next) <= MaxPolls
        /\ next \in Seq(Seq(Metrics!Statistics))
        /\ \A p \in 1..Len(ps) : next[p] = ps[p]
        /\ next[Len(ps) + 1] = <<>>
    <2>1. ps \in Seq(Seq(Metrics!Statistics)) /\ <<>> \in Seq(Metrics!Statistics)
      BY <1>3 DEF PollsInv
    <2>2. PICK empty : empty = <<>>
      OBVIOUS
    <2>3. empty \in Seq(Metrics!Statistics) /\ next = Append(ps, empty)
      BY <1>2, <2>1, <2>2
    <2>4. PICK Sums : Sums = Seq(Metrics!Statistics)
      OBVIOUS
    <2>5. ps \in Seq(Sums) /\ empty \in Sums
      BY <2>1, <2>3, <2>4
    <2>6. Len(ps) \in Nat /\ Len(next) = Len(ps) + 1 /\ next \in Seq(Sums)
      BY <2>3, <2>5
    <2>7. \A p \in 1..Len(ps) : next[p] = ps[p]
      BY <2>3, <2>5
    <2>8. next[Len(ps) + 1] = empty
      BY <2>3, <2>5
    <2>9. Len(next) <= MaxPolls
      BY <1>2, <1>3, <2>6
    <2>10. next \in Seq(Seq(Metrics!Statistics)) /\ next[Len(ps) + 1] = <<>>
      BY <2>2, <2>4, <2>6, <2>8, Zenon
    <2> QED BY <2>1, <2>6, <2>7, <2>9, <2>10, Zenon
  <1>5. \A p \in 1..Len(next) : next[p] = <<>> \/ (p \in 1..Len(ps) /\ next[p] = ps[p])
    <2>1. PICK n \in Nat : n = Len(ps)
      BY <1>4
    <2>2. \A p \in 1..(n + 1) : p \in 1..n \/ p = n + 1
      OBVIOUS
    <2> QED BY <1>4, <2>1, <2>2, Zenon
  <1>6. \A s, u : StatsFit(s, u) => StatsFit(s, u)'
    BY <1>2 DEF StatsFit
  <1>7. \A p \in 1..Len(next) : Len(next[p]) <= QueueCount
    BY <1>3, <1>5 DEF PollsInv
  <1>8. \A p \in 1..Len(next) : \A u \in 1..Len(next[p]) :
          StatsFit(next[p][u], u)' /\ Precedes(previousStats'[u], next[p][u])
    BY <1>2, <1>3, <1>5, <1>6 DEF PollsInv
  <1>9. \A o, p \in 1..Len(next) : o < p =>
          /\ Len(next[p]) <= Len(next[o])
          /\ \A u \in 1..Len(next[p]) : Precedes(next[o][u], next[p][u])
    <2> SUFFICES ASSUME NEW o \in 1..Len(next), NEW p \in 1..Len(next), o < p
                 PROVE  /\ Len(next[p]) <= Len(next[o])
                        /\ \A u \in 1..Len(next[p]) : Precedes(next[o][u], next[p][u])
      OBVIOUS
    <2>1. o \in 1..Len(ps) /\ next[o] = ps[o]
      <3>1. Len(next) = Len(ps) + 1 /\ Len(ps) \in Nat
        BY <1>4
      <3>2. o \in 1..Len(ps)
        BY <3>1
      <3> QED BY <1>4, <3>2
    <2>2. CASE next[p] = <<>>
      BY <1>3, <1>4, <2>1, <2>2
    <2>3. CASE p \in 1..Len(ps) /\ next[p] = ps[p]
      BY <1>3, <2>1, <2>3 DEF PollsInv
    <2> QED BY <1>5, <2>2, <2>3
  <1>10. PollsInv(polls, previousStats)'
    BY <1>1, <1>4, <1>7, <1>8, <1>9 DEF PollsInv, Precedes
  <1> QED BY <1>2, <1>10, PollsMove DEF MetricsInv, CountsInv

LEMMA PollsRead ==
  ASSUME Metrics!MetricsAssumption, MetricsInv, NEW p \in DOMAIN polls,
         Metrics!GetQueueStats(p)
  PROVE  MetricsInv'
  <1>1. PICK ps, next : ps = polls /\ next = polls'
    OBVIOUS
  <1>2. PICK q : q = Len(ps[p]) + 1
    OBVIOUS
  <1>3. /\ PollsInv(ps, previousStats) /\ MaxPolls \in Nat /\ QueueCount \in Nat
        /\ MaxFaults \in Nat /\ metricFaults \in 0..MaxFaults
    BY <1>1 DEF MetricsInv, CountsInv, Metrics!MetricsAssumption
  <1>4. /\ ps \in Seq(Seq(Metrics!Statistics)) /\ Len(ps) \in Nat /\ p \in 1..Len(ps)
        /\ ps[p] \in Seq(Metrics!Statistics) /\ Len(ps[p]) \in Nat
    BY <1>1, <1>3 DEF PollsInv
  <1>5. q \in 1..QueueCount /\ q \in Metrics!Queues /\ \A o \in 1..(p - 1) : Len(ps[o]) >= q
    BY <1>1, <1>2 DEF Metrics!GetQueueStats, Metrics!Queues
  <1>6. PICK s : /\ next = [ps EXCEPT ![p] = Append(ps[p], s)]
                 /\ \/ s = Metrics!Stats(q) /\ UNCHANGED metricFaults
                    \/ /\ s = Metrics!None /\ metricFaults < MaxFaults
                       /\ metricFaults' = metricFaults + 1
    BY <1>1, <1>2 DEF Metrics!GetQueueStats
  <1>7. UNCHANGED <<recorded, arrived, consumed, running, publishCounts, previousStats,
                    currentMetrics, reported, truth>>
    BY DEF Metrics!GetQueueStats
  <1>8. metricFaults' \in 0..MaxFaults /\ (metricFaults' = 0 => metricFaults = 0)
    BY <1>3, <1>6
  <1>9. arrived[q] \in Nat /\ consumed[q] \in Nat /\ consumed[q] <= arrived[q]
    <2>1. QueueInv(q) /\ CountsInv
      BY <1>5 DEF MetricsInv
    <2> QED BY <1>5, <2>1 DEF CountsInv, QueueInv
  <1>10. s \in Metrics!Statistics /\ (s.known => s.consumed = consumed[q] /\ s.arrived = arrived[q])
    <2>1. CASE s = Metrics!Stats(q)
      BY <1>9, <2>1 DEF Metrics!Stats, Metrics!Statistics
    <2>2. CASE s = Metrics!None
      BY <2>2 DEF Metrics!None, Metrics!Statistics
    <2> QED BY <1>6, <2>1, <2>2
  <1>11. StatsFit(s, q)'
    <2>1. metricFaults' = 0 => s.known
      BY <1>3, <1>6 DEF Metrics!Stats
    <2> QED BY <1>7, <1>9, <1>10, <2>1 DEF StatsFit
  <1>12. \A t, u : StatsFit(t, u) => StatsFit(t, u)' /\ (u = q => Precedes(t, s))
    BY <1>7, <1>8, <1>10 DEF StatsFit, Precedes
  <1>13. /\ next \in Seq(Seq(Metrics!Statistics)) /\ Len(next) = Len(ps)
         /\ next[p] = Append(ps[p], s)
         /\ \A o \in 1..Len(ps) \ {p} : next[o] = ps[o]
    BY <1>4, <1>6, <1>10
  <1>14. /\ Len(next[p]) = q /\ next[p][q] = s
         /\ \A u \in 1..(q - 1) : next[p][u] = ps[p][u]
    <2>1. PICK l : l = ps[p]
      OBVIOUS
    <2>2. next[p] = Append(l, s) /\ l \in Seq(Metrics!Statistics) /\ q = Len(l) + 1
      BY <1>2, <1>4, <1>13, <2>1
    <2> QED BY <1>10, <2>1, <2>2
  <1>15. \A o \in 1..Len(next) : Len(next[o]) <= QueueCount
    <2> SUFFICES ASSUME NEW o \in 1..Len(next) PROVE Len(next[o]) <= QueueCount
      OBVIOUS
    <2>1. CASE o = p
      BY <1>3, <1>5, <1>14, <2>1
    <2>2. CASE o # p
      BY <1>3, <1>13, <2>2 DEF PollsInv
    <2> QED BY <2>1, <2>2
  <1>16. Precedes(previousStats[q], s)
    <2>1. QueueInv(q)
      BY <1>5 DEF MetricsInv
    <2> QED BY <1>10, <2>1 DEF QueueInv, Precedes
  <1>17. \A o \in 1..Len(next) : \A u \in 1..Len(next[o]) :
           StatsFit(next[o][u], u)' /\ Precedes(previousStats'[u], next[o][u])
    <2> SUFFICES ASSUME NEW o \in 1..Len(next), NEW u \in 1..Len(next[o])
                 PROVE  StatsFit(next[o][u], u)' /\ Precedes(previousStats'[u], next[o][u])
      OBVIOUS
    <2>1. CASE o = p /\ u = q
      BY <1>7, <1>11, <1>14, <1>16, <2>1
    <2>2. CASE ~(o = p /\ u = q)
      <3>1. u \in 1..Len(ps[o]) /\ next[o][u] = ps[o][u]
        <4>1. CASE o # p
          BY <1>13, <4>1
        <4>2. CASE o = p
          <5>1. u \in 1..(q - 1)
            BY <1>5, <1>14, <2>2, <4>2
          <5>2. q - 1 = Len(ps[p])
            BY <1>2, <1>4
          <5> QED BY <1>14, <4>2, <5>1, <5>2
        <4> QED BY <4>1, <4>2
      <3>2. StatsFit(ps[o][u], u) /\ Precedes(previousStats[u], ps[o][u])
        BY <1>3, <1>13, <3>1 DEF PollsInv
      <3> QED BY <1>7, <1>12, <3>1, <3>2
    <2> QED BY <2>1, <2>2
  <1>18. \A o, y \in 1..Len(next) : o < y =>
           /\ Len(next[y]) <= Len(next[o])
           /\ \A u \in 1..Len(next[y]) : Precedes(next[o][u], next[y][u])
    <2> SUFFICES ASSUME NEW o \in 1..Len(next), NEW y \in 1..Len(next), o < y
                 PROVE  /\ Len(next[y]) <= Len(next[o])
                        /\ \A u \in 1..Len(next[y]) : Precedes(next[o][u], next[y][u])
      OBVIOUS
    <2>1. /\ o \in 1..Len(ps) /\ y \in 1..Len(ps)
          /\ Len(ps[y]) <= Len(ps[o]) /\ Len(ps[o]) \in Nat /\ Len(ps[y]) \in Nat
          /\ \A u \in 1..Len(ps[y]) : Precedes(ps[o][u], ps[y][u])
      BY <1>3, <1>4, <1>13 DEF PollsInv
    <2>2. CASE o # p /\ y # p
      <3>1. next[o] = ps[o] /\ next[y] = ps[y]
        BY <1>13, <2>1, <2>2
      <3> QED BY <2>1, <3>1
    <2>3. CASE o = p
      <3>1. next[y] = ps[y]
        BY <1>13, <2>1, <2>3
      <3>2. \A u \in 1..Len(ps[y]) : next[o][u] = ps[o][u]
        BY <1>2, <1>14, <2>1, <2>3
      <3>3. Len(ps[y]) <= Len(next[o])
        BY <1>2, <1>14, <2>1, <2>3
      <3> QED BY <2>1, <3>1, <3>2, <3>3
    <2>4. CASE y = p
      <3>1. next[o] = ps[o] /\ Len(ps[o]) >= q
        BY <1>5, <1>13, <2>1, <2>4
      <3>2. \A u \in 1..(q - 1) : Precedes(next[o][u], next[y][u])
        BY <1>2, <1>14, <2>1, <2>4, <3>1
      <3>3. Precedes(next[o][q], next[y][q])
        <4>1. StatsFit(ps[o][q], q)
          BY <1>3, <1>5, <2>1, <3>1 DEF PollsInv
        <4> QED BY <1>12, <1>14, <2>4, <3>1, <4>1
      <3>4. \A u \in 1..q : u \in 1..(q - 1) \/ u = q
        BY <1>5
      <3> QED BY <1>14, <2>4, <3>1, <3>2, <3>3, <3>4
    <2> QED BY <2>2, <2>3, <2>4
  <1>19. PollsInv(polls, previousStats)'
    BY <1>1, <1>3, <1>13, <1>15, <1>17, <1>18 DEF PollsInv, Precedes
  <1>20. running' \in BOOLEAN
    BY <1>7 DEF MetricsInv, CountsInv
  <1> QED BY <1>7, <1>8, <1>19, <1>20, PollsMove

(* One queue's report is explained by its statistics and those before.     *)
LEMMA ReportExplains ==
  ASSUME Metrics!MetricsAssumption, MetricsInv, Metrics!Report, NEW q \in Metrics!Queues
  PROVE  /\ QueueInv(q)'
         /\ previousStats'[q] = IF Head(polls)[q].known THEN Head(polls)[q] ELSE previousStats[q]
         /\ previousStats'[q] \in Metrics!Statistics
         /\ currentMetrics'[q] \in [publishedRate : Nat, consumedRate : Nat]
         /\ truth'[q] \in [consumed : Nat, late : Nat, early : Nat]
         /\ publishCounts'[q] \in Nat /\ reported'[q] \in Nat
  <1>1. PICK s, prev, rec, arr, cons, pub, rep, tru :
          /\ s = Head(polls)[q] /\ prev = previousStats[q] /\ rec = recorded[q]
          /\ arr = arrived[q] /\ cons = consumed[q] /\ pub = publishCounts[q]
          /\ rep = reported[q] /\ tru = truth[q]
    OBVIOUS
  <1>2. /\ CountsInv /\ QueueInv(q) /\ PollsInv(polls, previousStats)
        /\ QueueCount \in Nat
    BY DEF MetricsInv, Metrics!MetricsAssumption
  <1>3. /\ rec \in Nat /\ arr \in Nat /\ cons \in Nat /\ pub \in Nat /\ rep \in Nat
        /\ prev \in Metrics!Statistics
        /\ tru \in [consumed : Nat, late : Nat, early : Nat]
        /\ currentMetrics[q] \in [publishedRate : Nat, consumedRate : Nat]
    BY <1>1, <1>2 DEF CountsInv
  <1>4. StatsFit(s, q) /\ Precedes(prev, s)
    <2>1. /\ polls # <<>> /\ Len(Head(polls)) = QueueCount
          /\ polls \in Seq(Seq(Metrics!Statistics))
      BY <1>2 DEF Metrics!Report, PollsInv
    <2>2. 1 \in 1..Len(polls) /\ Head(polls) = polls[1]
      BY <2>1
    <2>3. q \in 1..Len(polls[1])
      BY <2>1, <2>2 DEF Metrics!Queues
    <2> QED BY <1>1, <1>2, <2>2, <2>3 DEF PollsInv
  <1>5. /\ UNCHANGED <<recorded, arrived, consumed, metricFaults>>
        /\ publishCounts'[q] = 0
        /\ s.known =>
             /\ currentMetrics'[q] = [publishedRate |-> pub,
                                      consumedRate |-> Metrics!ConsumedRate(q, s)]
             /\ previousStats'[q] = s
             /\ reported'[q] = rep + pub
             /\ truth'[q] = Metrics!Truth(q, s)
        /\ ~s.known =>
             /\ currentMetrics'[q] = currentMetrics[q]
             /\ previousStats'[q] = prev
             /\ reported'[q] = rep + 0
             /\ truth'[q] = tru
    BY <1>1 DEF Metrics!Report, Metrics!Counted
  <1>6. metricFaults = 0 => s.known
    BY <1>4 DEF StatsFit
  <1>7. CASE ~s.known
    <2>1. prev.known => prev.arrived \in Nat /\ prev.consumed \in Nat
      BY <1>3, StatsTypes
    <2>2. QueueInv(q)'
      BY <1>1, <1>2, <1>3, <1>5, <1>6, <1>7, <2>1 DEF QueueInv
    <2> QED BY <1>1, <1>3, <1>5, <1>7, <2>2
  <1>8. CASE s.known
    <2>1. /\ s.arrived \in Nat /\ s.consumed \in Nat /\ s.consumed <= s.arrived
          /\ s.arrived <= arr /\ s.consumed <= cons /\ arr <= rec
      BY <1>1, <1>2, <1>4, <1>8, StatsTypes DEF StatsFit, QueueInv
    <2>2. tru.late \in Nat /\ rep + pub <= rec /\ (metricFaults = 0 => rep + pub = rec)
      BY <1>1, <1>2, <1>3 DEF QueueInv
    <2>3. PICK rate : rate = Metrics!ConsumedRate(q, s)
      OBVIOUS
    <2>4. /\ truth'[q].late = rec - s.arrived /\ truth'[q].early = tru.late
          /\ truth'[q].consumed = IF prev.known THEN s.consumed - prev.consumed ELSE 0
          /\ truth'[q] = [consumed |-> IF prev.known THEN s.consumed - prev.consumed ELSE 0,
                          late |-> rec - s.arrived, early |-> tru.late]
      BY <1>1, <1>5, <1>8 DEF Metrics!Truth
    <2>5. currentMetrics'[q].consumedRate = rate
      BY <1>5, <1>8, <2>3
    <2>6. CASE ~prev.known
      <3>1. rate = 0
        BY <1>1, <2>3, <2>6 DEF Metrics!ConsumedRate
      <3>2. truth'[q] = [consumed |-> 0, late |-> rec - s.arrived, early |-> tru.late]
        BY <2>4, <2>6
      <3>3. QueueInv(q)'
        BY <1>1, <1>2, <1>3, <1>5, <1>8, <2>1, <2>2, <2>5, <3>1, <3>2 DEF QueueInv
      <3>4. truth'[q] \in [consumed : Nat, late : Nat, early : Nat]
        BY <1>3, <2>1, <2>2, <3>2
      <3> QED BY <1>1, <1>3, <1>4, <1>5, <1>8, <2>3, <3>1, <3>3, <3>4 DEF StatsFit
    <2>7. CASE prev.known
      <3>1. /\ prev.arrived \in Nat /\ prev.consumed \in Nat
            /\ prev.consumed <= prev.arrived /\ prev.consumed <= s.consumed
            /\ prev.arrived + tru.late + pub <= rec
            /\ metricFaults = 0 => prev.arrived + tru.late + pub = rec
        BY <1>1, <1>2, <1>3, <1>4, <1>8, <2>7, StatsTypes DEF QueueInv, Precedes
      <3>2. rate = IF prev.arrived - prev.consumed + pub > s.arrived - s.consumed
                   THEN (prev.arrived - prev.consumed + pub) - (s.arrived - s.consumed)
                   ELSE 0
        BY <1>1, <2>3, <2>7 DEF Metrics!ConsumedRate, Metrics!MessageCount
      <3>3. truth'[q] = [consumed |-> s.consumed - prev.consumed, late |-> rec - s.arrived,
                         early |-> tru.late]
        BY <2>4, <2>7
      <3>4. /\ rate \in Nat
            /\ rate <= (s.consumed - prev.consumed) + (rec - s.arrived)
            /\ metricFaults = 0 => s.consumed - prev.consumed <= rate + tru.late
        BY <1>3, <2>1, <2>2, <3>1, <3>2
      <3>5. QueueInv(q)'
        BY <1>1, <1>2, <1>3, <1>5, <1>8, <2>1, <2>2, <2>5, <3>1, <3>3,
           <3>4 DEF QueueInv
      <3>6. truth'[q] \in [consumed : Nat, late : Nat, early : Nat]
        BY <1>3, <2>1, <2>2, <3>1, <3>3
      <3> QED BY <1>1, <1>3, <1>4, <1>5, <1>8, <2>3, <3>4, <3>5, <3>6 DEF StatsFit
    <2> QED BY <2>6, <2>7
  <1> QED BY <1>7, <1>8

LEMMA PollsReport ==
  ASSUME Metrics!MetricsAssumption, MetricsInv, Metrics!Report
  PROVE  MetricsInv'
  <1>1. PICK ps, next, before, after :
          ps = polls /\ next = polls' /\ before = previousStats /\ after = previousStats'
    OBVIOUS
  <1>2. /\ PollsInv(ps, before) /\ MaxPolls \in Nat /\ QueueCount \in Nat
    BY <1>1 DEF MetricsInv, Metrics!MetricsAssumption
  <1>3. /\ ps \in Seq(Seq(Metrics!Statistics)) /\ ps # <<>> /\ next = Tail(ps)
        /\ Len(Head(ps)) = QueueCount
        /\ UNCHANGED <<recorded, arrived, consumed, running, metricFaults>>
    BY <1>1, <1>2 DEF Metrics!Report, PollsInv
  <1>4. /\ next \in Seq(Seq(Metrics!Statistics)) /\ Len(next) = Len(ps) - 1
        /\ Len(ps) \in Nat /\ Len(ps) >= 1 /\ Head(ps) = ps[1]
        /\ \A p \in 1..Len(next) : p + 1 \in 1..Len(ps) /\ next[p] = ps[p + 1]
    BY <1>3
  <1>5. \A q \in Metrics!Queues : after[q] = IF ps[1][q].known THEN ps[1][q] ELSE before[q]
    BY <1>1, <1>4, ReportExplains
  <1>6. \A s, u : StatsFit(s, u) => StatsFit(s, u)'
    BY <1>3 DEF StatsFit
  <1>7. \A p \in 1..Len(next) : \A u \in 1..Len(next[p]) :
          StatsFit(next[p][u], u)' /\ Precedes(after[u], next[p][u])
    <2> SUFFICES ASSUME NEW p \in 1..Len(next), NEW u \in 1..Len(next[p])
                 PROVE  StatsFit(next[p][u], u)' /\ Precedes(after[u], next[p][u])
      OBVIOUS
    <2>1. PICK y \in 1..Len(ps) : y = p + 1 /\ next[p] = ps[y] /\ 1 < y /\ 1 \in 1..Len(ps)
      BY <1>4
    <2>2. /\ StatsFit(ps[y][u], u) /\ Precedes(before[u], ps[y][u])
          /\ Precedes(ps[1][u], ps[y][u])
      BY <1>2, <2>1 DEF PollsInv
    <2>3. u \in Metrics!Queues
      BY <1>2, <1>3, <1>4, <2>1 DEF PollsInv, Metrics!Queues
    <2>4. after[u] = ps[1][u] \/ after[u] = before[u]
      BY <1>5, <2>3
    <2> QED BY <1>6, <2>1, <2>2, <2>4
  <1>8. \A o, p \in 1..Len(next) : o < p =>
          /\ Len(next[p]) <= Len(next[o])
          /\ \A u \in 1..Len(next[p]) : Precedes(next[o][u], next[p][u])
    <2> SUFFICES ASSUME NEW o \in 1..Len(next), NEW p \in 1..Len(next), o < p
                 PROVE  /\ Len(next[p]) <= Len(next[o])
                        /\ \A u \in 1..Len(next[p]) : Precedes(next[o][u], next[p][u])
      OBVIOUS
    <2>1. o + 1 \in 1..Len(ps) /\ p + 1 \in 1..Len(ps) /\ o + 1 < p + 1
      BY <1>4
    <2> QED BY <1>2, <1>4, <2>1 DEF PollsInv
  <1>9. \A p \in 1..Len(next) : Len(next[p]) <= QueueCount
    BY <1>2, <1>4 DEF PollsInv
  <1>10. Len(next) <= MaxPolls
    BY <1>2, <1>4 DEF PollsInv
  <1>11. PollsInv(polls, previousStats)'
    BY <1>1, <1>4, <1>7, <1>8, <1>9, <1>10 DEF PollsInv, Precedes
  <1>12. /\ DOMAIN publishCounts' = Metrics!Queues /\ DOMAIN reported' = Metrics!Queues
         /\ publishCounts' = [q \in Metrics!Queues |-> publishCounts'[q]]
         /\ reported' = [q \in Metrics!Queues |-> reported'[q]]
         /\ previousStats' = [q \in Metrics!Queues |-> previousStats'[q]]
         /\ currentMetrics' = [q \in Metrics!Queues |-> currentMetrics'[q]]
         /\ truth' = [q \in Metrics!Queues |-> truth'[q]]
    BY DEF Metrics!Report
  <1>13. /\ publishCounts' \in [Metrics!Queues -> Nat] /\ reported' \in [Metrics!Queues -> Nat]
         /\ previousStats' \in [Metrics!Queues -> Metrics!Statistics]
         /\ currentMetrics' \in [Metrics!Queues -> [publishedRate : Nat, consumedRate : Nat]]
         /\ truth' \in [Metrics!Queues -> [consumed : Nat, late : Nat, early : Nat]]
    BY <1>12, ReportExplains
  <1>14. CountsInv'
    BY <1>3, <1>13 DEF MetricsInv, CountsInv
  <1>15. \A q \in Metrics!Queues : QueueInv(q)'
    BY ReportExplains
  <1> QED BY <1>11, <1>14, <1>15 DEF MetricsInv

LEMMA MetricsNext ==
  ASSUME Metrics!MetricsAssumption, MetricsInv, [Metrics!Next]_metricVars
  PROVE  MetricsInv'
  <1>1. CASE Metrics!Stop \/ UNCHANGED metricVars
    <2>1. /\ UNCHANGED <<recorded, arrived, consumed, publishCounts, previousStats,
                         currentMetrics, reported, truth, polls, metricFaults>>
          /\ running' \in BOOLEAN
      BY <1>1 DEF Metrics!Stop, metricVars, MetricsInv, CountsInv
    <2>2. PollsInv(polls, previousStats)'
      BY <2>1 DEF MetricsInv, PollsInv, StatsFit, Precedes
    <2>3. metricFaults' \in 0..MaxFaults
      BY <2>1 DEF MetricsInv, CountsInv
    <2> QED BY <2>1, <2>2, <2>3, PollsMove
  <1>2. CASE Metrics!Start \/ Metrics!Tick
    <2>1. Metrics!Begin /\ running' \in BOOLEAN
      BY <1>2 DEF Metrics!Start, Metrics!Tick, MetricsInv, CountsInv
    <2> QED BY <2>1, PollsBegin
  <1> QED BY <1>1, <1>2, MessagesMove, PollsRead, PollsReport DEF Metrics!Next

-----------------------------------------------------------------------------
(***************************************************************************)
(* Dashboard.  The sum of the counts in an answer is a recursive function  *)
(* over its subsets: that there is one, and what it sums if the rows count *)
(* sets that do not meet, follow from the principle of the least number.   *)
(***************************************************************************)
Some(s) == CHOOSE x \in s : TRUE
Sums(D, g) == g = [s \in D |-> IF s = {} THEN 0 ELSE Some(s).value.part + g[s \ {Some(s)}]]
Small(S, n) == {s \in SUBSET S : Cardinality(s) <= n}

LEMMA CountedIs ==
  ASSUME NEW S
  PROVE  Board!Counted(S) = (CHOOSE g : Sums(SUBSET S, g))[S]
  BY DEF Board!Counted, Board!MapThenSumSet, Board!MapThenFoldSet, Sums, Some

LEMMA OneLess ==
  ASSUME NEW S, IsFiniteSet(S), NEW s \in SUBSET S, s # {}
  PROVE  /\ Some(s) \in s /\ IsFiniteSet(s) /\ Cardinality(s) \in Nat \ {0}
         /\ s \ {Some(s)} \in SUBSET S /\ Cardinality(s \ {Some(s)}) = Cardinality(s) - 1
  <1>1. Some(s) \in s
    BY DEF Some
  <1>2. IsFiniteSet(s)
    BY FS_Subset
  <1>3. Cardinality(s) \in Nat /\ Cardinality(s) # 0
    BY <1>2, FS_CardinalityType, FS_EmptySet
  <1>4. Cardinality(s \ {Some(s)}) = Cardinality(s) - 1
    BY <1>1, <1>2, FS_RemoveElement
  <1> QED BY <1>1, <1>2, <1>3, <1>4

LEMMA SumsThere ==
  ASSUME NEW S, IsFiniteSet(S)
  PROVE  \E g : Sums(SUBSET S, g)
  <1> DEFINE T == {n \in Nat : ~\E g : Sums(Small(S, n), g)}
  <1>1. ASSUME T # {} PROVE FALSE
    <2>1. PICK x \in T : \A y \in T : x <= y
      <3>1. T \in SUBSET Nat
        OBVIOUS
      <3> HIDE DEF T
      <3> QED BY <1>1, <3>1, LeastNumber
    <2>2. x \in Nat /\ ~\E g : Sums(Small(S, x), g)
      OBVIOUS
    <2>3. CASE x = 0
      <3>1. ASSUME NEW s \in Small(S, 0), s # {} PROVE FALSE
        <4>1. s \in SUBSET S /\ Cardinality(s) <= 0
          BY DEF Small
        <4>2. Cardinality(s) \in Nat \ {0}
          BY <3>1, <4>1, OneLess
        <4> QED BY <4>1, <4>2
      <3>2. Sums(Small(S, 0), [s \in Small(S, 0) |-> 0])
        BY <3>1 DEF Sums
      <3> QED BY <2>2, <2>3, <3>2
    <2>4. CASE x # 0
      <3>1. x - 1 \in Nat /\ x - 1 \notin T
        BY <2>1, <2>2, <2>4
      <3>2. PICK g : Sums(Small(S, x - 1), g)
        BY <3>1
      <3> DEFINE more(s) == IF s = {} THEN 0 ELSE Some(s).value.part + g[s \ {Some(s)}]
                 h == [s \in Small(S, x) |-> more(s)]
      <3>3. \A s \in Small(S, x - 1) : g[s] = more(s) /\ s \in Small(S, x)
        <4>1. \A s \in Small(S, x - 1) : g[s] = more(s)
          BY <3>2 DEF Sums
        <4>2. \A s \in Small(S, x - 1) : s \in Small(S, x)
          BY <2>2, FS_Subset, FS_CardinalityType DEF Small
        <4> QED BY <4>1, <4>2
      <3>4. \A s \in Small(S, x) : s # {} => s \ {Some(s)} \in Small(S, x - 1)
        BY <2>2, OneLess DEF Small
      <3> HIDE DEF more
      <3>5. \A s \in Small(S, x) : s # {} => h[s \ {Some(s)}] = g[s \ {Some(s)}]
        BY <3>3, <3>4
      <3>6. \A s \in Small(S, x) :
              more(s) = IF s = {} THEN 0 ELSE Some(s).value.part + h[s \ {Some(s)}]
        BY <3>5 DEF more
      <3>7. Sums(Small(S, x), h)
        BY <3>6 DEF Sums
      <3> QED BY <2>2, <3>7
    <2> QED BY <2>3, <2>4
  <1>2. Cardinality(S) \in Nat /\ Cardinality(S) \notin T
    BY <1>1, FS_CardinalityType
  <1>3. Small(S, Cardinality(S)) = SUBSET S
    BY FS_Subset DEF Small
  <1> QED BY <1>2, <1>3

(* The union of the sets X gives the members of T.                         *)
Joined(X, T) == UNION {X[r] : r \in T}

LEMMA SumsCount ==
  ASSUME NEW S, IsFiniteSet(S), NEW g, Sums(SUBSET S, g), NEW X,
         \A r \in S : /\ IsFiniteSet(X[r]) /\ r.value.part \in Nat
                      /\ r.value.part <= Cardinality(X[r]),
         \A r, s \in S : r # s => X[r] \cap X[s] = {},
         NEW U \in SUBSET S
  PROVE  /\ IsFiniteSet(Joined(X, U)) /\ g[U] \in Nat
         /\ g[U] <= Cardinality(Joined(X, U))
  <1> DEFINE Good(s) == /\ IsFiniteSet(Joined(X, s)) /\ g[s] \in Nat
                       /\ g[s] <= Cardinality(Joined(X, s))
             T == {Cardinality(s) : s \in {s \in SUBSET S : ~Good(s)}}
  <1>1. ASSUME T # {} PROVE FALSE
    <2>1. T \in SUBSET Nat
      BY FS_Subset, FS_CardinalityType
    <2>2. PICK x \in T : \A y \in T : x <= y
      <3> HIDE DEF T
      <3> QED BY <1>1, <2>1, LeastNumber
    <2>3. PICK s \in SUBSET S : ~Good(s) /\ x = Cardinality(s)
      OBVIOUS
    <2>4. CASE s = {}
      <3>1. Joined(X, s) = {}
        BY <2>4 DEF Joined
      <3>2. g[s] = 0
        BY <2>4 DEF Sums
      <3> QED BY <2>3, <3>1, <3>2, FS_EmptySet
    <2>5. CASE s # {}
      <3> DEFINE r == Some(s)
                 t == s \ {r}
      <3>1. /\ r \in s /\ IsFiniteSet(s) /\ Cardinality(s) \in Nat \ {0}
            /\ t \in SUBSET S /\ Cardinality(t) = Cardinality(s) - 1
        BY <2>5, OneLess
      <3>2. g[s] = r.value.part + g[t]
        BY <2>5 DEF Sums
      <3> HIDE DEF r, t
      <3>3. Good(t)
        <4>1. Cardinality(t) \notin T
          <5>1. x \in Nat /\ Cardinality(t) = x - 1
            BY <2>1, <2>2, <2>3, <3>1
          <5> HIDE DEF T
          <5> QED BY <2>2, <5>1
        <4> QED BY <3>1, <4>1
      <3>4. Joined(X, s) = X[r] \cup Joined(X, t)
        BY <3>1 DEF Joined, t
      <3>5. X[r] \cap Joined(X, t) = {}
        BY <3>1 DEF Joined, t
      <3>6. /\ IsFiniteSet(X[r]) /\ r.value.part \in Nat
            /\ r.value.part <= Cardinality(X[r])
        BY <3>1
      <3>7. /\ IsFiniteSet(Joined(X, s))
            /\ Cardinality(Joined(X, s)) = Cardinality(X[r]) + Cardinality(Joined(X, t))
        <4>1. IsFiniteSet(Joined(X, s))
          <5>1. IsFiniteSet(Joined(X, t))
            BY <3>3
          <5>2. IsFiniteSet(X[r] \cup Joined(X, t))
            BY <3>6, <5>1, FS_Union
          <5> QED BY <3>4, <5>2
        <4>2. Cardinality(X[r] \cup Joined(X, t)) =
                Cardinality(X[r]) + Cardinality(Joined(X, t))
                  - Cardinality(X[r] \cap Joined(X, t))
          BY <3>3, <3>6, FS_Union
        <4>3. Cardinality(X[r] \cap Joined(X, t)) = 0
          BY <3>5, FS_EmptySet
        <4>4. Cardinality(X[r]) \in Nat /\ Cardinality(Joined(X, t)) \in Nat
          BY <3>3, <3>6, FS_CardinalityType
        <4> QED BY <3>4, <4>1, <4>2, <4>3, <4>4
      <3>8. Cardinality(X[r]) \in Nat /\ Cardinality(Joined(X, t)) \in Nat
        BY <3>3, <3>6, FS_CardinalityType
      <3> QED BY <2>3, <3>2, <3>3, <3>6, <3>7, <3>8
    <2> QED BY <2>4, <2>5
  <1>2. Good(U)
    BY <1>1
  <1> QED BY <1>2

(* Rows that count orders of sets that do not meet together count no more  *)
(* orders than there are.                                                  *)
LEMMA CountedWithin ==
  ASSUME NEW S, IsFiniteSet(S), NEW X, NEW All, IsFiniteSet(All),
         \A r \in S : /\ X[r] \subseteq All /\ r.value.part \in Nat
                      /\ r.value.part <= Cardinality(X[r]),
         \A r, s \in S : r # s => X[r] \cap X[s] = {}
  PROVE  Board!Counted(S) <= Cardinality(All)
  <1>1. PICK g : g = (CHOOSE h : Sums(SUBSET S, h))
    OBVIOUS
  <1>2. Sums(SUBSET S, g)
    BY <1>1, SumsThere
  <1>3. \A r \in S : IsFiniteSet(X[r])
    BY FS_Subset
  <1>4. /\ g[S] \in Nat /\ g[S] <= Cardinality(Joined(X, S))
        /\ IsFiniteSet(Joined(X, S))
    BY <1>2, <1>3, SumsCount, S \in SUBSET S
  <1>5. Cardinality(Joined(X, S)) <= Cardinality(All)
    <2>1. Joined(X, S) \subseteq All
      BY DEF Joined
    <2> QED BY <2>1, FS_Subset
  <1>6. Cardinality(Joined(X, S)) \in Nat /\ Cardinality(All) \in Nat
    BY <1>4, FS_CardinalityType
  <1>7. Board!Counted(S) = g[S]
    BY <1>1, CountedIs
  <1>8. PICK all, counted, joined :
          /\ all = Cardinality(All) /\ counted = g[S] /\ joined = Cardinality(Joined(X, S))
          /\ all \in Nat /\ counted \in Nat /\ joined \in Nat
          /\ counted <= joined /\ joined <= all
    BY <1>4, <1>5, <1>6
  <1> QED BY <1>7, <1>8

MetricNames == {"order_count", "fulfillment_rate", "return_rate", "avg_processing_time"}
Figures == [part : Nat, whole : Nat]
OrderRows ==
  {Board!NoOrder} \cup
  [placed : {TRUE}, tenant : {"own", "other"}, at : Nat, seen : Nat,
   status : {"open", "fulfilled", "returned"}]
PlacedOrders == {o \in Orders : order[o].placed}
OwnIn(start) == Board!Own(Board!Placed(start))

(* A bucket an aggregation computes has ended: unless one appears late its *)
(* orders are those that there will be, and whoever computes the count of  *)
(* orders computes this.                                                   *)
Exact(metric, start, value) ==
  /\ metric = "order_count" => value.part = Cardinality(OwnIn(start))
  /\ metric \in Board!Rates /\ "filter" \in boardRepairs =>
       value.whole = Cardinality(OwnIn(start))
Fitting(metric, start, value) ==
  /\ start \in Nat /\ start + Length <= now /\ metric \in MetricNames /\ value \in Figures
  /\ value.part <= Cardinality(OwnIn(start))
  /\ metric \in Board!Rates /\ "filter" \in boardRepairs =>
       value.whole <= Cardinality(OwnIn(start))
  /\ Board!AppearedLate(start) \/ Exact(metric, start, value)

RowType == [metric : MetricNames, start : Nat, value : Figures]
GoodRow(r) == r \in RowType /\ Fitting(r.metric, r.start, r.value)
GoodAnswer(A) == IsFiniteSet(A) /\ \A r \in A : GoodRow(r) /\ r.metric = "order_count"

Started ==
  [at : {"computing", "storing", "ended"}, start : Nat, values : Seq(Figures),
   unsaved : SUBSET MetricNames]
RunStates == {[at |-> "idle"]} \cup Started

(* Where an aggregation is: what it has computed fits, and what it stored  *)
(* is there or known to be missing.                                        *)
RunInv(s) ==
  /\ s \in RunStates
  /\ s.at = "computing" =>
       /\ s.start + Length <= now /\ Len(s.values) <= 3 /\ s.unsaved = {}
       /\ \A i \in 1..Len(s.values) : Fitting(Board!Metrics[i], s.start, s.values[i])
  /\ s.at = "storing" =>
       /\ s.start + Length <= now /\ Len(s.values) \in 1..4
       /\ \A i \in 1..Len(s.values) :
            Fitting(Board!Metrics[4 - Len(s.values) + i], s.start, s.values[i])
       /\ \A i \in 1..(4 - Len(s.values)) :
            Board!HasRow(Board!Metrics[i], s.start) \/ Board!Metrics[i] \in s.unsaved
  /\ s.at # "idle" /\ boardFaults = 0 => s.unsaved = {}
  /\ s.at = "ended" /\ boardFaults = 0 /\ "names" \in boardRepairs =>
       \A i \in 1..4 : Board!HasRow(Board!Metrics[i], s.start)

ClockInv ==
  /\ boardRepairs \in {{}, {"names", "filter"}} /\ boardKind \in Board!Kinds
  /\ boardFaults \in 0..MaxFaults /\ now \in Length..MaxTime
OrdersInv ==
  /\ order \in [Orders -> OrderRows] /\ IsFiniteSet(PlacedOrders)
  /\ \A o \in Orders :
       order[o].placed => order[o].seen \in Length..now /\ order[o].at \in 0..order[o].seen
RowsInv == IsFiniteSet(kpiRows) /\ \A r \in kpiRows : GoodRow(r)
RunsInv ==
  /\ aggregation \in [Ids -> RunStates] /\ \A a \in Ids : RunInv(aggregation[a])
  /\ pushed \subseteq 0..now /\ Board!PushedIsStored
AnswersInv ==
  /\ entry.held \in BOOLEAN /\ (entry.held => GoodAnswer(entry.answer))
  /\ \E places : reader \in [Readers -> places]
  /\ \A r \in Readers : reader[r].at = "filling" => GoodAnswer(reader[r].answer)
BoardInv == ClockInv /\ OrdersInv /\ RowsInv /\ RunsInv /\ AnswersInv

LEMMA MetricsAre ==
  /\ Len(Board!Metrics) = 4 /\ Board!Metrics[1] = "order_count"
  /\ \A i \in 1..4 : Board!Metrics[i] \in MetricNames
  /\ {Board!Metrics[i] : i \in 1..4} = MetricNames
  <1>1. /\ Len(Board!Metrics) = 4 /\ Board!Metrics[1] = "order_count"
        /\ Board!Metrics[2] = "fulfillment_rate" /\ Board!Metrics[3] = "return_rate"
        /\ Board!Metrics[4] = "avg_processing_time"
    BY DEF Board!Metrics
  <1>2. \A i \in 1..4 : i = 1 \/ i = 2 \/ i = 3 \/ i = 4
    OBVIOUS
  <1>3. \A i \in 1..4 : Board!Metrics[i] \in MetricNames
    BY <1>1, <1>2 DEF MetricNames
  <1>4. \A n \in MetricNames : \E i \in 1..4 : Board!Metrics[i] = n
    BY <1>1 DEF MetricNames
  <1> QED BY <1>1, <1>3, <1>4

LEMMA BoardCardinality == \A S : Board!Cardinality(S) = Cardinality(S)
  BY DEF Board!Cardinality, Cardinality

LEMMA BucketIsFinite ==
  ASSUME OrdersInv, NEW start
  PROVE  /\ Board!Placed(start) \subseteq PlacedOrders /\ IsFiniteSet(Board!Placed(start))
         /\ OwnIn(start) \subseteq Board!Placed(start) /\ IsFiniteSet(OwnIn(start))
         /\ Cardinality(OwnIn(start)) \in Nat /\ Cardinality(Board!Placed(start)) \in Nat
         /\ Cardinality(OwnIn(start)) <= Cardinality(Board!Placed(start))
  <1>1. Board!Placed(start) \subseteq PlacedOrders
    BY DEF Board!Placed, Board!InBucket, PlacedOrders
  <1>2. OwnIn(start) \subseteq Board!Placed(start)
    BY DEF OwnIn, Board!Own
  <1>3. IsFiniteSet(Board!Placed(start))
    BY <1>1, FS_Subset DEF OrdersInv
  <1>4. IsFiniteSet(OwnIn(start)) /\ Cardinality(OwnIn(start)) <= Cardinality(Board!Placed(start))
    BY <1>2, <1>3, FS_Subset
  <1> QED BY <1>1, <1>2, <1>3, <1>4, FS_CardinalityType

LEMMA ValueFits ==
  ASSUME OrdersInv, NEW metric \in MetricNames, NEW start \in Nat, start + Length <= now
  PROVE  Fitting(metric, start, Board!Value(metric, start))
  <1> DEFINE all == Board!Whole(start)
             own == OwnIn(start)
             some(statuses) == Board!InState(own, statuses)
  <1>1. /\ Cardinality(own) \in Nat /\ Cardinality(all) \in Nat /\ IsFiniteSet(own)
        /\ "filter" \in boardRepairs => Cardinality(all) = Cardinality(own)
    BY BucketIsFinite DEF Board!Whole, OwnIn
  <1>2. \A statuses :
          /\ Cardinality(some(statuses)) \in Nat
          /\ Cardinality(some(statuses)) <= Cardinality(own)
    <2> TAKE statuses
    <2>1. some(statuses) \subseteq own
      BY DEF Board!InState
    <2> HIDE DEF own, some
    <2> QED BY <1>1, <2>1, FS_Subset, FS_CardinalityType
  <1>3. Board!Value(metric, start) =
          CASE metric = "order_count" -> [part |-> Cardinality(own), whole |-> 0]
            [] metric = "fulfillment_rate" ->
                 [part |-> Cardinality(some({"fulfilled"})), whole |-> Cardinality(all)]
            [] metric = "return_rate" ->
                 [part |-> Cardinality(some({"returned"})), whole |-> Cardinality(all)]
            [] OTHER -> [part |-> Cardinality(some({"fulfilled", "returned"})), whole |-> 0]
    BY BoardCardinality, Zenon DEF Board!Value, OwnIn
  <1> HIDE DEF all, some
  <1>4. OwnIn(start) = own
    OBVIOUS
  <1> HIDE DEF own
  <1>5. CASE metric = "order_count"
    <2>1. Board!Value(metric, start) = [part |-> Cardinality(own), whole |-> 0]
      BY <1>3, <1>5
    <2> QED BY <1>1, <1>4, <1>5, <2>1 DEF Fitting, Exact, Board!Rates, Figures, MetricNames
  <1>6. CASE metric = "fulfillment_rate"
    <2>1. Board!Value(metric, start) =
            [part |-> Cardinality(some({"fulfilled"})), whole |-> Cardinality(all)]
      BY <1>3, <1>6
    <2> QED BY <1>1, <1>2, <1>4, <1>6, <2>1 DEF Fitting, Exact, Board!Rates, Figures, MetricNames
  <1>7. CASE metric = "return_rate"
    <2>1. Board!Value(metric, start) =
            [part |-> Cardinality(some({"returned"})), whole |-> Cardinality(all)]
      BY <1>3, <1>7
    <2> QED BY <1>1, <1>2, <1>4, <1>7, <2>1 DEF Fitting, Exact, Board!Rates, Figures, MetricNames
  <1>8. CASE metric = "avg_processing_time"
    <2>1. Board!Value(metric, start) =
            [part |-> Cardinality(some({"fulfilled", "returned"})), whole |-> 0]
      BY <1>3, <1>8
    <2> QED BY <1>1, <1>2, <1>4, <1>8, <2>1 DEF Fitting, Exact, Board!Rates, Figures, MetricNames
  <1> QED BY <1>5, <1>6, <1>7, <1>8 DEF MetricNames

(* What a step leaves as it is: the orders of buckets that have ended but  *)
(* for late ones, which are remembered, the rows' places, a fault once met.*)
BucketKept(start) ==
  /\ \A n \in Nat : n <= Cardinality(OwnIn(start)) => n <= Cardinality(OwnIn(start))'
  /\ \/ Board!AppearedLate(start)'
     \/ ~Board!AppearedLate(start) /\ OwnIn(start)' = OwnIn(start)
Carried ==
  /\ now' \in Nat /\ now <= now'
  /\ \A start \in Nat : start + Length <= now => BucketKept(start)
  /\ \A metric, start : Board!HasRow(metric, start) => Board!HasRow(metric, start)'
  /\ boardFaults' = 0 => boardFaults = 0
  /\ boardRepairs' = boardRepairs

LEMMA FittingStays ==
  ASSUME Board!DashboardAssumption, ClockInv, Carried, NEW metric, NEW start, NEW value,
         Fitting(metric, start, value)
  PROVE  Fitting(metric, start, value)'
  <1>1. BucketKept(start) /\ value.part \in Nat /\ value.whole \in Nat
    BY DEF Fitting, Carried, Figures
  <1>2. /\ value.part <= Cardinality(OwnIn(start))'
        /\ metric \in Board!Rates /\ ("filter" \in boardRepairs)' =>
             value.whole <= Cardinality(OwnIn(start))'
    BY <1>1 DEF BucketKept, Fitting, Carried
  <1>3. start + Length <= now'
    BY DEF Fitting, Carried, ClockInv, Board!DashboardAssumption
  <1>4. CASE Board!AppearedLate(start)'
    BY <1>2, <1>3, <1>4 DEF Fitting
  <1>5. CASE ~Board!AppearedLate(start) /\ OwnIn(start)' = OwnIn(start)
    <2>1. PICK k : k = Cardinality(OwnIn(start)) /\ k = Cardinality(OwnIn(start)')
      BY <1>5
    <2>2. Exact(metric, start, value)
      BY <1>5 DEF Fitting
    <2>3. Exact(metric, start, value)'
      BY <2>1, <2>2 DEF Exact, Carried
    <2> QED BY <1>2, <1>3, <2>3 DEF Fitting
  <1> QED BY <1>1, <1>4, <1>5 DEF BucketKept

LEMMA GoodStays ==
  ASSUME Board!DashboardAssumption, ClockInv, Carried
  PROVE  /\ \A r : GoodRow(r) => GoodRow(r)'
         /\ \A A : GoodAnswer(A) => GoodAnswer(A)'
  <1>1. \A r : GoodRow(r) => GoodRow(r)'
    BY FittingStays DEF GoodRow
  <1> QED BY <1>1 DEF GoodAnswer

LEMMA RunStays ==
  ASSUME Board!DashboardAssumption, ClockInv, Carried, NEW s, RunInv(s)
  PROVE  RunInv(s)'
  <1>1. s.at = "computing" =>
          \A i \in 1..Len(s.values) : Fitting(Board!Metrics[i], s.start, s.values[i])'
    BY FittingStays DEF RunInv
  <1>2. s.at = "storing" =>
          \A i \in 1..Len(s.values) :
             Fitting(Board!Metrics[4 - Len(s.values) + i], s.start, s.values[i])'
    BY FittingStays DEF RunInv
  <1>3. s.at \in {"computing", "storing"} => s.start + Length <= now'
    <2>1. s.at # "idle" => s.start \in Nat
      BY DEF RunInv, RunStates, Started
    <2>2. Length \in Nat /\ now \in Nat /\ now' \in Nat /\ now <= now'
      BY DEF ClockInv, Carried, Board!DashboardAssumption
    <2>3. s.at \in {"computing", "storing"} => s.start + Length <= now
      BY DEF RunInv
    <2> QED BY <2>1, <2>2, <2>3
  <1>4. s.at = "storing" =>
          \A i \in 1..(4 - Len(s.values)) :
            Board!HasRow(Board!Metrics[i], s.start)' \/ Board!Metrics[i] \in s.unsaved
    BY DEF RunInv, Carried
  <1>5. s.at = "ended" /\ boardFaults' = 0 /\ "names" \in boardRepairs' =>
          \A i \in 1..4 : Board!HasRow(Board!Metrics[i], s.start)'
    BY DEF RunInv, Carried
  <1>6. s.at # "idle" /\ boardFaults' = 0 => s.unsaved = {}
    BY DEF RunInv, Carried
  <1> QED BY <1>1, <1>2, <1>3, <1>4, <1>5, <1>6 DEF RunInv

(* Nothing but the orders changes the buckets, and of the orders only one  *)
(* that appears, which belongs to no bucket that has ended or is late.     *)
LEMMA BucketsStay ==
  ASSUME Board!DashboardAssumption, ClockInv, OrdersInv, OrdersInv', NEW start \in Nat,
         start + Length <= now,
         \/ UNCHANGED order
         \/ \E o \in Orders, t \in {"own", "other"}, at \in (now - MaxLag)..now :
              Board!Place(o, t, at)
         \/ \E o \in Orders : Board!Process(o)
  PROVE  BucketKept(start)
  <1>1. PICK old, new : old = order /\ new = order'
    OBVIOUS
  <1> DEFINE In(row) == /\ row.placed /\ start <= row.at /\ row.at < start + Length
                        /\ row.tenant = "own"
             Late(row) == In(row) /\ row.seen >= start + Length
             Kept(q) == /\ In(old[q]) => In(new[q])
                        /\ Late(old[q]) => Late(new[q])
                        /\ In(new[q]) => In(old[q]) \/ Late(new[q])
  <1>2. /\ OwnIn(start) = {q \in Orders : In(old[q])}
        /\ OwnIn(start)' = {q \in Orders : In(new[q])}
    BY <1>1 DEF OwnIn, Board!Own, Board!Placed, Board!InBucket
  <1>3. /\ Board!AppearedLate(start) <=> \E q \in Orders : Late(old[q])
        /\ Board!AppearedLate(start)' <=> \E q \in Orders : Late(new[q])
    BY <1>1 DEF Board!AppearedLate, Board!Own, Board!Placed, Board!InBucket
  <1>4. old \in [Orders -> OrderRows] /\ now \in Nat /\ Length \in Nat
    BY <1>1 DEF OrdersInv, ClockInv, Board!DashboardAssumption
  <1>5. \A q \in Orders : Kept(q)
    <2> TAKE q \in Orders
    <2>1. CASE UNCHANGED order
      BY <1>1, <2>1
    <2>2. ASSUME NEW o \in Orders, NEW t \in {"own", "other"},
                 NEW at \in (now - MaxLag)..now, Board!Place(o, t, at)
          PROVE  Kept(q)
      <3>1. PICK row : row = [placed |-> TRUE, tenant |-> t, at |-> at, seen |-> now,
                              status |-> "open"]
        OBVIOUS
      <3>2. row.seen = now
        BY <3>1
      <3>3. ~old[o].placed /\ new = [old EXCEPT ![o] = row]
        BY <1>1, <2>2, <3>1 DEF Board!Place
      <3>4. new[q] = IF q = o THEN row ELSE old[q]
        BY <1>4, <3>3
      <3> QED BY <3>2, <3>3, <3>4
    <2>3. ASSUME NEW o \in Orders, Board!Process(o)
          PROVE  Kept(q)
      <3>1. PICK status \in {"fulfilled", "returned"} :
              old[o].placed /\ new = [old EXCEPT ![o].status = status]
        BY <1>1, <2>3 DEF Board!Process
      <3>2. PICK row \in OrderRows : row = old[o] /\ row.placed
        BY <1>4, <3>1
      <3>3. PICK done : done = [row EXCEPT !.status = status]
        OBVIOUS
      <3>4. /\ done.placed = row.placed /\ done.at = row.at
            /\ done.tenant = row.tenant /\ done.seen = row.seen
        BY <3>2, <3>3 DEF OrderRows, Board!NoOrder
      <3>5. new = [old EXCEPT ![o] = done]
        BY <3>1, <3>2, <3>3
      <3>6. new[q] = IF q = o THEN done ELSE old[q]
        BY <1>4, <3>5
      <3> QED BY <3>2, <3>4, <3>6
    <2> HIDE DEF Kept
    <2> QED BY <2>1, <2>2, <2>3
  <1>6. OwnIn(start) \subseteq OwnIn(start)'
    BY <1>2, <1>5
  <1>7. /\ IsFiniteSet(OwnIn(start)) /\ IsFiniteSet(OwnIn(start)')
        /\ Cardinality(OwnIn(start)) \in Nat /\ Cardinality(OwnIn(start)') \in Nat
        /\ Cardinality(OwnIn(start)) <= Cardinality(OwnIn(start)')
    <2>1. IsFiniteSet(OwnIn(start)')
      <3>1. OwnIn(start)' \subseteq PlacedOrders'
        BY <1>1, <1>2 DEF PlacedOrders
      <3>2. IsFiniteSet(PlacedOrders')
        BY DEF OrdersInv
      <3> QED BY <3>1, <3>2, FS_Subset
    <2> QED BY <1>6, <2>1, FS_Subset, FS_CardinalityType
  <1>8. ASSUME NEW n \in Nat, n <= Cardinality(OwnIn(start))
        PROVE  n <= Cardinality(OwnIn(start)')
    BY <1>7, <1>8
  <1>9. ASSUME ~Board!AppearedLate(start)'
        PROVE  ~Board!AppearedLate(start) /\ OwnIn(start)' = OwnIn(start)
    <2>1. \A q \in Orders : ~Late(new[q])
      BY <1>3, <1>9
    <2>2. \A q \in Orders : ~Late(old[q]) /\ (In(new[q]) <=> In(old[q]))
      BY <1>5, <2>1
    <2> HIDE DEF In, Late
    <2> QED BY <1>2, <1>3, <2>2
  <1> QED BY <1>8, <1>9 DEF BucketKept

LEMMA BoardInit ==
  ASSUME Board!DashboardAssumption, Board!Init PROVE BoardInv
  <1>1. ClockInv
    BY DEF Board!Init, ClockInv, Board!DashboardAssumption
  <1>2. OrdersInv
    <2>1. PICK none : none = Board!NoOrder
      OBVIOUS
    <2>2. none \in OrderRows /\ ~none.placed
      BY <2>1 DEF OrderRows, Board!NoOrder
    <2>3. order = [o \in Orders |-> none]
      BY <2>1 DEF Board!Init
    <2>4. \A o \in Orders : order[o] = none
      BY <2>3
    <2>5. order \in [Orders -> OrderRows]
      BY <2>2, <2>3
    <2>6. PlacedOrders = {}
      BY <2>2, <2>4 DEF PlacedOrders
    <2> QED BY <2>2, <2>4, <2>5, <2>6, FS_EmptySet DEF OrdersInv
  <1>3. RowsInv
    BY FS_EmptySet DEF Board!Init, RowsInv
  <1>4. RunsInv
    <2>1. PICK rest : rest = [at |-> "idle"]
      OBVIOUS
    <2>2. aggregation = [a \in Ids |-> rest] /\ pushed = {}
      BY <2>1 DEF Board!Init
    <2>3. rest \in RunStates /\ rest.at = "idle"
      BY <2>1 DEF RunStates
    <2>4. RunInv(rest)
      BY <2>3 DEF RunInv
    <2> QED BY <2>2, <2>3, <2>4 DEF RunsInv, Board!PushedIsStored
  <1>5. AnswersInv
    <2>1. PICK rest : rest = [at |-> "idle"]
      OBVIOUS
    <2>2. reader = [r \in Readers |-> rest] /\ rest.at = "idle" /\ entry.held = FALSE
      BY <2>1 DEF Board!Init, Board!NoEntry
    <2>3. reader \in [Readers -> {rest}]
      BY <2>2
    <2> QED BY <2>2, <2>3 DEF AnswersInv
  <1> QED BY <1>1, <1>2, <1>3, <1>4, <1>5 DEF BoardInv

LEMMA RowsStay ==
  ASSUME Board!DashboardAssumption, ClockInv, RowsInv, Carried, UNCHANGED kpiRows
  PROVE  RowsInv'
  BY GoodStays DEF RowsInv

LEMMA AnswersStay ==
  ASSUME Board!DashboardAssumption, ClockInv, AnswersInv, Carried, UNCHANGED <<entry, reader>>
  PROVE  AnswersInv'
  <1>1. PICK e, places : e = entry /\ reader \in [Readers -> places]
    BY DEF AnswersInv
  <1>2. e.held => GoodAnswer(e.answer)'
    BY <1>1, GoodStays DEF AnswersInv
  <1>3. PICK rs : rs = reader
    OBVIOUS
  <1>4. \A r \in Readers : rs[r].at = "filling" => GoodAnswer(rs[r].answer)'
    BY <1>3, GoodStays DEF AnswersInv
  <1> QED BY <1>1, <1>2, <1>3, <1>4 DEF AnswersInv

LEMMA RunsStay ==
  ASSUME Board!DashboardAssumption, ClockInv, RunsInv, Carried,
         UNCHANGED <<aggregation, pushed>>
  PROVE  RunsInv'
  <1>1. PICK runs, said : runs = aggregation /\ said = pushed
    OBVIOUS
  <1>2. runs \in [Ids -> RunStates] /\ \A a \in Ids : RunInv(runs[a])'
    BY <1>1, RunStays DEF RunsInv
  <1>3. said \subseteq 0..now'
    <2>1. now \in Nat
      BY DEF ClockInv, Board!DashboardAssumption
    <2> QED BY <1>1, <2>1 DEF RunsInv, Carried
  <1>4. Board!PushedIsStored'
    BY DEF RunsInv, Board!PushedIsStored, Carried
  <1> QED BY <1>1, <1>2, <1>3, <1>4 DEF RunsInv

(* A run takes a step; a run that has ended takes none.  The last step of  *)
(* one may tell the subscribers.                                           *)
LEMMA RunMoves ==
  ASSUME Board!DashboardAssumption, ClockInv, RunsInv, Carried, NEW a \in Ids,
         aggregation[a].at # "ended",
         NEW s \in RunStates, RunInv(s)', aggregation' = [aggregation EXCEPT ![a] = s],
         \/ UNCHANGED pushed
         \/ /\ pushed' = pushed \cup {s.start} /\ s.at = "ended" /\ s.start \in 0..now'
            /\ \A i \in 1..4 :
                 Board!HasRow(Board!Metrics[i], s.start)' \/ Board!Metrics[i] \in s.unsaved
  PROVE  RunsInv'
  <1>1. PICK runs, next, said, saying :
          runs = aggregation /\ next = aggregation' /\ said = pushed /\ saying = pushed'
    OBVIOUS
  <1>2. /\ runs \in [Ids -> RunStates] /\ next \in [Ids -> RunStates] /\ next[a] = s
        /\ \A b \in Ids \ {a} : next[b] = runs[b]
    BY <1>1 DEF RunsInv
  <1>3. \A b \in Ids : RunInv(next[b])'
    <2> TAKE b \in Ids
    <2>1. CASE b = a
      BY <1>2, <2>1
    <2>2. CASE b # a
      BY <1>1, <1>2, <2>2, RunStays DEF RunsInv
    <2> QED BY <2>1, <2>2
  <1>4. now \in Nat
    BY DEF ClockInv, Board!DashboardAssumption
  <1>5. saying \subseteq 0..now'
    <2>1. said \subseteq 0..now'
      BY <1>1, <1>4 DEF RunsInv, Carried
    <2> QED BY <1>1, <2>1
  <1>6. ASSUME NEW start \in saying, NEW i \in 1..4
        PROVE  \/ Board!HasRow(Board!Metrics[i], start)'
               \/ \E b \in Ids : /\ next[b].at = "ended" /\ next[b].start = start
                                 /\ Board!Metrics[i] \in next[b].unsaved
    <2>1. CASE start \in said
      <3>1. CASE Board!HasRow(Board!Metrics[i], start)
        BY <3>1 DEF Carried
      <3>2. CASE ~Board!HasRow(Board!Metrics[i], start)
        <4>1. PICK b \in Ids : /\ runs[b].at = "ended" /\ runs[b].start = start
                               /\ Board!Metrics[i] \in runs[b].unsaved
          BY <1>1, <2>1, <3>2 DEF RunsInv, Board!PushedIsStored
        <4>2. b # a
          BY <1>1, <4>1
        <4> QED BY <1>2, <4>1, <4>2
      <3> QED BY <3>1, <3>2
    <2>2. CASE start \notin said
      BY <1>1, <1>2, <1>6, <2>2
    <2> QED BY <2>1, <2>2
  <1>7. Board!PushedIsStored'
    BY <1>1, <1>6 DEF Board!PushedIsStored
  <1> QED BY <1>1, <1>2, <1>3, <1>5, <1>7 DEF RunsInv

(* The steps that leave the orders, rows and the clock.                    *)
LEMMA Quietly ==
  ASSUME ClockInv, UNCHANGED <<boardRepairs, now, order>>,
         \A metric, start : Board!HasRow(metric, start) => Board!HasRow(metric, start)',
         boardFaults' = 0 => boardFaults = 0, Board!DashboardAssumption, OrdersInv
  PROVE  Carried
  <1>1. now \in Nat
    BY DEF ClockInv, Board!DashboardAssumption
  <1>2. OrdersInv'
    <2>1. PlacedOrders' = PlacedOrders
      BY DEF PlacedOrders
    <2> QED BY <2>1 DEF OrdersInv
  <1> QED BY <1>1, <1>2, BucketsStay DEF Carried

LEMMA BoardOrders ==
  ASSUME Board!DashboardAssumption, BoardInv,
         \/ \E o \in Orders :
              \/ Board!Process(o)
              \/ \E t \in {"own", "other"}, at \in (now - MaxLag)..now : Board!Place(o, t, at)
         \/ Board!Tick
  PROVE  BoardInv'
  <1>1. /\ UNCHANGED <<boardRepairs, boardKind, kpiRows, aggregation, pushed, entry, reader,
                       boardFaults>>
        /\ now' \in Nat /\ now <= now' /\ now' \in Length..MaxTime
    BY DEF Board!Process, Board!Place, Board!Tick, BoardInv, ClockInv,
           Board!DashboardAssumption
  <1>2. OrdersInv'
    <2>1. PICK old, new : old = order /\ new = order'
      OBVIOUS
    <2>2. /\ old \in [Orders -> OrderRows] /\ IsFiniteSet(PlacedOrders)
          /\ \A o \in Orders :
               old[o].placed => old[o].seen \in Length..now /\ old[o].at \in 0..old[o].seen
          /\ now \in Nat /\ Length \in Nat /\ now >= Length
      BY <2>1 DEF BoardInv, ClockInv, OrdersInv, Board!DashboardAssumption
    <2>3. CASE Board!Tick
      <3>1. UNCHANGED order
        BY <2>3 DEF Board!Tick
      <3>2. PlacedOrders' = PlacedOrders
        BY <3>1 DEF PlacedOrders
      <3> QED BY <1>1, <2>1, <2>2, <3>1, <3>2 DEF OrdersInv
    <2>4. ASSUME NEW o \in Orders, NEW t \in {"own", "other"},
                 NEW at \in (now - MaxLag)..now, Board!Place(o, t, at)
          PROVE  OrdersInv'
      <3>0. at \in 0..now
        <4>1. MaxLag \in Nat /\ MaxLag <= Length
          BY DEF Board!DashboardAssumption
        <4> QED BY <2>2, <4>1
      <3>1. PICK row : row = [placed |-> TRUE, tenant |-> t, at |-> at, seen |-> now,
                              status |-> "open"]
        OBVIOUS
      <3>2. row \in OrderRows /\ row.placed /\ row.at = at /\ row.seen = now
        BY <2>2, <3>0, <3>1 DEF OrderRows
      <3>3. new = [old EXCEPT ![o] = row] /\ now' = now
        BY <2>1, <2>4, <3>1 DEF Board!Place
      <3>4. new \in [Orders -> OrderRows]
        BY <2>2, <3>2, <3>3
      <3>5. \A q \in Orders : new[q] = IF q = o THEN row ELSE old[q]
        BY <2>2, <3>3
      <3>6. PlacedOrders' = PlacedOrders \cup {o}
        BY <2>1, <3>2, <3>5 DEF PlacedOrders
      <3>7. IsFiniteSet(PlacedOrders')
        BY <2>2, <3>6, FS_AddElement
      <3>8. \A q \in Orders :
              new[q].placed => new[q].seen \in Length..now' /\ new[q].at \in 0..new[q].seen
        BY <2>2, <3>0, <3>2, <3>3, <3>5
      <3> QED BY <2>1, <3>4, <3>7, <3>8 DEF OrdersInv
    <2>5. ASSUME NEW o \in Orders, Board!Process(o)
          PROVE  OrdersInv'
      <3>1. PICK status \in {"fulfilled", "returned"} :
              /\ old[o].placed /\ new = [old EXCEPT ![o].status = status] /\ now' = now
        BY <2>1, <2>5 DEF Board!Process
      <3>2. PICK row \in OrderRows : row = old[o] /\ row.placed
        BY <2>2, <3>1
      <3>3. PICK done : done = [row EXCEPT !.status = status]
        OBVIOUS
      <3>4. /\ done.placed /\ done.at = row.at /\ done.seen = row.seen
            /\ done \in OrderRows
        BY <3>2, <3>3 DEF OrderRows, Board!NoOrder
      <3>5. new = [old EXCEPT ![o] = done]
        BY <3>1, <3>2, <3>3
      <3>6. new \in [Orders -> OrderRows]
        BY <2>2, <3>4, <3>5
      <3>7. \A q \in Orders : new[q] = IF q = o THEN done ELSE old[q]
        BY <2>2, <3>5
      <3>8. PlacedOrders' = PlacedOrders
        BY <2>1, <3>1, <3>4, <3>7 DEF PlacedOrders
      <3>9. \A q \in Orders :
              new[q].placed => new[q].seen \in Length..now' /\ new[q].at \in 0..new[q].seen
        BY <2>2, <3>1, <3>2, <3>4, <3>7
      <3> QED BY <2>1, <2>2, <3>6, <3>8, <3>9 DEF OrdersInv
    <2> QED BY <2>3, <2>4, <2>5
  <1>3. Carried
    <2>1. \A metric, start : Board!HasRow(metric, start) => Board!HasRow(metric, start)'
      BY <1>1 DEF Board!HasRow
    <2>2. \/ UNCHANGED order
          \/ \E o \in Orders, t \in {"own", "other"}, at \in (now - MaxLag)..now :
               Board!Place(o, t, at)
          \/ \E o \in Orders : Board!Process(o)
      BY DEF Board!Tick
    <2> QED BY <1>1, <1>2, <2>1, <2>2, BucketsStay DEF Carried, BoardInv
  <1>4. ClockInv'
    BY <1>1 DEF BoardInv, ClockInv
  <1> QED BY <1>1, <1>2, <1>3, <1>4, RowsStay, RunsStay, AnswersStay DEF BoardInv

LEMMA RunFields ==
  ASSUME NEW s \in RunStates, s.at # "idle"
  PROVE  /\ s \in Started /\ s.start \in Nat /\ s.values \in Seq(Figures)
         /\ s.unsaved \in SUBSET MetricNames /\ Len(s.values) \in Nat
  <1>1. s \in Started
    BY DEF RunStates
  <1>2. s.start \in Nat /\ s.values \in Seq(Figures) /\ s.unsaved \in SUBSET MetricNames
    BY <1>1 DEF Started
  <1> QED BY <1>1, <1>2

Changed(s, at, vs, u, t) ==
  \/ t = [s EXCEPT !.at = at, !.values = vs, !.unsaved = u]
  \/ t = [s EXCEPT !.at = at, !.values = vs] /\ u = s.unsaved

LEMMA RunChanges ==
  ASSUME NEW s \in Started, NEW at \in {"computing", "storing", "ended"},
         NEW vs \in Seq(Figures), NEW u \in SUBSET MetricNames, NEW t,
         Changed(s, at, vs, u, t)
  PROVE  /\ t \in RunStates /\ t.at = at /\ t.start = s.start /\ t.values = vs
         /\ t.unsaved = u
  <1>1. PICK Lists, Missing : Lists = Seq(Figures) /\ Missing = SUBSET MetricNames
    OBVIOUS
  <1>2. s \in [at : {"computing", "storing", "ended"}, start : Nat, values : Lists,
               unsaved : Missing]
    BY <1>1 DEF Started
  <1>3. vs \in Lists /\ u \in Missing
    BY <1>1
  <1>4. t = [at |-> at, start |-> s.start, values |-> vs, unsaved |-> u]
    <2>1. CASE t = [s EXCEPT !.at = at, !.values = vs, !.unsaved = u]
      BY <1>2, <2>1
    <2>2. CASE t = [s EXCEPT !.at = at, !.values = vs] /\ u = s.unsaved
      BY <1>2, <2>2
    <2> QED BY <2>1, <2>2 DEF Changed
  <1>5. t \in [at : {"computing", "storing", "ended"}, start : Nat, values : Lists,
               unsaved : Missing]
    BY <1>2, <1>3, <1>4
  <1>6. t.at = at /\ t.start = s.start /\ t.values = vs /\ t.unsaved = u
    BY <1>4
  <1> QED BY <1>1, <1>5, <1>6 DEF RunStates, Started

LEMMA BoardRuns ==
  ASSUME Board!DashboardAssumption, BoardInv, NEW a \in Ids,
         \/ Board!SyncComplete(a) \/ Board!Compute(a) \/ Board!ComputeFails(a)
         \/ Board!Persist(a) \/ Board!PersistFails(a)
  PROVE  BoardInv'
  <1>1. PICK s \in RunStates : s = aggregation[a] /\ RunInv(s)
    BY DEF BoardInv, RunsInv
  <1>2. /\ UNCHANGED <<boardRepairs, boardKind, now, order, entry, reader>>
        /\ boardFaults' \in 0..MaxFaults /\ (boardFaults' = 0 => boardFaults = 0)
    <2>1. boardFaults \in 0..MaxFaults /\ MaxFaults \in Nat
      BY DEF BoardInv, ClockInv, Board!DashboardAssumption
    <2>2. Board!Fault => boardFaults' \in 0..MaxFaults /\ boardFaults' # 0
      BY <2>1 DEF Board!Fault
    <2> QED BY <2>1, <2>2
            DEF Board!SyncComplete, Board!Compute, Board!ComputeFails, Board!Persist,
                Board!PersistFails
  <1>3. ClockInv' /\ OrdersInv'
    <2>1. PlacedOrders' = PlacedOrders
      BY <1>2 DEF PlacedOrders
    <2> QED BY <1>2, <2>1 DEF BoardInv, ClockInv, OrdersInv
  <1>4. ASSUME Carried, RowsInv', RunsInv' PROVE BoardInv'
    BY <1>2, <1>3, <1>4, AnswersStay DEF BoardInv
  <1>5. ASSUME UNCHANGED kpiRows PROVE Carried /\ RowsInv'
    <2>1. \A metric, start : Board!HasRow(metric, start) => Board!HasRow(metric, start)'
      BY <1>5 DEF Board!HasRow
    <2> QED BY <1>2, <1>5, <2>1, Quietly, RowsStay DEF BoardInv
  <1>6. now \in Nat /\ Length \in Nat \ {0} /\ now >= Length /\ MaxFaults \in Nat
    BY DEF BoardInv, ClockInv, Board!DashboardAssumption
  <1>7. ASSUME Board!SyncComplete(a) PROVE BoardInv'
    <2>1. PICK t : t = [at |-> "computing", start |-> now - Length, values |-> <<>>,
                        unsaved |-> {}]
      OBVIOUS
    <2>2. /\ t.at = "computing" /\ t.start = now - Length /\ t.start \in Nat
          /\ t.values = <<>> /\ t.unsaved = {} /\ t \in RunStates
      <3>0. <<>> \in Seq(Figures)
        OBVIOUS
      <3>1. PICK Lists : Lists = Seq(Figures) /\ <<>> \in Lists
        BY <3>0
      <3>2. t \in [at : {"computing", "storing", "ended"}, start : Nat, values : Lists,
                   unsaved : SUBSET MetricNames]
        BY <1>6, <2>1, <3>1
      <3> QED BY <1>6, <2>1, <3>1, <3>2 DEF RunStates, Started
    <2>3. /\ s.at = "idle" /\ aggregation' = [aggregation EXCEPT ![a] = t]
          /\ UNCHANGED <<pushed, kpiRows>>
      BY <1>1, <1>7, <2>1 DEF Board!SyncComplete
    <2>4. t.start + Length <= now'
      BY <1>2, <1>6, <2>2
    <2>5. RunInv(t)'
      BY <2>2, <2>4 DEF RunInv
    <2> QED BY <1>1, <1>4, <1>5, <2>2, <2>3, <2>5, RunMoves DEF BoardInv
  <1>8. ASSUME s.at = "computing", Board!Abandon(a), UNCHANGED <<pushed, kpiRows>>,
               boardFaults' # 0 \/ "names" \notin boardRepairs
        PROVE  BoardInv'
    <2> DEFINE t == [s EXCEPT !.at = "ended", !.values = <<>>]
    <2>1. aggregation' = [aggregation EXCEPT ![a] = t]
      BY <1>1, <1>8 DEF Board!Abandon
    <2>2. t.at = "ended" /\ t.unsaved = {} /\ t \in RunStates
      <3>1. s.unsaved = {}
        BY <1>1, <1>8 DEF RunInv
      <3>2. <<>> \in Seq(Figures)
        OBVIOUS
      <3>3. s \in Started /\ s.unsaved \in SUBSET MetricNames
        BY <1>8, RunFields
      <3>4. PICK u \in SUBSET MetricNames : u = s.unsaved /\ u = {}
        BY <3>1, <3>3
      <3>5. t = [s EXCEPT !.at = "ended", !.values = <<>>] /\ u = s.unsaved
        BY <3>4
      <3> HIDE DEF t
      <3>6. Changed(s, "ended", <<>>, u, t)
        BY <3>5 DEF Changed
      <3>7. PICK none : none = <<>>
        OBVIOUS
      <3>8. t.at = "ended" /\ t.unsaved = u /\ t \in RunStates
        <4>1. "ended" \in {"computing", "storing", "ended"}
          OBVIOUS
        <4>2. none \in Seq(Figures) /\ Changed(s, "ended", none, u, t)
          BY <3>2, <3>6, <3>7
        <4> QED BY <3>3, <4>1, <4>2, RunChanges
      <3> QED BY <3>4, <3>8 DEF t
    <2> HIDE DEF t
    <2>3. RunInv(t)'
      BY <1>2, <1>8, <2>2 DEF RunInv
    <2> QED BY <1>1, <1>4, <1>5, <1>8, <2>1, <2>2, <2>3, RunMoves DEF BoardInv
  <1>9. ASSUME Board!Compute(a) PROVE BoardInv'
    <2>1. /\ s.at = "computing" /\ UNCHANGED <<pushed, kpiRows>> /\ s \in Started
          /\ s.unsaved = {} /\ s.start \in Nat /\ s.start + Length <= now
      <3>1. s.at = "computing" /\ UNCHANGED <<pushed, kpiRows>>
        BY <1>1, <1>9 DEF Board!Compute
      <3> QED BY <1>1, <3>1, RunFields DEF RunInv
    <2>2. PICK old \in Seq(Figures) : old = s.values
      BY <2>1, RunFields
    <2>3. /\ Len(old) <= 3
          /\ \A i \in 1..Len(old) : Fitting(Board!Metrics[i], s.start, old[i])
      BY <1>1, <2>1, <2>2 DEF RunInv
    <2>4. PICK n \in 1..4 : n = Len(old) + 1
      BY <2>3
    <2>5. PICK metric \in MetricNames : metric = Board!Metrics[n]
      BY MetricsAre
    <2>6. PICK v : v = Board!Value(metric, s.start)
      OBVIOUS
    <2>7. Fitting(metric, s.start, v)
      BY <2>1, <2>6, ValueFits DEF BoardInv
    <2>8. CASE metric = "avg_processing_time" /\ "names" \notin boardRepairs
      <3>1. Board!Abandon(a)
        BY <1>1, <1>9, <2>2, <2>4, <2>5, <2>8 DEF Board!Compute
      <3> QED BY <1>8, <2>1, <2>8, <3>1
    <2>9. CASE ~(metric = "avg_processing_time" /\ "names" \notin boardRepairs)
      <3>0. v \in Figures
        BY <2>7 DEF Fitting
      <3>1. PICK new \in Seq(Figures) : new = Append(old, v)
        <4>1. Append(old, v) \in Seq(Figures)
          BY <3>0
        <4> QED BY <4>1
      <3>2. Len(new) = n /\ new[n] = v /\ \A i \in 1..(n - 1) : new[i] = old[i]
        <4>1. v \in Figures
          BY <2>7 DEF Fitting
        <4> QED BY <2>4, <3>1, <4>1
      <3>3. PICK at \in {"computing", "storing"} : at = IF n = 4 THEN "storing" ELSE "computing"
        OBVIOUS
      <3> DEFINE t == [s EXCEPT !.at = at, !.values = new]
      <3>4. aggregation' = [aggregation EXCEPT ![a] = t]
        <4>1. Len(new) = Len(Board!Metrics) <=> n = 4
          BY <3>2, MetricsAre
        <4>2. aggregation' = [aggregation EXCEPT
                 ![a].values = Append(aggregation[a].values, Board!Value(metric, s.start)),
                 ![a].at = IF Len(Append(aggregation[a].values, Board!Value(metric, s.start)))
                                = Len(Board!Metrics) THEN "storing" ELSE @]
          BY <1>1, <1>9, <2>2, <2>4, <2>5, <2>9 DEF Board!Compute
        <4>3. aggregation' = [aggregation EXCEPT
                 ![a].values = new,
                 ![a].at = IF Len(new) = Len(Board!Metrics) THEN "storing" ELSE @]
          BY <1>1, <2>2, <2>6, <3>1, <4>2
        <4> QED BY <1>1, <2>1, <3>3, <4>1, <4>3
      <3>5. /\ t \in RunStates /\ t.at = at /\ t.start = s.start /\ t.values = new
            /\ t.unsaved = {}
        <4>1. PICK u \in SUBSET MetricNames : u = s.unsaved /\ u = {}
          BY <2>1
        <4>2. t = [s EXCEPT !.at = at, !.values = new] /\ u = s.unsaved
          BY <4>1
        <4>3. at \in {"computing", "storing", "ended"}
          OBVIOUS
        <4> HIDE DEF t
        <4>4. /\ t \in RunStates /\ t.at = at /\ t.start = s.start /\ t.values = new
              /\ t.unsaved = u
          <5>1. Changed(s, at, new, u, t)
            BY <4>2 DEF Changed
          <5> QED BY <2>1, <4>3, <5>1, RunChanges
        <4> QED BY <4>1, <4>4 DEF t
      <3> HIDE DEF t
      <3>6. \A i \in 1..n : Fitting(Board!Metrics[i], s.start, new[i])
        <4>1. \A i \in 1..n : i \in 1..(n - 1) \/ i = n
          OBVIOUS
        <4>2. n - 1 = Len(old)
          BY <2>4
        <4> QED BY <2>3, <2>5, <2>7, <3>2, <4>1, <4>2
      <3>7. \A i \in 1..n : Fitting(Board!Metrics[i], s.start, new[i])'
        BY <1>5, <2>1, <3>6, FittingStays DEF BoardInv
      <3>8. s.start + Length <= now'
        BY <1>2, <2>1
      <3>9. RunInv(t)'
        <4>1. CASE n = 4
          <5>1. at = "storing" /\ Len(new) = 4 /\ 4 - Len(new) = 0 /\ Len(new) \in 1..4
            BY <3>2, <3>3, <4>1
          <5>2. \A i \in 1..4 : 0 + i = i
            OBVIOUS
          <5> QED BY <3>5, <3>7, <3>8, <4>1, <5>1, <5>2 DEF RunInv
        <4>2. CASE n # 4
          <5>1. at = "computing" /\ Len(new) = n /\ n <= 3
            BY <3>2, <3>3, <4>2
          <5> QED BY <3>5, <3>7, <3>8, <5>1 DEF RunInv
        <4> QED BY <4>1, <4>2
      <3> QED BY <1>1, <1>4, <1>5, <2>1, <3>4, <3>5, <3>9, RunMoves DEF BoardInv
    <2> QED BY <2>8, <2>9
  <1>10. ASSUME Board!ComputeFails(a) PROVE BoardInv'
    <2>1. /\ s.at = "computing" /\ Board!Abandon(a) /\ UNCHANGED <<pushed, kpiRows>>
          /\ boardFaults' # 0
      <3>1. boardFaults \in Nat
        BY <1>6 DEF BoardInv, ClockInv
      <3>2. boardFaults' = boardFaults + 1
        BY <1>10 DEF Board!ComputeFails, Board!Fault
      <3>3. boardFaults' # 0
        BY <3>1, <3>2
      <3>4. s.at = "computing"
        BY <1>1, <1>10 DEF Board!ComputeFails
      <3> QED BY <1>10, <3>3, <3>4 DEF Board!ComputeFails
    <2> QED BY <1>8, <2>1
  <1>11. ASSUME s.at = "storing", NEW u \in SUBSET MetricNames, Board!Stored(a, u),
                Carried, RowsInv', boardFaults' = 0 => u = {},
                NEW metric, metric = Board!Storing(a),
                Board!HasRow(metric, s.start)' \/ metric \in u
         PROVE  BoardInv'
    <2>1. /\ s \in Started /\ s.start \in Nat /\ s.unsaved \in SUBSET MetricNames
          /\ s.values \in Seq(Figures)
      BY <1>11, RunFields
    <2>2. PICK old \in Seq(Figures), len \in 1..4 : old = s.values /\ len = Len(old)
      BY <1>1, <1>11, <2>1 DEF RunInv
    <2>3. PICK missing \in SUBSET MetricNames : missing = s.unsaved
      BY <2>1
    <2>4. /\ s.start + Length <= now
          /\ \A i \in 1..len : Fitting(Board!Metrics[4 - len + i], s.start, old[i])
          /\ \A i \in 1..(4 - len) :
               Board!HasRow(Board!Metrics[i], s.start) \/ Board!Metrics[i] \in missing
          /\ boardFaults = 0 => missing = {}
      BY <1>1, <1>11, <2>2, <2>3 DEF RunInv
    <2>5. PICK n \in 1..4 : n = 5 - len /\ 4 - len + 1 = n
      <3>1. 5 - len \in 1..4 /\ 4 - len + 1 = 5 - len
        OBVIOUS
      <3> QED BY <3>1
    <2>6. metric = Board!Metrics[n]
      BY <1>1, <1>11, <2>2, <2>5, MetricsAre DEF Board!Storing
    <2>7. PICK new \in Seq(Figures) :
            new = Tail(old) /\ Len(new) = len - 1 /\ \A i \in 1..(len - 1) : new[i] = old[i + 1]
      <3>0. len = Len(old)
        BY <2>2
      <3>1. len = Len(old) /\ old # <<>>
        BY <3>0
      <3>2. Tail(old) \in Seq(Figures) /\ Len(Tail(old)) = len - 1
        BY <3>1
      <3>3. \A i \in 1..(len - 1) : Tail(old)[i] = old[i + 1]
        BY <3>1
      <3> QED BY <3>2, <3>3
    <2>8. PICK nu \in SUBSET MetricNames : nu = missing \cup u
      OBVIOUS
    <2>9. PICK at \in {"storing", "ended"} : at = IF len = 1 THEN "ended" ELSE "storing"
      OBVIOUS
    <2>10. PICK t : t = [s EXCEPT !.at = at, !.values = new, !.unsaved = nu]
      OBVIOUS
    <2>11. /\ t \in RunStates /\ t.at = at /\ t.start = s.start /\ t.values = new
           /\ t.unsaved = nu
      <3>1. at \in {"computing", "storing", "ended"}
        OBVIOUS
      <3>2. Changed(s, at, new, nu, t)
        BY <2>10 DEF Changed
      <3> QED BY <2>1, <3>1, <3>2, RunChanges
    <2>12. aggregation' = [aggregation EXCEPT ![a] = t]
      <3>1. aggregation' = [aggregation EXCEPT
               ![a].values = Tail(@),
               ![a].unsaved = @ \cup u,
               ![a].at = IF Len(aggregation[a].values) = 1 THEN "ended" ELSE @]
        BY <1>11 DEF Board!Stored
      <3>2. aggregation' = [aggregation EXCEPT
               ![a].values = new, ![a].unsaved = nu, ![a].at = IF len = 1 THEN "ended" ELSE @]
        BY <1>1, <2>2, <2>3, <2>7, <2>8, <3>1
      <3> QED BY <1>1, <1>11, <2>1, <2>9, <2>10, <3>2
    <2>13. \A i \in 1..n : Board!HasRow(Board!Metrics[i], s.start)' \/ Board!Metrics[i] \in nu
      <3>1. n - 1 = 4 - len
        BY <2>5
      <3>2. \A i \in 1..n : i = n \/ i \in 1..(n - 1)
        OBVIOUS
      <3>3. \A i \in 1..n : i = n \/ i \in 1..(4 - len)
        BY <3>1, <3>2
      <3> QED BY <1>11, <2>4, <2>6, <2>8, <3>3 DEF Carried
    <2>14. boardFaults' = 0 => nu = {}
      BY <1>2, <1>11, <2>4, <2>8
    <2>15. RunInv(t)'
      <3>1. CASE len = 1
        <4>1. n = 4 /\ at = "ended"
          BY <2>5, <2>9, <3>1
        <4>2. boardFaults' = 0 => \A i \in 1..4 : Board!HasRow(Board!Metrics[i], s.start)'
          BY <2>13, <2>14, <4>1
        <4> QED BY <2>11, <2>14, <4>1, <4>2 DEF RunInv
      <3>2. CASE len # 1
        <4>1. at = "storing" /\ len - 1 \in 1..4 /\ 4 - (len - 1) = n
          BY <2>5, <2>9, <3>2
        <4>2. \A i \in 1..(len - 1) :
                 Fitting(Board!Metrics[4 - (len - 1) + i], s.start, new[i])
          <5> TAKE i \in 1..(len - 1)
          <5>1. i + 1 \in 1..len /\ 4 - (len - 1) + i = 4 - len + (i + 1)
            BY <2>2
          <5> QED BY <2>4, <2>7, <5>1
        <4>3. \A i \in 1..(len - 1) :
                 Fitting(Board!Metrics[4 - (len - 1) + i], s.start, new[i])'
          BY <1>11, <4>2, FittingStays DEF BoardInv
        <4>4. s.start + Length <= now'
          BY <1>2, <2>4
        <4>5. \A i \in 1..(4 - (len - 1)) :
                Board!HasRow(Board!Metrics[i], s.start)' \/ Board!Metrics[i] \in nu
          BY <2>13, <4>1
        <4> QED BY <2>7, <2>11, <2>14, <4>1, <4>3, <4>4, <4>5 DEF RunInv
      <3> QED BY <3>1, <3>2
    <2>16. \/ UNCHANGED pushed
           \/ /\ pushed' = pushed \cup {t.start} /\ t.at = "ended" /\ t.start \in 0..now'
              /\ \A i \in 1..4 :
                   Board!HasRow(Board!Metrics[i], t.start)' \/ Board!Metrics[i] \in t.unsaved
      <3>1. pushed' = IF len = 1 THEN pushed \cup {s.start} ELSE pushed
        BY <1>1, <1>11, <2>2 DEF Board!Stored
      <3>2. CASE len = 1
        <4>1. n = 4 /\ at = "ended"
          BY <2>5, <2>9, <3>2
        <4>2. s.start \in 0..now'
          BY <1>2, <1>6, <2>1, <2>4
        <4> QED BY <2>11, <2>13, <3>1, <3>2, <4>1, <4>2
      <3>3. CASE len # 1
        BY <3>1, <3>3
      <3> QED BY <3>2, <3>3
    <2>17. RunsInv'
      BY <1>1, <1>11, <2>11, <2>12, <2>15, <2>16, RunMoves DEF BoardInv
    <2> QED BY <1>4, <1>11, <2>17
  <1>12. ASSUME Board!Persist(a) PROVE BoardInv'
    <2>1. s.at = "storing" /\ kpiRows' = Board!Upserted(Board!Result(a)) /\ Board!Stored(a, {})
      BY <1>1, <1>12 DEF Board!Persist
    <2>2. PICK old \in Seq(Figures), len \in 1..4 : old = s.values /\ len = Len(old)
      BY <1>1, <2>1, RunFields DEF RunInv
    <2>3. PICK v \in Figures, metric \in MetricNames :
            metric = Board!Storing(a) /\ v = old[1] /\ Fitting(metric, s.start, v)
      <3>1. 5 - len \in 1..4 /\ 4 - len + 1 = 5 - len
        OBVIOUS
      <3>2. Board!Storing(a) = Board!Metrics[5 - len]
        BY <1>1, <2>2, <3>1, MetricsAre DEF Board!Storing
      <3>3. \A i \in 1..len : Fitting(Board!Metrics[4 - len + i], s.start, old[i])
        BY <1>1, <2>1, <2>2 DEF RunInv
      <3>4. 1 \in 1..len
        OBVIOUS
      <3>5. Fitting(Board!Metrics[5 - len], s.start, old[1])
        BY <3>1, <3>3, <3>4
      <3>6. old[1] \in Figures
        BY <3>5 DEF Fitting
      <3> QED BY <3>1, <3>2, <3>5, <3>6, MetricsAre
    <2>4. PICK row : row = Board!Result(a)
      OBVIOUS
    <2>5. row = [metric |-> metric, start |-> s.start, value |-> v]
      BY <1>1, <2>2, <2>3, <2>4 DEF Board!Result
    <2>6. row.metric = metric /\ row.start = s.start /\ GoodRow(row)
      BY <2>3, <2>5 DEF GoodRow, RowType, Fitting
    <2>7. kpiRows' = {r \in kpiRows : <<r.metric, r.start>> # <<metric, s.start>>} \cup {row}
      BY <2>1, <2>4, <2>6 DEF Board!Upserted
    <2>8. \A m, start : Board!HasRow(m, start) => Board!HasRow(m, start)'
      BY <2>6, <2>7 DEF Board!HasRow
    <2>9. Carried
      BY <1>2, <2>8, Quietly DEF BoardInv
    <2>10. RowsInv'
      <3>1. PICK others, after : /\ others = {r \in kpiRows : <<r.metric, r.start>> # <<metric, s.start>>}
                              /\ after = kpiRows' /\ after = others \cup {row}
        BY <2>7
      <3>2. IsFiniteSet(others)
        BY <3>1, FS_Subset DEF BoardInv, RowsInv
      <3>3. IsFiniteSet(after)
        <4>1. IsFiniteSet(others \cup {row})
          BY <3>2, FS_AddElement
        <4> QED BY <3>1, <4>1
      <3>4. \A r \in after : GoodRow(r)
        BY <2>6, <3>1 DEF BoardInv, RowsInv
      <3>5. \A r \in after : GoodRow(r)'
        BY <2>9, <3>4, GoodStays DEF BoardInv
      <3> QED BY <3>1, <3>3, <3>5 DEF RowsInv
    <2>11. Board!HasRow(metric, s.start)'
      <3>1. PICK after : after = kpiRows' /\ row \in after
        BY <2>7
      <3> QED BY <2>6, <3>1 DEF Board!HasRow
    <2>12. {} \in SUBSET MetricNames
      OBVIOUS
    <2> QED BY <1>11, <2>1, <2>3, <2>9, <2>10, <2>11, <2>12
  <1>13. ASSUME Board!PersistFails(a) PROVE BoardInv'
    <2>1. /\ s.at = "storing" /\ UNCHANGED kpiRows /\ Board!Stored(a, {Board!Storing(a)})
          /\ boardFaults' = boardFaults + 1
      BY <1>1, <1>13 DEF Board!PersistFails, Board!Fault
    <2>2. boardFaults' # 0
      BY <1>6, <2>1 DEF BoardInv, ClockInv
    <2>3. Board!Storing(a) \in MetricNames
      <3>1. PICK old \in Seq(Figures), len \in 1..4 : old = s.values /\ len = Len(old)
        BY <1>1, <2>1, RunFields DEF RunInv
      <3>2. 4 - len + 1 \in 1..4
        OBVIOUS
      <3>3. Board!Storing(a) = Board!Metrics[4 - len + 1]
        BY <1>1, <3>1, MetricsAre DEF Board!Storing
      <3> QED BY <3>2, <3>3, MetricsAre
    <2>4. PICK metric : metric = Board!Storing(a)
      OBVIOUS
    <2>5. {metric} \in SUBSET MetricNames /\ Board!Stored(a, {metric}) /\ metric \in {metric}
      BY <2>1, <2>3, <2>4
    <2> QED BY <1>5, <1>11, <2>1, <2>2, <2>4, <2>5
  <1> QED BY <1>7, <1>9, <1>10, <1>12, <1>13

(* The steps of the readers and of the cache.                              *)
LEMMA AnswersMove ==
  ASSUME Board!DashboardAssumption, BoardInv,
         UNCHANGED <<boardRepairs, boardKind, now, order, kpiRows, aggregation, pushed>>,
         boardFaults' \in 0..MaxFaults, boardFaults' = 0 => boardFaults = 0,
         AnswersInv => AnswersInv'
  PROVE  BoardInv'
  <1>1. Carried
    BY Quietly DEF BoardInv, Board!HasRow
  <1>2. ClockInv'
    BY DEF BoardInv, ClockInv
  <1>3. OrdersInv'
    <2>1. PlacedOrders' = PlacedOrders
      BY DEF PlacedOrders
    <2> QED BY <2>1 DEF BoardInv, OrdersInv
  <1>4. RowsInv' /\ RunsInv'
    BY <1>1, RowsStay, RunsStay DEF BoardInv
  <1> QED BY <1>2, <1>3, <1>4 DEF BoardInv

(* A reader moves to t; the entry stays, goes or takes an answer.          *)
LEMMA ReaderMoves ==
  ASSUME Board!DashboardAssumption, BoardInv, NEW r \in Readers, NEW t,
         UNCHANGED <<boardRepairs, boardKind, now, order, kpiRows, aggregation, pushed>>,
         boardFaults' \in 0..MaxFaults, boardFaults' = 0 => boardFaults = 0,
         reader' = [reader EXCEPT ![r] = t], t.at = "filling" => GoodAnswer(t.answer),
         UNCHANGED entry
  PROVE  BoardInv'
  <1>1. Carried
    BY Quietly DEF BoardInv, Board!HasRow
  <1>2. PICK places : reader \in [Readers -> places]
    BY DEF BoardInv, AnswersInv
  <1>3. PICK old, new, e : old = reader /\ new = reader' /\ e = entry
    OBVIOUS
  <1>4. new \in [Readers -> places \cup {t}]
    BY <1>2, <1>3
  <1>5. \A q \in Readers : new[q] = IF q = r THEN t ELSE old[q]
    BY <1>2, <1>3
  <1>6. \A q \in Readers : new[q].at = "filling" => GoodAnswer(new[q].answer)
    BY <1>3, <1>5 DEF BoardInv, AnswersInv
  <1>7. \A q \in Readers : new[q].at = "filling" => GoodAnswer(new[q].answer)'
    BY <1>1, <1>6, GoodStays DEF BoardInv
  <1>8. e.held \in BOOLEAN /\ (e.held => GoodAnswer(e.answer)')
    BY <1>1, <1>3, GoodStays DEF BoardInv, AnswersInv
  <1>9. AnswersInv'
    BY <1>3, <1>4, <1>7, <1>8 DEF AnswersInv
  <1> QED BY <1>9, AnswersMove

LEMMA AnswerIsGood ==
  ASSUME BoardInv PROVE GoodAnswer(Board!Answer)
  <1>1. Board!Answer \subseteq {r \in kpiRows : r.metric = "order_count"}
    BY DEF Board!Answer
  <1>2. IsFiniteSet(Board!Answer)
    BY <1>1, FS_Subset DEF BoardInv, RowsInv
  <1> QED BY <1>1, <1>2 DEF GoodAnswer, BoardInv, RowsInv

LEMMA BoardReaders ==
  ASSUME Board!DashboardAssumption, BoardInv, NEW r \in Readers,
         \/ Board!CacheGet(r) \/ Board!CacheGetFails(r) \/ Board!Query(r)
         \/ Board!QueryFails(r) \/ Board!CacheSet(r) \/ Board!CacheSetFails(r)
  PROVE  BoardInv'
  <1>1. /\ UNCHANGED <<boardRepairs, boardKind, now, order, kpiRows, aggregation, pushed>>
        /\ boardFaults' \in 0..MaxFaults /\ (boardFaults' = 0 => boardFaults = 0)
    <2>1. boardFaults \in 0..MaxFaults /\ MaxFaults \in Nat
      BY DEF BoardInv, ClockInv, Board!DashboardAssumption
    <2>2. Board!Fault => boardFaults' \in 0..MaxFaults /\ boardFaults' # 0
      BY <2>1 DEF Board!Fault
    <2> QED BY <2>1, <2>2
            DEF Board!CacheGet, Board!CacheGetFails, Board!Query, Board!QueryFails,
                Board!CacheSet, Board!CacheSetFails
  <1>2. ASSUME NEW t, reader' = [reader EXCEPT ![r] = t], t.at # "filling", UNCHANGED entry
        PROVE  BoardInv'
    BY <1>1, <1>2, ReaderMoves
  <1>3. Board!Respond(r) =>
          \E t : reader' = [reader EXCEPT ![r] = t] /\ t.at # "filling"
    <2>1. [at |-> "idle"].at # "filling"
      OBVIOUS
    <2> QED BY <2>1 DEF Board!Respond
  <1>4. Board!Miss(r) =>
          \E t : reader' = [reader EXCEPT ![r] = t] /\ t.at # "filling"
    <2>1. [at |-> "querying", left |-> Board!Statements].at # "filling"
      OBVIOUS
    <2> QED BY <2>1 DEF Board!Miss
  <1>5. CASE Board!CacheGet(r) \/ Board!CacheGetFails(r)
    <2>1. UNCHANGED entry /\ (Board!Respond(r) \/ Board!Miss(r))
      BY <1>5 DEF Board!CacheGet, Board!CacheGetFails
    <2> QED BY <1>2, <1>3, <1>4, <2>1
  <1>6. CASE Board!QueryFails(r) \/ Board!CacheSetFails(r)
    <2>1. UNCHANGED entry /\ Board!Respond(r)
      BY <1>6 DEF Board!QueryFails, Board!CacheSetFails
    <2> QED BY <1>2, <1>3, <2>1
  <1>7. CASE Board!Query(r)
    <2>1. reader[r].at = "querying" /\ UNCHANGED entry
      BY <1>7 DEF Board!Query
    <2>2. \/ Board!Respond(r)
          \/ reader' = [reader EXCEPT ![r].left = @ - 1]
          \/ reader' = [reader EXCEPT ![r] = [at |-> "filling", answer |-> Board!Answer]]
      BY <1>7 DEF Board!Query
    <2>3. CASE reader' = [reader EXCEPT ![r].left = @ - 1]
      <3>1. PICK s : s = reader[r]
        OBVIOUS
      <3>2. PICK t : t = [s EXCEPT !.left = @ - 1]
        OBVIOUS
      <3>3. reader' = [reader EXCEPT ![r] = t]
        BY <2>3, <3>1, <3>2
      <3>4. t.at # "filling"
        BY <2>1, <3>1, <3>2
      <3> QED BY <1>2, <2>1, <3>3, <3>4
    <2>4. CASE reader' = [reader EXCEPT ![r] = [at |-> "filling", answer |-> Board!Answer]]
      <3>1. PICK t : t = [at |-> "filling", answer |-> Board!Answer]
        OBVIOUS
      <3>2. GoodAnswer(t.answer)
        BY <3>1, AnswerIsGood
      <3>3. reader' = [reader EXCEPT ![r] = t]
        BY <2>4, <3>1
      <3> QED BY <1>1, <2>1, <3>2, <3>3, ReaderMoves
    <2> QED BY <1>2, <1>3, <2>1, <2>2, <2>3, <2>4
  <1>8. CASE Board!CacheSet(r)
    <2>1. PICK old, new, s, e :
            /\ old = reader /\ new = reader' /\ s = old[r] /\ s.at = "filling"
            /\ e = [held |-> TRUE, answer |-> s.answer] /\ entry' = e
            /\ new = [old EXCEPT ![r] = [at |-> "idle"]]
      BY <1>8 DEF Board!CacheSet, Board!Respond
    <2>2. PICK places : old \in [Readers -> places]
      BY <2>1 DEF BoardInv, AnswersInv
    <2>3. PICK rest : rest = [at |-> "idle"]
      OBVIOUS
    <2>4. new \in [Readers -> places \cup {rest}]
      BY <2>1, <2>2, <2>3
    <2>5. Carried
      BY <1>1, Quietly DEF BoardInv, Board!HasRow
    <2>6. \A q \in Readers : new[q] = IF q = r THEN rest ELSE old[q]
      BY <2>1, <2>2, <2>3
    <2>7. \A q \in Readers : new[q].at = "filling" => GoodAnswer(new[q].answer)
      BY <2>1, <2>3, <2>6 DEF BoardInv, AnswersInv
    <2>8. \A q \in Readers : new[q].at = "filling" => GoodAnswer(new[q].answer)'
      BY <2>5, <2>7, GoodStays DEF BoardInv
    <2>9. e.held = TRUE /\ GoodAnswer(e.answer)'
      <3>1. e.answer = s.answer /\ GoodAnswer(s.answer)
        BY <2>1 DEF BoardInv, AnswersInv
      <3>2. GoodAnswer(e.answer)
        BY <3>1
      <3> QED BY <2>1, <2>5, <3>2, GoodStays DEF BoardInv
    <2>10. AnswersInv'
      BY <2>1, <2>4, <2>8, <2>9 DEF AnswersInv
    <2> QED BY <1>1, <2>10, AnswersMove
  <1> QED BY <1>5, <1>6, <1>7, <1>8

LEMMA BoardExpires ==
  ASSUME Board!DashboardAssumption, BoardInv, Board!Expire
  PROVE  BoardInv'
  <1>1. /\ UNCHANGED <<boardRepairs, boardKind, now, order, kpiRows, aggregation, pushed,
                       reader, boardFaults>>
        /\ entry' = Board!NoEntry
    BY DEF Board!Expire
  <1>2. Carried
    BY <1>1, Quietly DEF BoardInv, Board!HasRow
  <1>3. PICK rs, e, places : rs = reader /\ e = Board!NoEntry /\ rs \in [Readers -> places]
    BY DEF BoardInv, AnswersInv
  <1>4. e.held = FALSE
    BY <1>3 DEF Board!NoEntry
  <1>5. \A q \in Readers : rs[q].at = "filling" => GoodAnswer(rs[q].answer)'
    BY <1>2, <1>3, GoodStays DEF BoardInv, AnswersInv
  <1>6. AnswersInv'
    BY <1>1, <1>3, <1>4, <1>5 DEF AnswersInv
  <1> QED BY <1>1, <1>6, AnswersMove DEF BoardInv, ClockInv

LEMMA BoardNext ==
  ASSUME Board!DashboardAssumption, BoardInv, [Board!Next]_boardVars
  PROVE  BoardInv'
  <1>1. CASE UNCHANGED boardVars
    <2>1. AnswersInv => AnswersInv'
      <3>1. PICK rs, e : rs = reader /\ e = entry /\ rs = reader' /\ e = entry'
        BY <1>1 DEF boardVars
      <3>2. Carried
        BY <1>1, Quietly DEF BoardInv, Board!HasRow, boardVars
      <3> QED BY <1>1, <3>2, AnswersStay DEF boardVars, BoardInv
    <2> QED BY <1>1, <2>1, AnswersMove DEF boardVars, BoardInv, ClockInv
  <1>2. CASE Board!Next
    BY <1>2, BoardOrders, BoardRuns, BoardReaders, BoardExpires DEF Board!Next
  <1> QED BY <1>1, <1>2

\* What the invariant says of answers and messages.
LEMMA BoardSays ==
  ASSUME Board!DashboardAssumption, BoardInv
  PROVE  Board!BoardAgrees
  <1>1. Board!OvercountHasACause
    <2> SUFFICES ASSUME entry.held, \A r, s \in entry.answer : ~Board!Overlap(r, s)
                 PROVE  Board!Counted(entry.answer)
                          <= Board!Cardinality(Board!Own({o \in Orders : order[o].placed}))
      BY DEF Board!OvercountHasACause
    <2>1. PICK S : S = entry.answer /\ GoodAnswer(S)
      BY DEF BoardInv, AnswersInv
    <2>2. PICK All : All = Board!Own({o \in Orders : order[o].placed})
      OBVIOUS
    <2>3. IsFiniteSet(All)
      <3>1. All \subseteq PlacedOrders
        BY <2>2 DEF Board!Own, PlacedOrders
      <3> QED BY <3>1, FS_Subset DEF BoardInv, OrdersInv
    <2>4. PICK X : X = [r \in S |-> OwnIn(r.start)]
      OBVIOUS
    <2>5. \A r \in S : /\ X[r] \subseteq All /\ r.value.part \in Nat
                       /\ r.value.part <= Cardinality(X[r])
      <3> TAKE r \in S
      <3>1. X[r] = OwnIn(r.start)
        BY <2>4
      <3>2. OwnIn(r.start) \subseteq All
        BY <2>2 DEF OwnIn, Board!Own, Board!Placed, Board!InBucket
      <3>3. r.value.part \in Nat /\ r.value.part <= Cardinality(OwnIn(r.start))
        BY <2>1 DEF GoodAnswer, GoodRow, Fitting, Figures
      <3> QED BY <3>1, <3>2, <3>3
    <2>6. \A r, s \in S : r # s => X[r] \cap X[s] = {}
      <3> SUFFICES ASSUME NEW r \in S, NEW s \in S, r # s, NEW o \in X[r], o \in X[s]
                   PROVE  FALSE
        OBVIOUS
      <3>1. o \in OwnIn(r.start) /\ o \in OwnIn(s.start)
        BY <2>4
      <3>2. /\ o \in Orders /\ order[o].placed
            /\ r.start <= order[o].at /\ order[o].at < r.start + Length
            /\ s.start <= order[o].at /\ order[o].at < s.start + Length
        BY <3>1 DEF OwnIn, Board!Own, Board!Placed, Board!InBucket
      <3>3. r.start \in Nat /\ s.start \in Nat
        BY <2>1 DEF GoodAnswer, GoodRow, Fitting
      <3>4. order[o].at \in Nat /\ Length \in Nat
        BY <3>2 DEF BoardInv, OrdersInv, Board!DashboardAssumption
      <3>5. PICK at \in Nat, one \in Nat, two \in Nat :
              at = order[o].at /\ one = r.start /\ two = s.start
        BY <3>3, <3>4
      <3>6. one < two + Length /\ two < one + Length
        BY <3>2, <3>4, <3>5
      <3>7. Board!Overlap(r, s)
        BY <3>5, <3>6 DEF Board!Overlap
      <3> QED BY <2>1, <3>7
    <2>7. Board!Counted(S) <= Cardinality(All)
      BY <2>1, <2>3, <2>5, <2>6, CountedWithin DEF GoodAnswer
    <2> QED BY <2>1, <2>2, <2>7, BoardCardinality
  <1>2. Board!PushedIsStored
    BY DEF BoardInv, RunsInv
  <1>3. Board!RatesFitTheCount
    <2> SUFFICES ASSUME NEW c \in kpiRows, NEW r \in kpiRows,
                        c.metric = "order_count", r.start = c.start,
                        ~Board!AppearedLate(c.start)
                 PROVE  /\ r.value.part <= c.value.part
                        /\ r.metric \in Board!Rates /\ "filter" \in boardRepairs =>
                             r.value.whole = c.value.part
      BY DEF Board!RatesFitTheCount
    <2>1. /\ Fitting(c.metric, c.start, c.value)
          /\ Fitting(r.metric, r.start, r.value)
      BY DEF BoardInv, RowsInv, GoodRow
    <2>2. PICK n : n = Cardinality(OwnIn(c.start)) /\ n = Cardinality(OwnIn(r.start))
      OBVIOUS
    <2>3. c.value.part = n
      BY <2>1, <2>2 DEF Fitting, Exact
    <2> QED BY <2>1, <2>2, <2>3 DEF Fitting, Exact
  <1>4. "names" \in boardRepairs => Board!AggregationsAreStored
    BY DEF BoardInv, RunsInv, RunInv, Board!AggregationsAreStored
  <1>5. "filter" \in boardRepairs => Board!RatesAreOwn
    <2> SUFFICES ASSUME "filter" \in boardRepairs, NEW r \in kpiRows, r.metric \in Board!Rates
                 PROVE  r.value.whole <= Cardinality(OwnIn(r.start))
      BY BoardCardinality DEF Board!RatesAreOwn, OwnIn
    <2> QED BY DEF BoardInv, RowsInv, GoodRow, Fitting
  <1> QED BY <1>1, <1>2, <1>3, <1>4, <1>5 DEF Board!BoardAgrees

\* What the invariant says of types.
LEMMA BoardTypes ==
  ASSUME Board!DashboardAssumption, BoardInv PROVE Board!TypeOK
  <1>1. PICK MetricIs : MetricIs = {Board!Metrics[i] : i \in 1..4} /\ MetricIs = MetricNames
    BY MetricsAre
  <1>2. now \in Nat /\ Length \in Nat
    BY DEF BoardInv, ClockInv, Board!DashboardAssumption
  <1>3. \A r : GoodRow(r) => r \in [metric : MetricIs, start : 0..now, value : Figures]
    <2> TAKE r
    <2> HAVE GoodRow(r)
    <2>1. r \in [metric : MetricIs, start : Nat, value : Figures]
      BY <1>1 DEF GoodRow, RowType
    <2>2. r.start \in 0..now
      BY <1>2, <2>1 DEF GoodRow, Fitting
    <2> QED BY <2>1, <2>2
  <1>4. kpiRows \subseteq [metric : MetricIs, start : 0..now, value : Figures]
    BY <1>3 DEF BoardInv, RowsInv
  <1>5. entry.held =>
          entry.answer \subseteq [metric : MetricIs, start : 0..now, value : Figures]
    BY <1>3 DEF BoardInv, AnswersInv, GoodAnswer
  <1>6. /\ boardRepairs \in {{}, {"names", "filter"}} /\ boardKind \in Board!Kinds
        /\ boardFaults \in 0..MaxFaults /\ now \in Length..MaxTime
        /\ \A o \in Orders :
             order[o].placed => order[o].seen \in Length..now /\ order[o].at \in 0..order[o].seen
        /\ pushed \subseteq 0..now
    BY DEF BoardInv, ClockInv, OrdersInv, RunsInv
  <1> QED BY <1>1, <1>4, <1>5, <1>6 DEF Board!TypeOK, Figures

-----------------------------------------------------------------------------
(***************************************************************************)
(* The results: of whichever component a behaviour follows, the inductive  *)
(* invariant holds, and of it every property the run checks.               *)
(***************************************************************************)
ServicesInv ==
  /\ focus = "tools" => RegistryInv /\ ToolsInv
  /\ focus = "llm" => Gateway!Invariant
  /\ focus = "chat" => ChatInv
  /\ focus = "platform" => PlatformInv
  /\ focus = "websocket" => SocketInv
  /\ focus = "streams" => StreamInv
  /\ focus = "schedules" => ScheduleInv
  /\ focus = "queries" => QueryInv
  /\ focus = "mappings" => MappingInv
  /\ focus = "board" => BoardInv
  /\ focus = "metrics" => MetricsInv
  /\ focus = "page" => PageInv

LEMMA Constants ==
  /\ ToolServices!Executor!SandboxAssumption /\ Chat!ChatAssumption
  /\ Platform!PlatformAssumption /\ Schedules!ScheduleAssumption
  /\ Queries!QueryAssumption /\ Mappings!MappingAssumption
  /\ Board!DashboardAssumption /\ Metrics!MetricsAssumption /\ Page!HookAssumption
  BY ServicesAssumption DEF ServicesAssumption

\* The first state of the followed component satisfies its invariant.
LEMMA ServicesInit ==
  ASSUME Init PROVE ServicesInv
  <1>1. /\ focus = "tools" => RegistryInv /\ ToolsInv
        /\ focus = "llm" => Gateway!Invariant
    BY Begun, Constants, GatewayConstants, RegistryInit, ToolsInit, GatewayInit,
       Gateway!InitInvariant DEF ToolServices!Init
  <1>2. /\ focus = "chat" => ChatInv
        /\ focus = "platform" => PlatformInv
        /\ focus = "websocket" => SocketInv
        /\ focus = "streams" => StreamInv
    BY Begun, Constants, ChatInit, PlatformInit, SocketInit, StreamInit
  <1>3. /\ focus = "schedules" => ScheduleInv
        /\ focus = "queries" => QueryInv
        /\ focus = "mappings" => MappingInv
        /\ focus = "board" => BoardInv
        /\ focus = "metrics" => MetricsInv
        /\ focus = "page" => PageInv
    BY Begun, Constants, ScheduleInit, QueryInit, MappingInit, BoardInit,
       MetricsInit,
       PageInit
  <1> QED BY <1>1, <1>2, <1>3 DEF ServicesInv

\* A step is one of the followed component.
LEMMA ServicesNext ==
  ASSUME ServicesInv, [Next]_vars PROVE ServicesInv'
  <1>1. focus' = focus
    BY FocusStays
  <1>2. focus = "tools" => (RegistryInv /\ ToolsInv)'
    <2>1. RegistryInv => ToolServices!Registry!TypeOK
      BY DEF RegistryInv
    <2> QED BY <2>1, Followed, Constants, RegistryFollows, RegistryNext, ToolsNext
            DEF ServicesInv
  <1>3. focus = "llm" => Gateway!Invariant'
    BY Followed, GatewayConstants, GatewayNext,
       Gateway!NextInvariant DEF ServicesInv
  <1>4. /\ focus = "chat" => ChatInv'
        /\ focus = "platform" => PlatformInv'
        /\ focus = "websocket" => SocketInv'
        /\ focus = "streams" => StreamInv'
    BY Followed, Constants, ChatNext, PlatformNext, SocketNext,
       StreamNext DEF ServicesInv
  <1>5. /\ focus = "schedules" => ScheduleInv'
        /\ focus = "queries" => QueryInv'
        /\ focus = "mappings" => MappingInv'
    BY Followed, Constants, ScheduleNext, QueryNext, MappingNext DEF ServicesInv
  <1>6. /\ focus = "board" => BoardInv'
        /\ focus = "metrics" => MetricsInv'
        /\ focus = "page" => PageInv'
    BY Followed, Constants, BoardNext, MetricsNext, PageNext DEF ServicesInv
  <1> QED BY <1>1, <1>2, <1>3, <1>4, <1>5, <1>6 DEF ServicesInv

(* The invariant of the component that is followed, in every state.        *)
LEMMA ServicesKeep == Spec => []ServicesInv
  BY ServicesInit, ServicesNext, PTL DEF Spec

(* No window admits more requests than the limit, for any number of        *)
(* requests, any limit, retries and faults: the injection of the admitted  *)
(* requests into the counter's answers, of LlmGateway_proofs.              *)
THEOREM LimitIsKept == Spec => []AdmittedWithinLimit
  <1>1. ServicesInv => AdmittedWithinLimit
    BY GatewayConstants, Gateway!InvariantLimits
    DEF ServicesInv, AdmittedWithinLimit, Llm!AdmittedWithinLimit,
        Gateway!AdmittedWithinLimit, Llm!Admitted, Gateway!Admitted, Llm!Cardinality,
        Gateway!Cardinality
  <1> QED BY <1>1, ServicesKeep, PTL

(* The call log tells how each call ended, and what a logged stream handed *)
(* on, for any number of frames and any cuts.                              *)
THEOREM LogIsTrue == Spec => []LogTellsTheOutcome
  <1>1. ServicesInv => LogTellsTheOutcome
    BY GatewayConstants, Gateway!InvariantLogs
    DEF ServicesInv, LogTellsTheOutcome, Llm!LogTellsTheOutcome, Gateway!LogTellsTheOutcome,
        Llm!Ended, Gateway!Ended
  <1> QED BY <1>1, ServicesKeep, PTL

(* A cached list of tools differs from the table for a known reason only,  *)
(* and no invocation runs what was not active when it began or since.      *)
THEOREM ToolListsAreExplained == Spec => []ToolListsFit
  <1>1. ServicesInv => ToolListsFit
    <2>1. RegistryInv => ToolServices!StaleListHasACause
      BY DEF RegistryInv, ToolServices!StaleListHasACause
    <2>2. RegistryInv => ToolServices!RunsAnActiveDefinition
      BY DEF RegistryInv, GoodCall, ToolServices!RunsAnActiveDefinition,
             ToolServices!Registry!RunsAnActiveDefinition
    <2> QED BY <2>1, <2>2 DEF ServicesInv, ToolListsFit
  <1> QED BY <1>1, ServicesKeep, PTL

(* Open connections are kept until shutdown, dead ones are on their way    *)
(* out unless a reconnection cancelled their timer, and Redis lists no     *)
(* others, for any connections and users.                                  *)
THEOREM LivingAreKept == Spec => []KeepsTheLiving
  <1>1. ServicesInv => KeepsTheLiving
    BY DEF ServicesInv, SocketInv, KeepsTheLiving
  <1> QED BY <1>1, ServicesKeep, PTL

(* Every stream that is kept has its timers, and none that is gone, but    *)
(* for those notifyMetricUpdate orphans.                                   *)
THEOREM TimersFollowStreams == Spec => []TimersHaveStreams
  <1>1. ServicesInv => TimersHaveStreams
    BY DEF ServicesInv, StreamInv, TimersHaveStreams
  <1> QED BY <1>1, ServicesKeep, PTL

(* Requests are shared evenly while the candidates stay the same, for any  *)
(* number of agents, definitions, types and requests: the invariant about  *)
(* the stretch of the list that is one request ahead, PlatformInv.         *)
THEOREM SharesAreEven == Spec => []FairShare
  <1>1. ServicesInv => FairShare
    BY Constants, PlatformShares DEF ServicesInv, FairShare
  <1> QED BY <1>1, ServicesKeep, PTL

(* A job at rest has the schedule its row asks for and no other, unless    *)
(* its last change failed, was refused or met another; for any number of   *)
(* jobs, requests and faults.                                              *)
THEOREM RowsAreScheduled == Spec => []SchedulesFollowRows
  <1>1. ServicesInv => SchedulesFollowRows
    BY DEF ServicesInv, ScheduleInv, JobInv, SchedulesFollowRows,
           Schedules!SchedulesFollowRows
  <1> QED BY <1>1, ServicesKeep, PTL

(* The page listens to the session it shows, however it changes between a  *)
(* close and the reconnection planned then.                                *)
THEOREM OwnSessionIsHeard == Spec => []ListensToItsSession
  <1>1. ServicesInv => ListensToItsSession
    BY DEF ServicesInv, PageInv, ListensToItsSession
  <1> QED BY <1>1, ServicesKeep, PTL

(* The counter of executions is the number of slots taken, and record,     *)
(* executor and invocation tell the same end of every execution; for any   *)
(* number of invocations and any limit.                                    *)
THEOREM ExecutionsTellTheSame == Spec => []ExecutionsAgree
  <1>1. ServicesInv => ExecutionsAgree
    BY Constants, ToolsSay DEF ServicesInv, ExecutionsAgree
  <1> QED BY <1>1, ServicesKeep, PTL

(* A confirmed mapping is the one its user saw unless it changed           *)
(* meanwhile, a corrected one is the SKU chosen and the latest sample for  *)
(* learning; an import counts every record once, stores no invalid one and *)
(* all valid ones if the database refuses none; for any SKUs, matches,     *)
(* users, imports and faults.                                              *)
THEOREM DecisionsStand == Spec => []MappingsStand
  <1>1. ServicesInv => MappingsStand
    BY MappingSays DEF ServicesInv, MappingsStand
  <1> QED BY <1>1, ServicesKeep, PTL

(* What a tool answers was read for the tenant that asked; of the answers  *)
(* to the empty input one older than the last sync is cached for a known   *)
(* reason only; a valid question to a tool whose statement is repaired is  *)
(* answered if the database does; for any tenants, calls, syncs, writes    *)
(* and faults.                                                             *)
THEOREM QueriesAreServed == Spec => []QueriesFit
  <1>1. ServicesInv => QueriesFit
    BY QuerySays DEF ServicesInv, QueriesFit
  <1> QED BY <1>1, ServicesKeep, PTL

(* However polls overlap, each publish is reported once but for those a    *)
(* poll clears without the statistics of their queue, and the messages     *)
(* said to be consumed differ from those that were by no more than the     *)
(* publishes that missed the statistics; for any number of queues, polls,  *)
(* messages and faults.                                                    *)
THEOREM RatesAreTrue == Spec => []RatesAreExplained
  <1>1. ServicesInv => RatesAreExplained
    BY MetricsSay DEF ServicesInv, RatesAreExplained
  <1> QED BY <1>1, ServicesKeep, PTL

(* What the gateway is asked with ends in the chat's own message and fits, *)
(* whatever the other chats of the session add; a client that stays hears  *)
(* how its chat ended, once and last; for any number of chats, events and  *)
(* messages, any threshold and any budget.                                 *)
THEOREM ChatsEndWell == Spec => []ChatsFit
  <1>1. ServicesInv => ChatsFit
    BY ChatSays DEF ServicesInv, ChatsFit
  <1> QED BY <1>1, ServicesKeep, PTL

(* What is stored, pushed and answered belongs together: an answer counts  *)
(* more orders than the tenant has only if its buckets overlap, what is    *)
(* pushed was stored or its failure is known, the figures of a bucket fit  *)
(* its count of orders unless one appeared late (what the rates divide by, *)
(* with the tenant condition repaired), and an aggregation that met no     *)
(* fault stored its rows on a schema that has its columns (KPIAggregator   *)
(* and the dashboard routes' cache, Dashboard).                            *)
THEOREM BoardIsTrue == Spec => []BoardAgrees
  <1>1. ServicesInv => BoardAgrees
    BY Constants, BoardSays DEF ServicesInv, BoardAgrees
  <1> QED BY <1>1, ServicesKeep, PTL

(* The types of every component's state.                                   *)
THEOREM TypesAreCorrect == Spec => []TypesOK
  <1>1. /\ RegistryInv => ToolServices!Registry!TypeOK
        /\ ToolsInv => ToolServices!Executor!TypeOK
        /\ Gateway!Invariant => Llm!TypeOK
    <2>1. RegistryInv => ToolServices!Registry!TypeOK
      BY DEF RegistryInv
    <2>2. ToolsInv => ToolServices!Executor!TypeOK
      BY DEF ToolsInv, SandboxInv
    <2>3. Gateway!TypeOK => Llm!TypeOK
      <3>1. Gateway!Points = Llm!Points /\ Gateway!Kinds = Llm!Kinds
        BY DEF Gateway!Points, Llm!Points, Gateway!Ended, Llm!Ended, Gateway!Kinds,
               Llm!Kinds
      <3>2. Gateway!Locals = Llm!Locals /\ Gateway!Counters = Llm!Counters
        BY <3>1, Zenon
        DEF Gateway!Locals, Llm!Locals, Gateway!Counters, Llm!Counters
      <3> QED BY <3>2 DEF Gateway!TypeOK, Llm!TypeOK
    <2>4. Gateway!Invariant => Llm!TypeOK
      BY <2>3 DEF Gateway!Invariant
    <2> QED BY <2>1, <2>2, <2>4
  <1>2. /\ ChatInv => Chat!TypeOK
        /\ PlatformInv => Platform!TypeOK
        /\ SocketInv => WebSocket!TypeOK
        /\ StreamInv => EventStream!TypeOK
        /\ ScheduleInv => Schedules!TypeOK
        /\ PageInv => Page!TypeOK
    BY DEF ChatInv, PlatformInv, SocketInv, StreamInv, ScheduleInv, PageInv
  <1>3. /\ QueryInv => Queries!TypeOK
        /\ MappingInv => Mappings!TypeOK
        /\ MetricsInv => Metrics!TypeOK
        /\ BoardInv => Board!TypeOK
    BY Constants, QuerySays, MappingSays, MetricsSay, BoardTypes
  <1>4. ServicesInv => TypesOK
    BY <1>1, <1>2, <1>3 DEF ServicesInv, TypesOK, AgentTypesOK, ToolServices!TypeOK
  <1> QED BY <1>4, ServicesKeep, PTL
=============================================================================
