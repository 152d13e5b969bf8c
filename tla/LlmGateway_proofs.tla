-------------------------- MODULE LlmGateway_proofs --------------------------
(***************************************************************************)
(* Proofs about LlmGateway, for any finite set of requests, any limit, any *)
(* number of retries, of frames and of faults.                             *)
(***************************************************************************)
EXTENDS LlmGateway, FiniteSetTheorems, TLAPS

(***************************************************************************)
(* The local invariant of a request and of its log.  The events a stream   *)
(* has handed on are those its reads so far did not cut in two, the last   *)
(* read having ended at its line.                                          *)
(***************************************************************************)
Started == {"call", "backoff", "body", "reading", "returned", "failed", "broken",
            "cancelled"}

WholeFrames(l) == {k \in 1..Frames : 2*k <= l.line /\ 2*k - 1 \notin l.cuts}

Good(l, log) ==
  /\ l.at \in {"idle", "count", "expire", "check", "refused", "limited", "rejected"} =>
       l.attempts = 0
  /\ l.at \in {"idle", "count", "expire", "check", "call"} => l.line = 0 /\ l.cuts = {} /\ l.events = {}
  /\ l.at = "call" => l.attempts <= MaxRetries /\ (l.kind = "stream" => l.attempts = 0)
  /\ l.at = "backoff" => l.kind = "complete" /\ l.attempts <= MaxRetries
                         /\ l.line = 0 /\ l.cuts = {} /\ l.events = {}
  /\ l.at = "body" => l.kind = "complete"
  /\ l.at = "reading" \/ (l.at = "returned" /\ l.kind = "stream") =>
       /\ l.kind = "stream"
       /\ l.events = WholeFrames(l)
       /\ \A x \in l.cuts : x <= l.line
       /\ l.line = 0 \/ l.line \in l.cuts
  /\ l.at = "returned" => log = {"success"} /\ (l.kind = "stream" => l.line = 2 * Frames)
  /\ l.at = "failed" => log = {"error"}
  /\ l.at \notin {"returned", "failed"} => log = {}

(***************************************************************************)
(* The invariant of the counter.  In every window the requests have        *)
(* different answers of the counter, in the current one none above what    *)
(* it shows; and those that went on were within the limit.                 *)
(***************************************************************************)
Counted(l, shown) ==
  /\ l.at \in {"idle", "count"} => l.count = 0
  /\ l.win <= window
  /\ l.count > 0 /\ l.win = window => l.count <= shown
  /\ l.at \in Started => l.count <= RateLimit

Apart(k, l) == k.count > 0 /\ l.count > 0 /\ k.win = l.win => k.count # l.count

Invariant ==
  /\ TypeOK
  /\ \A r \in Requests : Good(request[r], callLogs[r]) /\ Counted(request[r], counter.count)
  /\ \A r, q \in Requests : r # q => Apart(request[r], request[q])

Logs == SUBSET {"success", "error"}

LEMMA InitInvariant == ASSUME GatewayAssumption, Init PROVE Invariant
  <1>1. \A r \in Requests : request[r] = Fresh /\ callLogs[r] = {}
    BY DEF Init
  <1>2. Fresh \in Locals
    BY DEF Fresh, Locals, Kinds, Points, GatewayAssumption
  <1>3. counter \in Counters
    BY DEF Init, NoCounter, Counters
  <1>4. TypeOK
    <2>1. request \in [Requests -> Locals]
      BY <1>2 DEF Init
    <2>2. callLogs \in [Requests -> SUBSET {"success", "error"}]
      BY DEF Init
    <2> QED BY <1>3, <2>1, <2>2 DEF Init, TypeOK
  <1>5. /\ Fresh.at = "idle" /\ Fresh.attempts = 0 /\ Fresh.line = 0 /\ Fresh.cuts = {}
        /\ Fresh.events = {} /\ Fresh.count = 0 /\ Fresh.win = 0 /\ window = 0
    BY DEF Init, Fresh
  <1>6. Good(Fresh, {}) /\ Counted(Fresh, counter.count) /\ Apart(Fresh, Fresh)
    BY <1>5 DEF Good, Counted, Apart, Started, GatewayAssumption
  <1> QED BY <1>1, <1>4, <1>6 DEF Invariant

LEMMA CounterType ==
  ASSUME counter \in Counters, NEW live \in BOOLEAN, NEW count \in Nat
  PROVE  /\ [counter EXCEPT !.live = live, !.count = count] \in Counters
         /\ [counter EXCEPT !.live = live, !.count = count].count = count
  BY DEF Counters

(***************************************************************************)
(* The step of one request: what is left to show concerns its own locals.  *)
(***************************************************************************)
LEMMA LocalStep ==
  ASSUME Invariant, NEW r \in Requests, NEW new \in Locals, NEW log \in Logs,
         request' = [request EXCEPT ![r] = new],
         callLogs' = [callLogs EXCEPT ![r] = log],
         Good(new, log), Counted(new, counter'.count),
         \A q \in Requests : q # r => Apart(new, request[q]),
         counter' \in Counters, counter.count <= counter'.count,
         UNCHANGED <<registered, limited, window>>, faults' \in Nat
  PROVE  Invariant'
  <1>1. /\ request' \in [Requests -> Locals]
        /\ callLogs' \in [Requests -> Logs]
        /\ \A q \in Requests :
             /\ request'[q] = IF q = r THEN new ELSE request[q]
             /\ callLogs'[q] = IF q = r THEN log ELSE callLogs[q]
    BY DEF Invariant, TypeOK, Logs
  <1>2. TypeOK'
    BY <1>1 DEF Invariant, TypeOK, Logs
  <1>3. \A q \in Requests : Good(request'[q], callLogs'[q])
    BY <1>1 DEF Invariant
  <1>4. \A q \in Requests : Counted(request[q], counter.count)'
    <2> SUFFICES ASSUME NEW q \in Requests PROVE Counted(request[q], counter.count)'
      OBVIOUS
    <2>1. CASE q = r
      BY <1>1, <2>1 DEF Counted
    <2>2. CASE q # r
      <3>1. request[q] \in Locals /\ counter.count \in Nat /\ counter'.count \in Nat
        BY DEF Invariant, TypeOK, Counters
      <3>2. request'[q] = request[q] /\ Counted(request[q], counter.count)
        BY <1>1, <2>2 DEF Invariant
      <3> QED BY <3>1, <3>2 DEF Counted, Locals
    <2> QED BY <2>1, <2>2
  <1>5. \A p, q \in Requests : p # q => Apart(request'[p], request'[q])
    <2>1. \A q \in Requests : q # r => Apart(request[q], new)
      BY DEF Apart
    <2> QED BY <1>1, <2>1 DEF Invariant
  <1> QED BY <1>2, <1>3, <1>4, <1>5 DEF Invariant, Good, WholeFrames

(* A step that leaves the answer of the counter alone.                     *)
LEMMA SameAnswer ==
  ASSUME Invariant, NEW r \in Requests, NEW new \in Locals, NEW log \in Logs,
         new.count = request[r].count, new.win = request[r].win,
         new.at \notin {"idle", "count"},
         new.at \in Started => request[r].at \in Started \/ new.count <= RateLimit,
         request' = [request EXCEPT ![r] = new],
         callLogs' = [callLogs EXCEPT ![r] = log],
         Good(new, log), counter' \in Counters, counter'.count = counter.count,
         UNCHANGED <<registered, limited, window>>, faults' \in Nat
  PROVE  Invariant'
  <1>1. Counted(request[r], counter.count) /\ \A q \in Requests : q # r => Apart(request[r], request[q])
    BY DEF Invariant
  <1>2. Counted(new, counter'.count)
    BY <1>1 DEF Counted
  <1>3. \A q \in Requests : q # r => Apart(new, request[q])
    BY <1>1 DEF Apart
  <1>4. counter.count <= counter'.count
    BY DEF Invariant, TypeOK, Counters
  <1> QED BY <1>2, <1>3, <1>4, LocalStep

(***************************************************************************)
(* What one read hands on: the frames both of whose lines it completes.    *)
(* With those handed on before they are the frames no read has cut.        *)
(***************************************************************************)
LEMMA ReadHandsOn ==
  ASSUME GatewayAssumption, NEW l \in Locals, Good(l, {}), l.at = "reading",
         NEW to \in (l.line + 1) .. (2 * Frames), NEW new \in Locals,
         new.line = to, new.cuts = l.cuts \cup {to},
         new.events = l.events \cup Parsed(l.line, to)
  PROVE  /\ new.events = WholeFrames(new)
         /\ \A x \in new.cuts : x <= to
  <1>1. /\ l.line \in Nat /\ to \in Nat /\ l.line < to /\ Frames \in Nat
        /\ l.cuts \subseteq Nat
    BY GatewayAssumption DEF Locals, GatewayAssumption
  <1>2. /\ l.events = WholeFrames(l)
        /\ \A x \in l.cuts : x <= l.line
        /\ l.line = 0 \/ l.line \in l.cuts
    BY DEF Good
  <1>3. ASSUME NEW k \in 1..Frames
        PROVE  k \in new.events <=> k \in WholeFrames(new)
    <2>1. k \in WholeFrames(new) <=> 2*k <= to /\ 2*k - 1 \notin l.cuts /\ 2*k - 1 # to
      BY DEF WholeFrames
    <2>2. k \in l.events <=> 2*k <= l.line /\ 2*k - 1 \notin l.cuts
      BY <1>2 DEF WholeFrames
    <2>3. k \in new.events <=> k \in l.events \/ (l.line < 2*k - 1 /\ 2*k <= to)
      BY DEF Parsed
    <2>4. CASE 2*k <= l.line
      BY <1>1, <2>1, <2>2, <2>3, <2>4
    <2>5. CASE l.line = 2*k - 1
      <3>1. 2*k - 1 \in l.cuts
        BY <1>1, <1>2, <2>5
      <3> QED BY <1>1, <2>1, <2>2, <2>3, <2>5, <3>1
    <2>6. CASE l.line < 2*k - 1
      <3>1. 2*k - 1 \notin l.cuts
        BY <1>1, <1>2, <2>6
      <3> QED BY <1>1, <2>1, <2>2, <2>3, <2>6, <3>1
    <2> QED BY <1>1, <2>4, <2>5, <2>6
  <1>4. new.events \subseteq 1..Frames /\ WholeFrames(new) \subseteq 1..Frames
    BY DEF Locals, WholeFrames
  <1>5. \A x \in new.cuts : x <= to
    BY <1>1, <1>2
  <1> QED BY <1>3, <1>4, <1>5

LEMMA NextInvariant == ASSUME GatewayAssumption, Invariant, [Next]_vars PROVE Invariant'
  <1>0. /\ request \in [Requests -> Locals] /\ callLogs \in [Requests -> Logs]
        /\ counter \in Counters /\ counter.count \in Nat /\ window \in Nat /\ faults \in Nat
        /\ \A r \in Requests :
             /\ request[r] \in Locals /\ callLogs[r] \in Logs
             /\ Good(request[r], callLogs[r]) /\ Counted(request[r], counter.count)
             /\ request[r].at \notin {"returned", "failed"} => callLogs[r] = {}
    BY DEF Invariant, TypeOK, Logs, Counters, Good
  <1>a. Fault => faults' \in Nat
    BY <1>0 DEF Fault
  <1>b. ASSUME UNCHANGED callLogs, NEW r \in Requests
        PROVE  callLogs' = [callLogs EXCEPT ![r] = callLogs[r]]
    BY <1>0, <1>b
  <1>c. UNCHANGED counter => counter' \in Counters /\ counter'.count = counter.count
    BY <1>0
  <1>1. CASE SetTenant
    BY <1>1 DEF SetTenant, Invariant, TypeOK, Good, Counted, WholeFrames, Apart
  <1>2. CASE WindowEnds
    <2>1. counter' \in Counters /\ counter'.count = 0 /\ window' \in Nat
      BY <1>0, <1>2 DEF WindowEnds, NoCounter, Counters
    <2>2. \A r \in Requests : Counted(request[r], counter.count)'
      BY <1>0, <1>2, <2>1 DEF WindowEnds, Counted, Locals
    <2> QED BY <1>2, <2>1, <2>2 DEF WindowEnds, Invariant, TypeOK, Good, WholeFrames, Apart
  <1>3. ASSUME NEW r \in Requests, NEW kind \in Kinds, Start(r, kind) PROVE Invariant'
    <2> DEFINE next == IF ~registered THEN "refused" ELSE IF limited THEN "count" ELSE "call"
               new == [request[r] EXCEPT !.kind = kind, !.at = next]
    <2>1. new \in Locals
      <3>1. request[r] \in Locals
        BY <1>0
      <3>2. next \in Points
        BY DEF Points, Ended
      <3> HIDE DEF next
      <3> QED BY <3>1, <3>2 DEF Locals
    <2>2. request' = [request EXCEPT ![r] = new]
      BY <1>3 DEF Start
    <2>3. Good(new, callLogs[r])
      BY <1>0, <1>3, GatewayAssumption DEF Start, Good, Locals, GatewayAssumption
    <2>4. /\ new.count = 0 /\ new.win = request[r].win
      BY <1>0, <1>3 DEF Start, Counted, Locals
    <2> HIDE DEF new
    <2>5. Counted(new, counter'.count)
      <3>1. Counted(request[r], counter.count)
        BY <1>0
      <3> QED BY <1>3, <2>4, <3>1, GatewayAssumption DEF Start, Counted, GatewayAssumption
    <2>6. \A q \in Requests : Apart(new, request[q])
      BY <2>4 DEF Apart
    <2>7. UNCHANGED <<registered, limited, counter, window, callLogs, faults>>
      BY <1>3 DEF Start
    <2>8. callLogs' = [callLogs EXCEPT ![r] = callLogs[r]] /\ callLogs[r] \in Logs
      BY <1>0, <1>b, <2>7
    <2>9. counter' \in Counters /\ counter.count <= counter'.count /\ faults' \in Nat
      BY <1>0, <2>7
    <2> QED BY <2>1, <2>2, <2>3, <2>5, <2>6, <2>7, <2>8, <2>9, LocalStep
  <1>4. ASSUME NEW r \in Requests, NEW point \in {"rejected", "check", "limited"},
               request[r].at \in {"count", "expire", "check"}, Goto(r, point),
               counter' \in Counters, counter.count <= counter'.count,
               UNCHANGED <<registered, limited, window, callLogs>>, faults' \in Nat
        PROVE  Invariant'
    <2> DEFINE new == [request[r] EXCEPT !.at = point]
    <2>1. new \in Locals
      BY <1>0 DEF Locals, Points, Ended
    <2>2. request' = [request EXCEPT ![r] = new]
      BY <1>4 DEF Goto
    <2>3. /\ new.attempts = 0 /\ new.at = point /\ callLogs[r] = {}
          /\ new.line = 0 /\ new.cuts = {} /\ new.events = {}
          /\ new.count = request[r].count /\ new.win = request[r].win
      BY <1>0, <1>4 DEF Good, Locals
    <2> HIDE DEF new
    <2>4. Good(new, callLogs[r])
      BY <2>3 DEF Good
    <2>5. Counted(new, counter'.count)
      <3>1. counter'.count \in Nat /\ new.count \in Nat
        BY <1>4, <2>1 DEF Counters, Locals
      <3> QED BY <1>0, <1>4, <2>3, <3>1 DEF Counted, Started
    <2>6. \A q \in Requests : q # r => Apart(new, request[q])
      BY <2>3 DEF Invariant, Apart
    <2> QED BY <1>0, <1>4, <1>b, <2>1, <2>2, <2>4, <2>5, <2>6, LocalStep
  <1>5. ASSUME NEW r \in Requests, Count(r) PROVE Invariant'
    <2>1. /\ counter' \in Counters /\ counter'.count = counter.count + 1
      <3>1. counter' = [counter EXCEPT !.live = TRUE, !.count = @ + 1]
        BY <1>5 DEF Count
      <3>2. counter \in Counters /\ counter.count + 1 \in Nat
        BY <1>0
      <3> QED BY <3>1, <3>2, CounterType
    <2>2. CASE /\ request' = [request EXCEPT
                    ![r].at = IF counter.ttl THEN "check" ELSE "expire",
                    ![r].count = counter.count + 1, ![r].win = window]
               /\ UNCHANGED faults
      <3> DEFINE point == IF counter.ttl THEN "check" ELSE "expire"
                 new == [request[r] EXCEPT !.at = point, !.count = counter.count + 1,
                                           !.win = window]
      <3>1. new \in Locals
        <4>1. point \in Points /\ counter.count + 1 \in Nat
          BY <1>0 DEF Points
        <4> HIDE DEF point
        <4> QED BY <1>0, <4>1 DEF Locals
      <3>2. request' = [request EXCEPT ![r] = new]
        BY <2>2
      <3>3. /\ new.at \in {"check", "expire"} /\ new.attempts = 0 /\ callLogs[r] = {}
            /\ new.count = counter.count + 1 /\ new.win = window
            /\ new.line = 0 /\ new.cuts = {} /\ new.events = {}
        BY <1>0, <1>5 DEF Count, Good, Locals
      <3> HIDE DEF new
      <3>4. Good(new, callLogs[r])
        BY <3>3 DEF Good
      <3>5. Counted(new, counter'.count)
        BY <1>0, <1>5, <2>1, <3>3 DEF Count, Counted, Started
      <3>6. \A q \in Requests : q # r => Apart(new, request[q])
        BY <1>0, <3>3 DEF Apart, Counted, Locals
      <3>7. UNCHANGED <<registered, limited, window, callLogs, faults>>
        BY <1>5, <2>2 DEF Count
      <3>8. callLogs' = [callLogs EXCEPT ![r] = callLogs[r]] /\ callLogs[r] \in Logs
        BY <1>0, <1>b, <3>7
      <3>9. counter.count <= counter'.count /\ faults' \in Nat
        BY <1>0, <2>1, <3>7
      <3> QED BY <2>1, <3>1, <3>2, <3>4, <3>5, <3>6, <3>7, <3>8, <3>9, LocalStep
    <2>3. CASE Fault /\ Goto(r, "rejected")
      BY <1>0, <1>4, <1>5, <1>a, <2>1, <2>3 DEF Count
    <2> QED BY <1>5, <2>2, <2>3 DEF Count
  <1>6. ASSUME NEW r \in Requests, RedisFails(r) PROVE Invariant'
    BY <1>0, <1>4, <1>6, <1>a DEF RedisFails
  <1>7. ASSUME NEW r \in Requests, SetExpiry(r) PROVE Invariant'
    <2>1. counter' \in Counters /\ counter'.count = counter.count
      BY <1>0, <1>7 DEF SetExpiry, Counters
    <2> QED BY <1>0, <1>4, <1>7, <2>1 DEF SetExpiry
  <1>8. ASSUME NEW r \in Requests, Check(r) PROVE Invariant'
    <2>1. CASE ~Allowed(r)
      BY <1>0, <1>4, <1>8, <1>c, <2>1 DEF Check
    <2>2. CASE Allowed(r)
      <3> DEFINE new == [request[r] EXCEPT !.at = "call"]
      <3>1. new \in Locals
        BY <1>0 DEF Locals, Points
      <3>2. request' = [request EXCEPT ![r] = new]
        BY <1>8, <2>2 DEF Check, Goto
      <3>3. /\ new.at = "call" /\ new.attempts = 0 /\ callLogs[r] = {}
            /\ new.count = request[r].count /\ new.win = request[r].win
            /\ new.line = 0 /\ new.cuts = {} /\ new.events = {}
        BY <1>0, <1>8 DEF Check, Good, Locals
      <3> HIDE DEF new
      <3>4. Good(new, callLogs[r])
        BY <3>3, GatewayAssumption DEF Good, GatewayAssumption
      <3> QED BY <1>0, <1>8, <1>b, <1>c, <2>2, <3>1, <3>2, <3>3, <3>4, SameAnswer DEF Check, Allowed
    <2> QED BY <2>1, <2>2
  <1>9. ASSUME NEW r \in Requests, CallComplete(r) PROVE Invariant'
    <2>1. PICK answer \in Answers :
            /\ request' = [request EXCEPT
                 ![r].attempts = @ + 1,
                 ![r].at = IF answer = "ok" THEN "body"
                           ELSE IF Retries(r, answer) THEN "backoff" ELSE "failed"]
            /\ IF answer = "ok" \/ Retries(r, answer)
                 THEN UNCHANGED callLogs
                 ELSE Log(r, "error")
      BY <1>9 DEF CallComplete
    <2> DEFINE point == IF answer = "ok" THEN "body"
                        ELSE IF Retries(r, answer) THEN "backoff" ELSE "failed"
               new == [request[r] EXCEPT !.attempts = @ + 1, !.at = point]
               log == IF point = "failed" THEN {"error"} ELSE {}
    <2>2. /\ request[r].attempts \in Nat /\ request[r].attempts <= MaxRetries
          /\ MaxRetries \in Nat /\ callLogs[r] = {}
          /\ request[r].at = "call" /\ request[r].kind = "complete"
          /\ request[r].line = 0 /\ request[r].cuts = {} /\ request[r].events = {}
      BY <1>0, <1>9, GatewayAssumption DEF CallComplete, At, Good, Locals, GatewayAssumption
    <2>3. new \in Locals
      <3>1. point \in Points /\ request[r].attempts + 1 \in 0..(MaxRetries + 1)
        BY <2>2 DEF Points, Ended
      <3> HIDE DEF point
      <3> QED BY <1>0, <3>1 DEF Locals
    <2>4. /\ request' = [request EXCEPT ![r] = new]
          /\ callLogs' = [callLogs EXCEPT ![r] = log]
      BY <1>0, <2>1, <2>2 DEF Log
    <2>5. /\ new.at = point /\ new.kind = "complete" /\ new.attempts = request[r].attempts + 1
          /\ new.count = request[r].count /\ new.win = request[r].win
          /\ new.line = 0 /\ new.cuts = {} /\ new.events = {}
      BY <1>0, <2>2 DEF Locals
    <2>6. point = "backoff" => request[r].attempts < MaxRetries
      BY DEF Retries
    <2>7. log \in Logs /\ point \in {"body", "backoff", "failed"}
      BY DEF Logs
    <2> HIDE DEF new
    <2>8. Good(new, log)
      BY <2>2, <2>5, <2>6, <2>7 DEF Good
    <2> QED BY <1>0, <1>9, <1>c, <2>2, <2>3, <2>4, <2>5, <2>7, <2>8, SameAnswer
            DEF CallComplete, Started
  <1>10. ASSUME NEW r \in Requests, Retry(r) PROVE Invariant'
    <2> DEFINE new == [request[r] EXCEPT !.at = "call"]
    <2>1. new \in Locals
      BY <1>0 DEF Locals, Points
    <2>2. request' = [request EXCEPT ![r] = new]
      BY <1>10 DEF Retry, Goto
    <2>3. /\ new.at = "call" /\ new.kind = "complete" /\ new.attempts <= MaxRetries
          /\ new.count = request[r].count /\ new.win = request[r].win
          /\ new.line = 0 /\ new.cuts = {} /\ new.events = {} /\ callLogs[r] = {}
      BY <1>0, <1>10 DEF Retry, Good, Locals
    <2> HIDE DEF new
    <2>4. Good(new, callLogs[r])
      BY <2>3 DEF Good
    <2> QED BY <1>0, <1>10, <1>b, <1>c, <2>1, <2>2, <2>3, <2>4, SameAnswer DEF Retry, Started
  <1>11. ASSUME NEW r \in Requests, NEW point \in {"returned", "failed", "broken", "cancelled"},
                NEW log \in Logs, request[r].at \in {"body", "reading"}, Goto(r, point),
                callLogs' = [callLogs EXCEPT ![r] = log],
                point = "returned" => /\ log = {"success"}
                                      /\ request[r].at = "reading" =>
                                           request[r].line = 2 * Frames,
                point = "failed" => log = {"error"},
                point \notin {"returned", "failed"} => log = {},
                UNCHANGED <<registered, limited, counter, window, faults>>
         PROVE  Invariant'
    <2> DEFINE new == [request[r] EXCEPT !.at = point]
    <2>1. new \in Locals
      BY <1>0 DEF Locals, Points, Ended
    <2>2. request' = [request EXCEPT ![r] = new]
      BY <1>11 DEF Goto
    <2>3. /\ new.at = point /\ new.kind = request[r].kind
          /\ new.count = request[r].count /\ new.win = request[r].win
          /\ new.line = request[r].line /\ new.cuts = request[r].cuts
          /\ new.events = request[r].events
      BY <1>0 DEF Locals
    <2> HIDE DEF new
    <2>4. request[r].at = "body" => request[r].kind = "complete"
      BY <1>0 DEF Good
    <2>5. request[r].at = "reading" =>
            /\ request[r].kind = "stream"
            /\ request[r].events = WholeFrames(request[r])
            /\ \A x \in request[r].cuts : x <= request[r].line
            /\ request[r].line = 0 \/ request[r].line \in request[r].cuts
      BY <1>0 DEF Good
    <2>6. WholeFrames(new) = WholeFrames(request[r])
      BY <2>3 DEF WholeFrames
    <2>7. Good(new, log)
      BY <1>11, <2>3, <2>4, <2>5, <2>6 DEF Good
    <2> QED BY <1>0, <1>11, <1>c, <2>1, <2>2, <2>3, <2>7, SameAnswer DEF Started
  <1>12. ASSUME NEW r \in Requests, Body(r) PROVE Invariant'
    <2>1. request[r].at = "body" /\ callLogs[r] = {}
      BY <1>0, <1>12 DEF Body
    <2>2. CASE Goto(r, "returned") /\ Log(r, "success")
      <3>1. callLogs' = [callLogs EXCEPT ![r] = {"success"}]
        BY <1>0, <2>1, <2>2 DEF Log
      <3> QED BY <1>11, <1>12, <2>1, <2>2, <3>1 DEF Body, Logs
    <2>3. CASE Goto(r, "failed") /\ Log(r, "error")
      <3>1. callLogs' = [callLogs EXCEPT ![r] = {"error"}]
        BY <1>0, <2>1, <2>3 DEF Log
      <3> QED BY <1>11, <1>12, <2>1, <2>3, <3>1 DEF Body, Logs
    <2> QED BY <1>12, <2>2, <2>3 DEF Body
  <1>13. ASSUME NEW r \in Requests, CallStream(r) PROVE Invariant'
    <2>1. PICK point \in {"reading", "broken"} :
            request' = [request EXCEPT ![r].attempts = @ + 1, ![r].at = point]
      BY <1>13 DEF CallStream
    <2> DEFINE new == [request[r] EXCEPT !.attempts = @ + 1, !.at = point]
    <2>2. /\ request[r].attempts = 0 /\ MaxRetries \in Nat /\ callLogs[r] = {}
          /\ request[r].at = "call" /\ request[r].kind = "stream"
          /\ request[r].line = 0 /\ request[r].cuts = {} /\ request[r].events = {}
      BY <1>0, <1>13, GatewayAssumption DEF CallStream, At, Good, GatewayAssumption
    <2>3. new \in Locals
      <3>1. point \in Points /\ request[r].attempts + 1 \in 0..(MaxRetries + 1)
        BY <2>2 DEF Points, Ended
      <3> QED BY <1>0, <3>1 DEF Locals
    <2>4. request' = [request EXCEPT ![r] = new]
      BY <2>1
    <2>5. /\ new.at = point /\ new.kind = "stream"
          /\ new.count = request[r].count /\ new.win = request[r].win
          /\ new.line = 0 /\ new.cuts = {} /\ new.events = {}
      BY <1>0, <2>2 DEF Locals
    <2> HIDE DEF new
    <2>6. WholeFrames(new) = {}
      BY <2>5, GatewayAssumption DEF WholeFrames, GatewayAssumption
    <2>7. Good(new, callLogs[r])
      BY <2>2, <2>5, <2>6 DEF Good
    <2> QED BY <1>0, <1>13, <1>b, <1>c, <2>2, <2>3, <2>4, <2>5, <2>7, SameAnswer
            DEF CallStream, Started
  <1>14. ASSUME NEW r \in Requests, Read(r) PROVE Invariant'
    <2>1. PICK to \in (request[r].line + 1) .. (2 * Frames) :
            request' = [request EXCEPT
              ![r].line = to, ![r].cuts = @ \cup {to},
              ![r].events = @ \cup Parsed(request[r].line, to)]
      BY <1>14 DEF Read
    <2> DEFINE new == [request[r] EXCEPT !.line = to, !.cuts = @ \cup {to},
                                         !.events = @ \cup Parsed(request[r].line, to)]
    <2>2. to \in 1..(2 * Frames) /\ request[r].line \in Nat
      BY <1>0, GatewayAssumption DEF Locals, GatewayAssumption
    <2>3. Parsed(request[r].line, to) \subseteq 1..Frames
      BY DEF Parsed
    <2>4. new \in Locals
      <3>1. /\ request[r].cuts \cup {to} \in SUBSET (1..(2 * Frames))
            /\ request[r].events \cup Parsed(request[r].line, to) \in SUBSET (1..Frames)
            /\ to \in 0..(2 * Frames)
        BY <1>0, <2>2, <2>3 DEF Locals
      <3> QED BY <1>0, <3>1 DEF Locals
    <2>5. request' = [request EXCEPT ![r] = new]
      BY <2>1
    <2>6. /\ new.at = "reading" /\ new.kind = "stream" /\ new.line = to
          /\ new.count = request[r].count /\ new.win = request[r].win
          /\ new.cuts = request[r].cuts \cup {to}
          /\ new.events = request[r].events \cup Parsed(request[r].line, to)
          /\ request[r].at = "reading" /\ callLogs[r] = {}
      BY <1>0, <1>14 DEF Read, Good, Locals
    <2> HIDE DEF new
    <2>7. /\ new.events = WholeFrames(new)
          /\ \A x \in new.cuts : x <= to
      <3>1. Good(request[r], {})
        BY <1>0, <2>6
      <3> QED BY <1>0, <2>4, <2>6, <3>1, ReadHandsOn
    <2>8. Good(new, callLogs[r])
      BY <2>6, <2>7 DEF Good
    <2> QED BY <1>0, <1>14, <1>b, <1>c, <2>4, <2>5, <2>6, <2>8, SameAnswer DEF Read, Started
  <1>15. ASSUME NEW r \in Requests, StreamEnds(r) PROVE Invariant'
    <2>1. callLogs' = [callLogs EXCEPT ![r] = {"success"}]
      BY <1>0, <1>15 DEF StreamEnds, Log
    <2> QED BY <1>11, <1>15, <2>1 DEF StreamEnds, Logs
  <1>16. ASSUME NEW r \in Requests, StreamStops(r) PROVE Invariant'
    <2>1. callLogs[r] = {} /\ {} \in Logs
      BY <1>0, <1>16 DEF StreamStops, Logs
    <2>2. callLogs' = [callLogs EXCEPT ![r] = {}]
      BY <1>0, <1>16, <2>1 DEF StreamStops
    <2> QED BY <1>11, <1>16, <2>1, <2>2 DEF StreamStops
  <1>17. CASE UNCHANGED vars
    BY <1>17 DEF vars, Invariant, TypeOK, Good, Counted, WholeFrames, Apart
  <1> QED BY <1>1, <1>2, <1>3, <1>5, <1>6, <1>7, <1>8, <1>9, <1>10, <1>12, <1>13, <1>14,
             <1>15, <1>16, <1>17 DEF Next, Step

\* Of every reachable state, for any numbers of requests, attempts and frames.
THEOREM InvariantHolds == ASSUME GatewayAssumption PROVE Spec => []Invariant
  <1> QED BY InitInvariant, NextInvariant, PTL DEF Spec

(* Types; the API is called at most once and MaxRetries times again.       *)
THEOREM TypeCorrect == ASSUME GatewayAssumption PROVE Spec => []TypeOK
  <1>1. Invariant => TypeOK
    BY DEF Invariant
  <1> QED BY <1>1, InvariantHolds, PTL

(* The log says how a call ended, and a logged stream handed on all frames *)
(* but those a read had cut in two.                                        *)
LEMMA InvariantLogs == ASSUME GatewayAssumption, Invariant PROVE LogTellsTheOutcome
  <1> SUFFICES ASSUME NEW r \in Requests
               PROVE  /\ request[r].at \notin Ended => callLogs[r] = {}
                      /\ request[r].at = "failed" => callLogs[r] = {"error"}
                      /\ request[r].at = "broken" => "success" \notin callLogs[r]
                      /\ request[r].at = "returned" =>
                           /\ callLogs[r] = {"success"}
                           /\ request[r].kind = "stream" =>
                                {k \in 1..Frames : 2*k - 1 \notin request[r].cuts}
                                  \subseteq request[r].events
    BY DEF LogTellsTheOutcome
  <1>1. Good(request[r], callLogs[r])
    BY DEF Invariant
  <1>2. request[r].line = 2 * Frames =>
          WholeFrames(request[r]) = {k \in 1..Frames : 2*k - 1 \notin request[r].cuts}
    BY GatewayAssumption DEF WholeFrames, GatewayAssumption
  <1> QED BY <1>1, <1>2 DEF Good, Ended

(* A call is logged once it has ended, and as its caller saw it end; a     *)
(* logged stream lost no frame a read had left whole.                      *)
THEOREM LogIsTrue == ASSUME GatewayAssumption PROVE Spec => []LogTellsTheOutcome
  <1> QED BY InvariantLogs, InvariantHolds, PTL

(* The answers of the counter tell the requests of a window apart, so no   *)
(* more of them than the limit are within it.                              *)
LEMMA InvariantLimits == ASSUME GatewayAssumption, Invariant PROVE AdmittedWithinLimit
  <1> SUFFICES ASSUME NEW w \in 0..window PROVE Cardinality(Admitted(w)) <= RateLimit
    BY DEF AdmittedWithinLimit
  <1> DEFINE answer == [r \in Admitted(w) |-> request[r].count]
  <1>1. \A r \in Admitted(w) : request[r].count \in 1..RateLimit
    BY GatewayAssumption DEF Invariant, TypeOK, Locals, Admitted, Counted, Started,
                             GatewayAssumption
  <1>2. answer \in [Admitted(w) -> 1..RateLimit]
    BY <1>1
  <1>3. \A r, q \in Admitted(w) : r # q => answer[r] # answer[q]
    BY DEF Invariant, Apart, Admitted
  <1>4. answer \in Injection(Admitted(w), 1..RateLimit)
    BY <1>2, <1>3 DEF Injection, IsInjective
  <1>5. IsFiniteSet(1..RateLimit) /\ Cardinality(1..RateLimit) = RateLimit
    BY FS_Interval, GatewayAssumption DEF GatewayAssumption
  <1> QED BY <1>4, <1>5, FS_Injection

(* The limit holds in every window, however requests, expiry and window    *)
(* interleave.                                                             *)
THEOREM LimitKept == ASSUME GatewayAssumption PROVE Spec => []AdmittedWithinLimit
  <1> QED BY InvariantLimits, InvariantHolds, PTL
=============================================================================
