----------------------------- MODULE LlmGateway -----------------------------
(***************************************************************************)
(* The gateway to the language model: LLMGatewayService of                 *)
(* src/infrastructure/llm with its retries, error classes, rate limiter    *)
(* and call log, and the counter of RedisCacheService they rest on.        *)
(*                                                                         *)
(* Requests of one tenant are admitted by a counter in Redis that lives    *)
(* for a minute, then go to the API: complete() with retries, stream()     *)
(* once, its body read piece by piece.  Every await is a point where other *)
(* requests, the end of the window and failures interleave.                *)
(*                                                                         *)
(* The body of a stream is Frames events, each a line "event:" and a line  *)
(* "data:" (lines 2k-1 and 2k of frame k), cut into reads anywhere: the    *)
(* rest of a cut line is kept for the next read.                           *)
(***************************************************************************)
EXTENDS Integers, FiniteSets

CONSTANTS
  Requests,    \* calls of complete and stream
  RateLimit,   \* config.rateLimit: requests a minute
  MaxRetries,  \* retryConfig.maxRetries
  Frames,      \* events in the body of a stream
  MaxFaults    \* bound: commands of Redis and statements that fail

GatewayAssumption ==
  /\ IsFiniteSet(Requests)
  /\ RateLimit \in Nat /\ MaxRetries \in Nat
  /\ Frames \in Nat \ {0}
  /\ MaxFaults \in Nat

VARIABLES
  registered, \* is the tenant registered
  limited,    \* is there a rate limiter (Redis is configured)
  counter,    \* the key tenant:<id>:llm_calls
  window,     \* history: keys that have come and gone
  request,    \* request[r]: the invocation and its locals
  callLogs,   \* callLogs[r]: entries logged for r
  faults

vars == <<registered, limited, counter, window, request, callLogs, faults>>

Kinds == {"complete", "stream"}
Ended == {"refused", "limited", "rejected", "returned", "failed", "broken",
          "cancelled"}
Points == {"idle", "count", "expire", "check", "call", "backoff", "body",
           "reading"} \cup Ended

NoCounter == [live |-> FALSE, count |-> 0, ttl |-> FALSE]

(* count is the counter's answer, attempts the calls of the API, line the  *)
(* lines of the body read, events the frames handed to the consumer.       *)
(* History: win, the window the request was counted in, and cuts, the      *)
(* lines at which its reads ended.                                         *)
Fresh == [kind |-> "complete", at |-> "idle", count |-> 0, win |-> 0,
          attempts |-> 0, line |-> 0, cuts |-> {}, events |-> {}]

Init ==
  /\ registered \in BOOLEAN
  /\ limited \in BOOLEAN
  /\ counter = NoCounter
  /\ window = 0
  /\ request = [r \in Requests |-> Fresh]
  /\ callLogs = [r \in Requests |-> {}]
  /\ faults = 0

Fault ==
  /\ faults < MaxFaults
  /\ faults' = faults + 1

At(r, kind, point) == request[r].kind = kind /\ request[r].at = point
Goto(r, point) == request' = [request EXCEPT ![r].at = point]

(* registerTenant and unregisterTenant.  A request under way keeps the     *)
(* configuration it has.                                                   *)
SetTenant ==
  /\ registered' = ~registered
  /\ UNCHANGED <<limited, counter, window, request, callLogs, faults>>

(* complete, or stream and the first next of its iterator.                 *)
Start(r, kind) ==
  /\ request[r].at = "idle"
  /\ LET next == IF ~registered THEN "refused" ELSE IF limited THEN "count" ELSE "call"
     IN request' = [request EXCEPT ![r].kind = kind, ![r].at = next]
  /\ UNCHANGED <<registered, limited, counter, window, callLogs, faults>>

-----------------------------------------------------------------------------
(* incrementLLMCallCount: INCR and TTL in one pipeline; a key that came    *)
(* into being has no expiry yet, and setting it is a second round trip.    *)
Count(r) ==
  /\ request[r].at = "count"
  /\ counter' = [counter EXCEPT !.live = TRUE, !.count = @ + 1]
  /\ \/ /\ request' = [request EXCEPT
             ![r].at = IF counter.ttl THEN "check" ELSE "expire",
             ![r].count = counter.count + 1, ![r].win = window]
        /\ UNCHANGED faults
     \/ /\ Fault
        /\ Goto(r, "rejected")
  /\ UNCHANGED <<registered, limited, window, callLogs>>

(* The command is not executed; or Redis is down at expire or check.       *)
RedisFails(r) ==
  /\ request[r].at \in {"count", "expire", "check"}
  /\ Fault
  /\ Goto(r, "rejected")
  /\ UNCHANGED <<registered, limited, counter, window, callLogs>>

SetExpiry(r) ==
  /\ request[r].at = "expire"
  /\ counter' = [counter EXCEPT !.ttl = counter.live]
  /\ Goto(r, "check")
  /\ UNCHANGED <<registered, limited, window, callLogs, faults>>

(* Mutant of Allowed: the limit itself is exceeded.                        *)
AllowedOneMore(r) == request[r].count <= RateLimit + 1

Allowed(r) == request[r].count <= RateLimit

(* checkRateLimit after its second command; a request over the limit is    *)
(* refused without a log.                                                  *)
Check(r) ==
  /\ request[r].at = "check"
  /\ Goto(r, IF Allowed(r) THEN "call" ELSE "limited")
  /\ UNCHANGED <<registered, limited, counter, window, callLogs, faults>>

(* The minute is over; a counter without an expiry stays.                  *)
WindowEnds ==
  /\ counter.live /\ counter.ttl
  /\ counter' = NoCounter
  /\ window' = window + 1
  /\ UNCHANGED <<registered, limited, request, callLogs, faults>>

-----------------------------------------------------------------------------
(* recordCallLog: kept in memory at once, persisted in the background.     *)
Log(r, status) == callLogs' = [callLogs EXCEPT ![r] = @ \cup {status}]

(* isRetryableError: no answer at all, 408, 429 and the server's errors    *)
(* 500, 502, 503, 504; any other status is final.                          *)
Answers == {"ok", "final", "retryable"}

(* Mutant of Retries: one retry too many.                                  *)
RetriesOneMore(r, answer) == answer = "retryable" /\ request[r].attempts <= MaxRetries

Retries(r, answer) == answer = "retryable" /\ request[r].attempts < MaxRetries

(* One attempt of complete; a failure that is not retried is logged and    *)
(* thrown, as it is or as LLM_UNAVAILABLE.                                 *)
CallComplete(r) ==
  /\ At(r, "complete", "call")
  /\ \E answer \in Answers :
       /\ request' = [request EXCEPT
            ![r].attempts = @ + 1,
            ![r].at = IF answer = "ok" THEN "body"
                      ELSE IF Retries(r, answer) THEN "backoff" ELSE "failed"]
       /\ IF answer = "ok" \/ Retries(r, answer)
            THEN UNCHANGED callLogs
            ELSE Log(r, "error")
  /\ UNCHANGED <<registered, limited, counter, window, faults>>

Retry(r) ==
  /\ request[r].at = "backoff"
  /\ Goto(r, "call")
  /\ UNCHANGED <<registered, limited, counter, window, callLogs, faults>>

(* Mutant of Body: the call is logged as a success before its body is read.*)
BodyLoggedFirst(r) ==
  /\ request[r].at = "body"
  /\ \E whole \in BOOLEAN :
       /\ Goto(r, IF whole THEN "returned" ELSE "failed")
       /\ callLogs' = [callLogs EXCEPT
            ![r] = @ \cup {"success"} \cup IF whole THEN {} ELSE {"error"}]
  /\ UNCHANGED <<registered, limited, counter, window, faults>>

(* The body is read and parsed, or that fails: no retry.                   *)
Body(r) ==
  /\ request[r].at = "body"
  /\ \/ Goto(r, "returned") /\ Log(r, "success")
     \/ Goto(r, "failed") /\ Log(r, "error")
  /\ UNCHANGED <<registered, limited, counter, window, faults>>

(* The one attempt of stream; its failure is not logged.                   *)
CallStream(r) ==
  /\ At(r, "stream", "call")
  /\ \E point \in {"reading", "broken"} :
       request' = [request EXCEPT ![r].attempts = @ + 1, ![r].at = point]
  /\ UNCHANGED <<registered, limited, counter, window, callLogs, faults>>

(* readNextEvents forgets the type of an event between reads: only frames  *)
(* with both lines in one read are handed on.                              *)
Parsed(from, to) == {k \in 1..Frames : from < 2*k - 1 /\ 2*k <= to}

Read(r) ==
  /\ request[r].at = "reading"
  /\ \E to \in (request[r].line + 1) .. (2 * Frames) :
       request' = [request EXCEPT
         ![r].line = to, ![r].cuts = @ \cup {to}, ![r].events = @ \cup Parsed(request[r].line, to)]
  /\ UNCHANGED <<registered, limited, counter, window, callLogs, faults>>

(* The body ends: a success is logged.                                     *)
StreamEnds(r) ==
  /\ request[r].at = "reading"
  /\ request[r].line = 2 * Frames
  /\ Goto(r, "returned")
  /\ Log(r, "success")
  /\ UNCHANGED <<registered, limited, counter, window, faults>>

(* The connection breaks and next rejects; or the consumer stops: at       *)
(* message_stop, the last frame, the chat always does.  Neither is logged. *)
StreamStops(r) ==
  /\ request[r].at = "reading"
  /\ \E point \in {"broken", "cancelled"} : Goto(r, point)
  /\ UNCHANGED <<registered, limited, counter, window, callLogs, faults>>

Step(r) ==
  \/ \E kind \in Kinds : Start(r, kind)
  \/ Count(r)
  \/ RedisFails(r)
  \/ SetExpiry(r)
  \/ Check(r)
  \/ CallComplete(r)
  \/ Retry(r)
  \/ Body(r)
  \/ CallStream(r)
  \/ Read(r)
  \/ StreamEnds(r)
  \/ StreamStops(r)

Next ==
  \/ SetTenant
  \/ WindowEnds
  \/ \E r \in Requests : Step(r)

Spec == Init /\ [][Next]_vars

-----------------------------------------------------------------------------
Counters == [live : BOOLEAN, count : Nat, ttl : BOOLEAN]
Locals == [kind : Kinds, at : Points, count : Nat, win : Nat,
           attempts : 0..(MaxRetries + 1), line : 0..(2 * Frames),
           cuts : SUBSET (1..(2 * Frames)), events : SUBSET (1..Frames)]

TypeOK ==
  /\ registered \in BOOLEAN
  /\ limited \in BOOLEAN
  /\ counter \in Counters
  /\ window \in Nat
  /\ request \in [Requests -> Locals]
  /\ callLogs \in [Requests -> SUBSET {"success", "error"}]
  /\ faults \in Nat

Admitted(w) ==
  {r \in Requests : request[r].count > 0 /\ request[r].win = w
                    /\ request[r].at \in {"call", "backoff", "body", "reading",
                                          "returned", "failed", "broken",
                                          "cancelled"}}

(* However the counting of requests, the setting of the expiry and the end *)
(* of the window interleave, no window admits more requests than the       *)
(* tenant's limit.  (Their retries are not counted.)                       *)
AdmittedWithinLimit == \A w \in 0..window : Cardinality(Admitted(w)) <= RateLimit

(* The call log tells how a call ended, whatever ends meanwhile: nothing   *)
(* is logged before that is known; a completion is logged once, as what    *)
(* its caller saw; a stream read to its end is logged as a success and has *)
(* handed on every frame no read cut in two; none that broke is logged as  *)
(* a success.  (What is not logged at all is EveryCallIsLogged.)           *)
LogTellsTheOutcome ==
  \A r \in Requests :
    /\ request[r].at \notin Ended => callLogs[r] = {}
    /\ request[r].at = "failed" => callLogs[r] = {"error"}
    /\ request[r].at = "broken" => "success" \notin callLogs[r]
    /\ request[r].at = "returned" =>
         /\ callLogs[r] = {"success"}
         /\ request[r].kind = "stream" =>
              {k \in 1..Frames : 2*k - 1 \notin request[r].cuts} \subseteq request[r].events

(* Property 2 of m1/design.md: every call is logged, a success or not.     *)
(* stream() logs nothing when its call fails, its body breaks or its       *)
(* consumer stops.                                                         *)
EveryCallIsLogged ==
  \A r \in Requests :
    request[r].attempts > 0 /\ request[r].at \in Ended => callLogs[r] # {}

(* Requirement 1.4 of m1: what the model streams is pushed to the caller.  *)
(* A frame that a read cuts between its lines is dropped.                  *)
EveryFrameIsHandedOn ==
  \A r \in Requests :
    request[r].kind = "stream" /\ request[r].at = "returned" =>
      request[r].events = 1..Frames
=============================================================================
