---------------------------- MODULE EventStreams ----------------------------
(***************************************************************************)
(* The two managers of server-sent events: SSEManagerImpl of               *)
(* src/backend/realtime/sse-manager.ts for the events of chats, and        *)
(* DashboardSSE of src/backend/dashboard/dashboard-sse.ts for metrics.     *)
(*                                                                         *)
(* Both keep a map of streams, one of idle timers and one of heartbeats,   *)
(* which calls, timers, failing writes and the client's disconnect change  *)
(* in any order.  Every operation is one turn of the event loop.           *)
(***************************************************************************)
EXTENDS Integers

CONSTANTS
  Streams,  \* streams (SSE) or subscriptions (dashboard)
  Managers  \* the managers to explore: a subset of {"sse", "dashboard"}

ManagerAssumption == Managers \subseteq {"sse", "dashboard"} /\ Managers # {}

VARIABLES
  manager,   \* which manager this is
  created,   \* streams created so far
  kept,      \* the map of streams
  idle,      \* idle[s]: no entry in the map ("off"), a timer that is
             \* running ("set"), one that has fired ("fired")
  heartbeat, \* streams whose heartbeat interval runs
  ended,     \* responses that were ended
  unsaid,    \* history: events since the idle timer was set: "none",
             \* "update" (pushEvent, notifyMetricUpdate) or "broadcast"
  orphaned   \* history: streams whose write failed in notifyMetricUpdate

vars == <<manager, created, kept, idle, heartbeat, ended, unsaid, orphaned>>

Init ==
  /\ manager \in Managers
  /\ created = {}
  /\ kept = {}
  /\ idle = [s \in Streams |-> "off"]
  /\ heartbeat = {}
  /\ ended = {}
  /\ unsaid = [s \in Streams |-> "none"]
  /\ orphaned = {}

(* Mutant of Cleanup: the idle timer is forgotten.                         *)
CleanupButIdle(gone) ==
  /\ kept' = kept \ gone
  /\ heartbeat' = heartbeat \ gone
  /\ UNCHANGED idle

(* cleanupStream, and unsubscribe but for the end of the response: the     *)
(* stream and both its timers go.                                          *)
Cleanup(gone) ==
  /\ kept' = kept \ gone
  /\ heartbeat' = heartbeat \ gone
  /\ idle' = [s \in Streams |-> IF s \in gone \cap kept THEN "off" ELSE idle[s]]

(* A write failed: the dashboard ends the response as well.                *)
Drop(s) ==
  /\ Cleanup({s})
  /\ ended' = IF manager = "dashboard" THEN ended \cup {s} ELSE ended

(* createStream, and subscribe, whose greeting may fail.                   *)
Create(s) ==
  /\ s \notin created
  /\ created' = created \cup {s}
  /\ \/ /\ kept' = kept \cup {s}
        /\ heartbeat' = heartbeat \cup {s}
        /\ idle' = [idle EXCEPT ![s] = "set"]
        /\ UNCHANGED ended
     \/ /\ manager = "dashboard"
        /\ ended' = ended \cup {s}
        /\ UNCHANGED <<kept, heartbeat, idle>>
  /\ UNCHANGED <<manager, unsaid, orphaned>>

(* Mutant of Reset: the timer goes on as it was.                           *)
ResetNothing(s, event) ==
  /\ idle' = idle
  /\ unsaid' = [unsaid EXCEPT ![s] = event]

(* resetIdleTimer after an event.                                          *)
Reset(s, event) ==
  /\ idle' = [idle EXCEPT ![s] = "set"]
  /\ unsaid' = [unsaid EXCEPT ![s] = "none"]

(* pushEvent, or a metric update the subscription matches.                 *)
Push(s) ==
  /\ s \in kept
  /\ Reset(s, "update")
  /\ UNCHANGED <<manager, created, kept, heartbeat, ended, orphaned>>

(* The write of a pushEvent fails, or of a broadcast or a heartbeat of     *)
(* either manager.                                                         *)
WriteFails(s) ==
  /\ s \in kept
  /\ Drop(s)
  /\ UNCHANGED <<manager, created, unsaid, orphaned>>

(* notifyMetricUpdate resets the idle timer whether the write succeeded or *)
(* ended the subscription.                                                 *)
NotifyFails(s) ==
  /\ manager = "dashboard"
  /\ s \in kept
  /\ kept' = kept \ {s}
  /\ heartbeat' = heartbeat \ {s}
  /\ ended' = ended \cup {s}
  /\ Reset(s, "update")
  /\ orphaned' = orphaned \cup {s}
  /\ UNCHANGED <<manager, created>>

(* broadcastToTenant of the dashboard leaves the timer alone.              *)
Broadcast(s) ==
  /\ manager = "dashboard"
  /\ s \in kept
  /\ unsaid' = [unsaid EXCEPT ![s] = "broadcast"]
  /\ UNCHANGED <<manager, created, kept, idle, heartbeat, ended, orphaned>>

(* closeStream or unsubscribe.                                             *)
Close(s) ==
  /\ s \in kept
  /\ Cleanup({s})
  /\ ended' = ended \cup {s}
  /\ UNCHANGED <<manager, created, unsaid, orphaned>>

(* The client disconnects: 'close' of the response.                        *)
ClientLeaves(s) ==
  /\ s \in kept
  /\ Drop(s)
  /\ UNCHANGED <<manager, created, unsaid, orphaned>>

(* The idle timer fires: it closes the stream, or finds none and stays in  *)
(* the map.                                                                *)
IdleFires(s) ==
  /\ idle[s] = "set"
  /\ IF s \in kept
       THEN /\ Cleanup({s})
            /\ ended' = ended \cup {s}
       ELSE /\ idle' = [idle EXCEPT ![s] = "fired"]
            /\ UNCHANGED <<kept, heartbeat, ended>>
  /\ UNCHANGED <<manager, created, unsaid, orphaned>>

Shutdown ==
  /\ kept # {}
  /\ Cleanup(kept)
  /\ ended' = ended \cup kept
  /\ UNCHANGED <<manager, created, unsaid, orphaned>>

Next ==
  \/ Shutdown
  \/ \E s \in Streams : \/ Create(s)
                        \/ Push(s)
                        \/ WriteFails(s)
                        \/ NotifyFails(s)
                        \/ Broadcast(s)
                        \/ Close(s)
                        \/ ClientLeaves(s)
                        \/ IdleFires(s)

Spec == Init /\ [][Next]_vars

-----------------------------------------------------------------------------
TypeOK ==
  /\ manager \in Managers
  /\ created \subseteq Streams
  /\ kept \subseteq created
  /\ idle \in [Streams -> {"off", "set", "fired"}]
  /\ heartbeat \subseteq Streams
  /\ ended \subseteq created
  /\ unsaid \in [Streams -> {"none", "update", "broadcast"}]
  /\ orphaned \subseteq Streams

(* A stream that is kept has its two timers running, so that it is closed  *)
(* in the end; one that is gone has none, and nothing is left of it in the *)
(* maps, but for the idle timer that notifyMetricUpdate sets again for a   *)
(* subscription its failed write has just removed.  And the timer counts   *)
(* from the last event, but for broadcasts.                                *)
TimersHaveStreams ==
  /\ heartbeat = kept
  /\ kept \cap ended = {}
  /\ \A s \in Streams :
       /\ s \in kept => idle[s] = "set" /\ unsaid[s] # "update"
       /\ s \notin kept => idle[s] = "off" \/ s \in orphaned
=============================================================================
