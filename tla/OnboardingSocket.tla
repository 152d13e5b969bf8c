-------------------------- MODULE OnboardingSocket --------------------------
(***************************************************************************)
(* useOnboardingWs of src/frontend/src/hooks/use-onboarding-ws.ts: the     *)
(* browser's connection for the agent's messages about one onboarding      *)
(* session, with its reconnections.                                        *)
(*                                                                         *)
(* The page (external) shows the hook with a session, or none, and enables *)
(* it or not; React runs the effect's cleanup and then the effect whenever *)
(* these change.  A WebSocket (external) opens, speaks and closes on its   *)
(* own; closed by the hook it has no handlers and is forgotten here.  The  *)
(* length of a delay and the contents of a message are left out.           *)
(***************************************************************************)
EXTENDS Naturals

CONSTANTS
  Sessions, Sockets,
  NoSession,            \* sessionId is null
  MaxReconnectAttempts

HookAssumption == NoSession \notin Sessions /\ MaxReconnectAttempts \in Nat

VARIABLES
  page,        \* what the page shows: mounted (also mountedRef), session, enabled
  socket,      \* socket[w]: its state and session; a socket that is none
               \* has no handlers
  wsRef,       \* the sockets wsRef refers to: one or none
  isConnected,
  attempts,    \* reconnectAttemptsRef
  timer,       \* the sessions of the reconnect timers that run
  heard        \* history: has a message of another session reached the store

vars == <<page, socket, wsRef, isConnected, attempts, timer, heard>>

NoSocket == [state |-> "none", session |-> NoSession]

Init ==
  /\ page = [mounted |-> FALSE, session |-> NoSession, enabled |-> FALSE]
  /\ socket = [w \in Sockets |-> NoSocket]
  /\ wsRef = {}
  /\ isConnected = FALSE
  /\ attempts = 0
  /\ timer = {}
  /\ heard = FALSE

(* cleanup: the timer is cleared, the socket loses its handlers.           *)
Detached == [w \in Sockets |-> IF w \in wsRef THEN NoSocket ELSE socket[w]]

(* Mutant of KeptTimers: cleanup leaves the timer running.                 *)
KeptAll(timers) == timers

KeptTimers(timers) == {}

Cleanup ==
  /\ socket' = Detached
  /\ wsRef' = {}
  /\ isConnected' = FALSE
  /\ timer' = KeptTimers(timer)

(* connect, which begins with cleanup; the timer that has led to it, if    *)
(* one has, runs no more.                                                  *)
Connect(session, timers) ==
  /\ \E w \in Sockets :
       /\ Detached[w] = NoSocket
       /\ socket' = [Detached EXCEPT ![w] = [state |-> "connecting", session |-> session]]
       /\ wsRef' = {w}
  /\ isConnected' = FALSE
  /\ timer' = KeptTimers(timers)

Wanted(shown) == shown.session # NoSession /\ shown.enabled

(* The page changes what it shows, or shows the hook for the first time.   *)
(* The count of attempts is kept.                                          *)
Show(session, enabled) ==
  LET shown == [mounted |-> TRUE, session |-> session, enabled |-> enabled] IN
  /\ page # shown
  /\ page' = shown
  /\ IF Wanted(shown) THEN Connect(session, timer) ELSE Cleanup
  /\ UNCHANGED <<attempts, heard>>

Unmount ==
  /\ page.mounted
  /\ page' = [page EXCEPT !.mounted = FALSE]
  /\ Cleanup
  /\ UNCHANGED <<attempts, heard>>

(* onopen.                                                                 *)
Opens(w) ==
  /\ socket[w].state = "connecting"
  /\ socket' = [socket EXCEPT ![w].state = "open"]
  /\ isConnected' = (isConnected \/ page.mounted)
  /\ attempts' = IF page.mounted THEN 0 ELSE attempts
  /\ UNCHANGED <<page, wsRef, timer, heard>>

(* onmessage, of a message parseWsMessage accepts.                         *)
Speaks(w) ==
  /\ socket[w].state = "open"
  /\ page.mounted
  /\ heard' = (heard \/ socket[w].session # page.session)
  /\ UNCHANGED <<page, socket, wsRef, isConnected, attempts, timer>>

(* onclose, after a failure to connect too; the socket that closes was     *)
(* enabled when it was made.                                               *)
Closes(w) ==
  /\ socket[w].state \in {"connecting", "open"}
  /\ socket' = [socket EXCEPT ![w].state = "closed"]
  /\ isConnected' = (isConnected /\ ~page.mounted)
  /\ IF page.mounted /\ attempts < MaxReconnectAttempts
       THEN /\ attempts' = attempts + 1
            /\ timer' = timer \cup {socket[w].session}
       ELSE UNCHANGED <<attempts, timer>>
  /\ UNCHANGED <<page, wsRef, heard>>

TimerEnds(session) ==
  /\ session \in timer
  /\ IF page.mounted
       THEN Connect(session, timer \ {session})
       ELSE /\ timer' = timer \ {session}
            /\ UNCHANGED <<socket, wsRef, isConnected>>
  /\ UNCHANGED <<page, attempts, heard>>

Next ==
  \/ \E session \in Sessions \cup {NoSession}, enabled \in BOOLEAN : Show(session, enabled)
  \/ Unmount
  \/ \E w \in Sockets : Opens(w) \/ Speaks(w) \/ Closes(w)
  \/ \E session \in timer : TimerEnds(session)

Spec == Init /\ [][Next]_vars

-----------------------------------------------------------------------------
TypeOK ==
  /\ page \in [mounted : BOOLEAN, session : Sessions \cup {NoSession}, enabled : BOOLEAN]
  /\ socket \in [Sockets -> [state : {"none", "connecting", "open", "closed"},
                             session : Sessions \cup {NoSession}]]
  /\ wsRef \subseteq Sockets
  /\ isConnected \in BOOLEAN /\ heard \in BOOLEAN
  /\ attempts \in 0..MaxReconnectAttempts
  /\ timer \subseteq Sessions

(* However the page changes between a close and the reconnection it has    *)
(* planned, the page listens to its own session alone: the one socket that *)
(* has handlers is the one the hook refers to and is of the session shown, *)
(* a timer runs for that session only and beside no live socket, no        *)
(* message of another session reaches the store, and without a live socket *)
(* or a timer all attempts are used up.                                    *)
ListensToItsSession ==
  /\ ~heard
  /\ \A w \in Sockets : socket[w] # NoSocket =>
       wsRef = {w} /\ page.mounted /\ Wanted(page) /\ socket[w].session = page.session
  /\ timer # {} =>
       /\ page.mounted /\ Wanted(page) /\ timer = {page.session}
       /\ \A w \in Sockets : socket[w].state \in {"none", "closed"}
  /\ isConnected <=> \E w \in Sockets : socket[w].state = "open"
  /\ page.mounted /\ Wanted(page) =>
       \/ \E w \in Sockets : socket[w].state \in {"connecting", "open"}
       \/ timer # {}
       \/ attempts = MaxReconnectAttempts
=============================================================================
