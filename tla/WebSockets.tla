----------------------------- MODULE WebSockets -----------------------------
(***************************************************************************)
(* WebSocketManagerImpl of src/backend/realtime/websocket-manager.ts: the  *)
(* connections of users, the grace period after a disconnect, and the      *)
(* connection set of each user in Redis.                                   *)
(*                                                                         *)
(* Sockets close and fail at any time; "error" is followed by "close", and *)
(* both start a grace timer.  The map pendingDisconnects knows the last    *)
(* timer of a connection only.  Calls of Redis are not awaited and go over *)
(* one connection: they take effect in their order, or fail.               *)
(***************************************************************************)
EXTENDS Integers, FiniteSets

CONSTANTS
  Sockets,   \* connections
  Users

SocketAssumption == IsFiniteSet(Sockets)

VARIABLES
  socket,      \* socket[c]: what the network knows: new, open, failed, closed
  user,        \* user[c]: whose connection it is
  connections, \* connections kept, of whatever user (connections and
               \* connectionToUser change together)
  timers,      \* timers[c]: grace timers running for c
  pending,     \* pendingDisconnects: does the map hold a timer for c
  tracked,     \* the users' connection sets in Redis
  down,        \* has shutdown been called
  revived,     \* history: connections whose timer a reconnection cancelled
  lost         \* history: connections whose removal from Redis failed

vars == <<socket, user, connections, timers, pending, tracked, down, revived, lost>>

Init ==
  /\ socket = [c \in Sockets |-> "new"]
  /\ user \in [Sockets -> Users]
  /\ connections = {}
  /\ timers = [c \in Sockets |-> 0]
  /\ pending = {}
  /\ tracked = {}
  /\ down = FALSE
  /\ revived = {}
  /\ lost = {}

(* cancelPendingDisconnectsForUser: the timers the map knows, of           *)
(* connections that are still kept.                                        *)
Cancelled(c) == {d \in pending \cap connections : user[d] = user[c]}

(* handleConnection.  The manager accepts connections after shutdown too.  *)
Connect(c) ==
  /\ socket[c] = "new"
  /\ socket' = [socket EXCEPT ![c] = "open"]
  /\ timers' = [d \in Sockets |-> timers[d] - IF d \in Cancelled(c) THEN 1 ELSE 0]
  /\ pending' = pending \ Cancelled(c)
  /\ revived' = revived \cup Cancelled(c)
  /\ connections' = connections \cup {c}
  /\ tracked' \in {tracked, tracked \cup {c}}
  /\ UNCHANGED <<user, down, lost>>

(* handleDisconnect: nothing for a connection that is not kept.            *)
Disconnected(c) ==
  IF c \in connections
    THEN /\ timers' = [timers EXCEPT ![c] = @ + 1]
         /\ pending' = pending \cup {c}
    ELSE UNCHANGED <<timers, pending>>

SocketFails(c) ==
  /\ socket[c] = "open"
  /\ socket' = [socket EXCEPT ![c] = "failed"]
  /\ Disconnected(c)
  /\ UNCHANGED <<user, connections, tracked, down, revived, lost>>

SocketCloses(c) ==
  /\ socket[c] \in {"open", "failed"}
  /\ socket' = [socket EXCEPT ![c] = "closed"]
  /\ Disconnected(c)
  /\ UNCHANGED <<user, connections, tracked, down, revived, lost>>

(* Mutant of Finalized: the user's other connections go too.               *)
FinalizedUser(c) == {d \in connections : user[d] = user[c]}

Finalized(c) == {c}

(* A grace timer fires: finalizeDisconnect, whatever the map says, and the *)
(* map forgets the connection.                                             *)
GraceEnds(c) ==
  /\ timers[c] > 0
  /\ timers' = [timers EXCEPT ![c] = @ - 1]
  /\ pending' = pending \ {c}
  /\ connections' = connections \ Finalized(c)
  /\ \/ tracked' = tracked \ {c} /\ UNCHANGED lost
     \/ lost' = lost \cup {c} /\ UNCHANGED tracked
  /\ UNCHANGED <<socket, user, down, revived>>

(* shutdown: the timers the map knows are cleared, every socket is told to *)
(* close and forgotten; Redis is not told.                                 *)
Shutdown ==
  /\ ~down
  /\ down' = TRUE
  /\ timers' = [c \in Sockets |-> timers[c] - IF c \in pending THEN 1 ELSE 0]
  /\ pending' = {}
  /\ connections' = {}
  /\ UNCHANGED <<socket, user, tracked, revived, lost>>

Next ==
  \/ \E c \in Sockets : \/ Connect(c)
                        \/ SocketFails(c)
                        \/ SocketCloses(c)
                        \/ GraceEnds(c)
  \/ Shutdown

Spec == Init /\ [][Next]_vars

-----------------------------------------------------------------------------
(* At most two timers run for a connection, one for each of its events,    *)
(* and the map's is one of them.                                           *)
TypeOK ==
  /\ socket \in [Sockets -> {"new", "open", "failed", "closed"}]
  /\ user \in [Sockets -> Users]
  /\ connections \subseteq Sockets
  /\ timers \in [Sockets -> 0..2]
  /\ pending \subseteq {c \in Sockets : timers[c] > 0}
  /\ tracked \subseteq Sockets
  /\ down \in BOOLEAN
  /\ revived \subseteq Sockets
  /\ lost \subseteq Sockets

(* What is kept is what is connected, whatever the order of errors,        *)
(* closes, reconnections and timers: an open connection is kept until      *)
(* shutdown; nothing but a reconnection of its user keeps a dead one from  *)
(* leaving (that one does is DeadConnectionsLeave); and Redis lists a      *)
(* connection that is gone only if its removal failed or the manager was   *)
(* shut down.                                                              *)
KeepsTheLiving ==
  \A c \in Sockets :
    /\ socket[c] = "open" /\ ~down => c \in connections
    /\ c \in connections /\ socket[c] \in {"failed", "closed"} =>
         timers[c] > 0 \/ c \in revived
    /\ c \in tracked \ connections => c \in lost \/ down

(* websocket-manager.test.ts:128: a connection that closed is cleaned up   *)
(* after its grace period although its user has connected again.  The      *)
(* reconnection cancels its timer and nothing starts another: it is kept   *)
(* for good.                                                               *)
DeadConnectionsLeave ==
  \A c \in connections : socket[c] \in {"failed", "closed"} => timers[c] > 0
=============================================================================
