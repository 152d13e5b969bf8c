-------------------------- MODULE BrokerConnection --------------------------
(***************************************************************************)
(* The connection lifecycle of MessageBrokerService                        *)
(* (infrastructure/messaging/message-broker.ts): initialize, the reconnect *)
(* timer and its callback, the close listeners, and shutdown.              *)
(*                                                                         *)
(* Everything runs on one event loop, but connect() and the set-up of      *)
(* exchanges and queues await the broker five times, so several reconnect  *)
(* callbacks, a shutdown, and the death of old and new connections         *)
(* interleave.  All of them read and write the two fields this.connection  *)
(* and this.channel.  A connection has one channel and is named by its     *)
(* place in conns; 0 is null.                                              *)
(***************************************************************************)
EXTENDS Integers, Sequences, FiniteSets

CONSTANTS
  MaxAttempts,  \* config.maxReconnectAttempts; 0 = unlimited
  MaxFaults,    \* bound on failures of the network and the broker
  MaxConns      \* bound on connections made: reconnects that race can undo
                \* one another without any further failure

ASSUME BrokerConnectionAssumption ==
  MaxAttempts \in Nat /\ MaxFaults \in Nat /\ MaxConns \in Nat

VARIABLES
  conns,       \* every connection made so far: its state and its listeners
  connection,  \* this.connection
  channel,     \* this.channel
  attempts,    \* this.reconnectAttempts
  latest,      \* is the timer this.reconnectTimer refers to still pending?
  older,       \* number of pending timers the field no longer refers to
  tasks,       \* calls of initialize and of the timer callback under way
  stopping,    \* shutdown: "no", or how far it has come
  target,      \* what shutdown is closing
  started,     \* initialize has been called
  faults,      \* failures so far
  ready,       \* history: a set-up of exchanges and queues has completed
  gaveUp,      \* history: scheduleReconnect has refused an attempt
  cleanStop    \* history: shutdown found no timer, no task and no stray
               \* connection

vars == <<conns, connection, channel, attempts, latest, older, tasks,
          stopping, target, started, faults, ready, gaveUp, cleanStop>>

Ids == 1..Len(conns)

\* listeners: how many 'close' listeners connect() has put on the connection
\* and on its channel.
Conn == [state : {"open", "closed"}, chan : {"none", "open", "closed"},
         listeners : Nat, chanListeners : Nat]

\* The await a task is at, and the connection it awaits an answer on.
Steps == {"dial", "channel", "prefetch", "exchanges", "queues"}
Task == [id : Nat, kind : {"initialize", "reconnect"}, at : Steps, on : Nat]

TypeOK ==
  /\ conns \in Seq(Conn)
  /\ connection \in Ids \cup {0}
  /\ channel \in Ids \cup {0}
  /\ attempts \in (IF MaxAttempts = 0 THEN Nat ELSE 0..MaxAttempts)
  /\ latest \in BOOLEAN
  /\ older \in Nat
  /\ tasks \subseteq Task
  /\ \A t \in tasks : t.on \in Ids \cup {0} /\ (t.on = 0 <=> t.at = "dial")
  /\ stopping \in {"no", "channel", "connection", "done"}
  /\ target \in Ids \cup {0}
  /\ started \in BOOLEAN
  /\ faults \in 0..MaxFaults
  /\ ready \in BOOLEAN
  /\ gaveUp \in BOOLEAN
  /\ cleanStop \in BOOLEAN

Init ==
  /\ conns = <<>>
  /\ connection = 0
  /\ channel = 0
  /\ attempts = 0
  /\ latest = FALSE
  /\ older = 0
  /\ tasks = {}
  /\ stopping = "no"
  /\ target = 0
  /\ started = FALSE
  /\ faults = 0
  /\ ready = FALSE
  /\ gaveUp = FALSE
  /\ cleanStop = FALSE

isShuttingDown == stopping # "no"

ConnOpen(i) == conns[i].state = "open"
ChanOpen(i) == ConnOpen(i) /\ conns[i].chan = "open"

(***************************************************************************)
(* An await on a connection or channel that has closed is rejected, and    *)
(* its continuation runs before the event loop takes anything else up.     *)
(***************************************************************************)
Doomed(t) == /\ t.at # "dial"
             /\ IF t.at = "channel" THEN ~ConnOpen(t.on) ELSE ~ChanOpen(t.on)

Idle == \A t \in tasks : ~Doomed(t)

Fault == /\ faults < MaxFaults
         /\ faults' = faults + 1

(***************************************************************************)
(* scheduleReconnect(), called n times in a row.  A new timer takes the    *)
(* place of the old one in the field without cancelling it.                *)
(***************************************************************************)
ScheduleUpTo(limit, n) ==
  LET granted == IF MaxAttempts = 0 \/ attempts + n <= limit THEN n
                 ELSE IF attempts < limit THEN limit - attempts
                 ELSE 0
  IN  /\ attempts' = attempts + granted
      /\ latest' = (latest \/ granted > 0)
      /\ older' = older + granted
                  - (IF granted > 0 /\ ~latest THEN 1 ELSE 0)
      /\ gaveUp' = (gaveUp \/ granted < n)

\* Mutant: the limit is compared with > for >=.
ScheduleOneMore(n) == ScheduleUpTo(MaxAttempts + 1, n)

Schedule(n) == ScheduleUpTo(MaxAttempts, n)

KeepTimers == UNCHANGED <<attempts, latest, older, gaveUp>>

FreeId == CHOOSE n \in 0..Cardinality(tasks) : \A t \in tasks : t.id # n

Begin(kind) ==
  tasks' = tasks \cup {[id |-> FreeId, kind |-> kind, at |-> "dial", on |-> 0]}

Move(t, at, on) ==
  tasks' = (tasks \ {t}) \cup {[t EXCEPT !.at = at, !.on = on]}

\* Mutant: the timer callback only logs its failure.
FailSilently(t) ==
  /\ tasks' = tasks \ {t}
  /\ KeepTimers

(***************************************************************************)
(* The task rejects: the timer callback schedules another attempt, whether *)
(* or not shutdown() has been called; initialize throws to its caller.     *)
(***************************************************************************)
Fail(t) ==
  /\ tasks' = tasks \ {t}
  /\ IF t.kind = "reconnect" THEN Schedule(1) ELSE KeepTimers

-----------------------------------------------------------------------------
Initialize ==
  /\ ~started
  /\ ~isShuttingDown
  /\ started' = TRUE
  /\ Begin("initialize")
  /\ KeepTimers
  /\ UNCHANGED <<conns, connection, channel, stopping, target, faults, ready,
                 cleanStop>>

\* The timer callback drops the references to the old connection and channel.
TimerFires ==
  /\ Idle
  /\ \/ latest /\ latest' = FALSE /\ older' = older
     \/ older > 0 /\ older' = older - 1 /\ latest' = latest
  /\ connection' = 0
  /\ channel' = 0
  /\ Begin("reconnect")
  /\ UNCHANGED <<conns, attempts, gaveUp, stopping, target, started, faults,
                 ready, cleanStop>>

\* connect(): amqplib.connect resolves and createChannel is called on it.
Dial(t) ==
  /\ Idle
  /\ t.at = "dial"
  /\ Len(conns) < MaxConns
  /\ conns' = Append(conns, [state |-> "open", chan |-> "none",
                             listeners |-> 0, chanListeners |-> 0])
  /\ connection' = Len(conns) + 1
  /\ Move(t, "channel", Len(conns) + 1)
  /\ KeepTimers
  /\ UNCHANGED <<channel, stopping, target, started, faults, ready,
                 cleanStop>>

DialFails(t) ==
  /\ Idle
  /\ Fault
  /\ t.at = "dial"
  /\ Fail(t)
  /\ UNCHANGED <<conns, connection, channel, stopping, target, started,
                 ready, cleanStop>>

CreateChannel(t) ==
  /\ Idle
  /\ t.at = "channel"
  /\ conns' = [conns EXCEPT ![t.on].chan = "open"]
  /\ channel' = t.on
  /\ Move(t, "prefetch", t.on)
  /\ KeepTimers
  /\ UNCHANGED <<connection, stopping, target, started, faults, ready,
                 cleanStop>>

(***************************************************************************)
(* prefetch resolves: the listeners go on whatever this.connection and     *)
(* this.channel refer to by now; on null the registration throws, which    *)
(* counts as the first failure after the reset of the attempts.            *)
(***************************************************************************)
Broken == connection = 0 \/ channel = 0

Register(t) ==
  /\ Idle
  /\ t.at = "prefetch"
  /\ LET heard == [i \in Ids |->
           [conns[i] EXCEPT
              !.listeners = @ + (IF i = connection THEN 1 ELSE 0),
              !.chanListeners =
                 @ + (IF i = channel /\ connection # 0 THEN 1 ELSE 0)]]
     IN conns' = heard
  /\ attempts' = IF Broken /\ t.kind = "reconnect" THEN 1 ELSE 0
  /\ IF Broken
     THEN tasks' = tasks \ {t}
     ELSE Move(t, "exchanges", channel)
  /\ IF Broken /\ t.kind = "reconnect"
     THEN latest' = TRUE /\ older' = older + (IF latest THEN 1 ELSE 0)
     ELSE UNCHANGED <<latest, older>>
  /\ UNCHANGED <<connection, channel, gaveUp, stopping, target, started,
                 faults, ready, cleanStop>>

\* setupExchanges resolves; setupQueues asks for the channel again.
SetupExchanges(t) ==
  /\ Idle
  /\ t.at = "exchanges"
  /\ IF channel = 0
     THEN Fail(t)
     ELSE Move(t, "queues", channel) /\ KeepTimers
  /\ UNCHANGED <<conns, connection, channel, stopping, target, started,
                 faults, ready, cleanStop>>

SetupQueues(t) ==
  /\ Idle
  /\ t.at = "queues"
  /\ tasks' = tasks \ {t}
  /\ ready' = TRUE
  /\ KeepTimers
  /\ UNCHANGED <<conns, connection, channel, stopping, target, started,
                 faults, cleanStop>>

AwaitRejected(t) ==
  /\ Doomed(t)
  /\ Fail(t)
  /\ UNCHANGED <<conns, connection, channel, stopping, target, started,
                 faults, ready, cleanStop>>

\* Mutant: the channel's close listener only logs.
HearNothing(i) == channel' = channel

(***************************************************************************)
(* The 'close' events.  When a connection dies its channel's listeners run *)
(* first, then its own, once per registration.                             *)
(***************************************************************************)
Hear(i) == IF conns[i].chan = "open" /\ conns[i].chanListeners > 0
              /\ ~isShuttingDown
           THEN channel' = 0 ELSE channel' = channel

\* Mutant: the connection's close listener only logs.
ConnectionDiesUnheard(i) ==
  /\ Idle
  /\ Fault
  /\ ConnOpen(i)
  /\ conns' = [conns EXCEPT ![i].state = "closed", ![i].chan = "closed"]
  /\ Hear(i)
  /\ KeepTimers
  /\ UNCHANGED <<connection, tasks, stopping, target, started, ready,
                 cleanStop>>


ConnectionDies(i) ==
  /\ Idle
  /\ Fault
  /\ ConnOpen(i)
  /\ conns' = [conns EXCEPT ![i].state = "closed", ![i].chan = "closed"]
  /\ Hear(i)
  /\ IF isShuttingDown THEN KeepTimers ELSE Schedule(conns[i].listeners)
  /\ UNCHANGED <<connection, tasks, stopping, target, started, ready,
                 cleanStop>>

\* The broker closes the channel alone: a protocol error, such as a queue
\* redeclared differently, or an exchange or queue that does not exist.
ChannelDies(i) ==
  /\ Idle
  /\ Fault
  /\ ChanOpen(i)
  /\ conns' = [conns EXCEPT ![i].chan = "closed"]
  /\ Hear(i)
  /\ KeepTimers
  /\ UNCHANGED <<connection, tasks, stopping, target, started, ready,
                 cleanStop>>

(***************************************************************************)
(* shutdown(): stop the timer the field knows, close the channel, then the *)
(* connection, swallowing errors.                                          *)
(***************************************************************************)
Strays == {i \in Ids : ConnOpen(i) /\ i # connection}

\* close() on what is already closed throws at once.
StopAt(chan, conn) ==
  IF chan # 0 THEN stopping' = "channel" /\ target' = chan
  ELSE IF conn # 0 THEN stopping' = "connection" /\ target' = conn
  ELSE stopping' = "done" /\ target' = 0

IfChan(i) == IF i # 0 /\ ChanOpen(i) THEN i ELSE 0
IfConn(i) == IF i # 0 /\ ConnOpen(i) THEN i ELSE 0

ShutdownWith(pending) ==
  /\ Idle
  /\ ~isShuttingDown
  /\ latest' = pending
  /\ StopAt(IfChan(channel), IfConn(connection))
  /\ cleanStop' = (tasks = {} /\ older = 0 /\ Strays = {})
  /\ UNCHANGED <<conns, connection, channel, attempts, older, gaveUp, tasks,
                 started, faults, ready>>

\* Mutant: the reconnect timer is not cleared.
ShutdownKeepsTimer == ShutdownWith(latest)

Shutdown == ShutdownWith(FALSE)

\* The channel is closed, or died first and close() has been rejected.
CloseChannel ==
  /\ Idle
  /\ stopping = "channel"
  /\ conns' = [conns EXCEPT ![target].chan = "closed"]
  /\ channel' = IF ChanOpen(target) THEN 0 ELSE channel
  /\ StopAt(0, IfConn(connection))
  /\ KeepTimers
  /\ UNCHANGED <<connection, tasks, started, faults, ready, cleanStop>>

CloseConnection ==
  /\ Idle
  /\ stopping = "connection"
  /\ conns' = [conns EXCEPT ![target].state = "closed",
                            ![target].chan = "closed"]
  /\ connection' = IF ConnOpen(target) THEN 0 ELSE connection
  /\ StopAt(0, 0)
  /\ KeepTimers
  /\ UNCHANGED <<channel, tasks, started, faults, ready, cleanStop>>

-----------------------------------------------------------------------------
TaskStep(t) == \/ Dial(t)
               \/ DialFails(t)
               \/ CreateChannel(t)
               \/ Register(t)
               \/ SetupExchanges(t)
               \/ SetupQueues(t)
               \/ AwaitRejected(t)

Next == \/ Initialize
        \/ TimerFires
        \/ \E t \in tasks : TaskStep(t)
        \/ \E i \in Ids : ConnectionDies(i) \/ ChannelDies(i)
        \/ Shutdown
        \/ CloseChannel
        \/ CloseConnection

Spec == Init /\ [][Next]_vars

(***************************************************************************)
(* Fairness: the event loop runs the continuations and timers it has, the  *)
(* broker answers or the connection fails, and failures are finitely many. *)
(***************************************************************************)
FairSpec == /\ Spec
            /\ WF_vars(\E t \in tasks : TaskStep(t))
            /\ WF_vars(TimerFires)
            /\ WF_vars(CloseChannel)
            /\ WF_vars(CloseConnection)

-----------------------------------------------------------------------------
(***************************************************************************)
(* Properties.                                                             *)
(***************************************************************************)
Attended == {i \in Ids : ConnOpen(i) /\ conns[i].listeners > 0}
Recovering == latest \/ older > 0 \/ \E t \in tasks : t.kind = "reconnect"
Up == channel # 0 /\ ChanOpen(channel)

(***************************************************************************)
(* "Connection management with auto-reconnect": once set up, the           *)
(* service is never without a connection whose death it would notice,      *)
(* unless it is reconnecting, has run out of attempts, or is shutting down.*)
(***************************************************************************)
OutageIsNoticed ==
  (ready /\ Attended = {} /\ ~isShuttingDown) => Recovering \/ gaveUp

(***************************************************************************)
(* A dead channel does not stay in this.channel, where publish and send    *)
(* would take it for a live one, once its close event has been heard, but  *)
(* for the time a reconnect takes.  Whether another channel then takes its *)
(* place is not said here: after the death of a channel alone, none does   *)
(* (Reconnects).                                                           *)
(***************************************************************************)
DeadChannelIsDropped ==
  (Idle /\ ready /\ channel # 0 /\ ~ChanOpen(channel) /\ ~isShuttingDown)
     => Recovering \/ gaveUp

(***************************************************************************)
(* A shutdown that finds no reconnect scheduled or under way and no stray  *)
(* connection leaves nothing open, pending or running.                     *)
(***************************************************************************)
CleanShutdown ==
  (cleanStop /\ stopping = "done")
     => /\ \A i \in Ids : ~ConnOpen(i)
        /\ ~Recovering
        /\ tasks = {}

(***************************************************************************)
(* Once the failures end, the service has a channel for good, unless it    *)
(* was shut down, ran out of attempts, or lost a channel alone (with the   *)
(* connection alive nothing ever opens another one).                       *)
(***************************************************************************)
Deaf == channel = 0 /\ Attended # {}

ReconnectsUnlessDeaf ==
  ready ~> [](Up \/ isShuttingDown \/ gaveUp \/ Deaf \/ Len(conns) = MaxConns)

\* The header's "auto-reconnect", without that exception.
Reconnects == ready ~> [](Up \/ isShuttingDown \/ gaveUp)

\* "Gracefully shut down the broker connection": afterwards, once nothing is
\* running any more, no connection is open.
ShutdownDisconnects ==
  (ready /\ stopping = "done" /\ tasks = {}) => \A i \in Ids : ~ConnOpen(i)
=============================================================================
