----------------------- MODULE BrokerConnection_proofs -----------------------
(***************************************************************************)
(* Proofs about BrokerConnection, for any limit of attempts and any number *)
(* of faults and of connections.                                           *)
(***************************************************************************)
EXTENDS BrokerConnection, FiniteSetTheorems, SequenceTheorems, TLAPS

(***************************************************************************)
(* The inductive invariant.  Nothing is scheduled, and only initialize is  *)
(* under way, until a connection has a listener; listeners are never taken *)
(* off, so from then on somebody has heard of a connection.                *)
(***************************************************************************)
Heard == \E i \in Ids : conns[i].listeners > 0

Early(t) ==
  /\ t.kind = "initialize"
  /\ t.at \in {"dial", "channel", "prefetch"}
  /\ ~isShuttingDown =>
       /\ t.at # "dial" => connection = t.on
       /\ t.at = "prefetch" => channel = t.on

Beginnings ==
  /\ ~started => tasks = {}
  /\ Heard => started
  /\ ready => Heard
  /\ IF Heard
     THEN \A t \in tasks : t.kind = "initialize" => t.at \in {"exchanges", "queues"}
     ELSE /\ ~latest /\ older = 0
          /\ \A i \in Ids : conns[i].chanListeners = 0
          /\ \A t \in tasks : Early(t) /\ \A u \in tasks : u = t

(***************************************************************************)
(* What keeps the service from staying without a connection: a timer, the  *)
(* listeners of the connection it refers to, or a callback that has yet to *)
(* register them.  A timer that fires nulls both fields, so whatever they  *)
(* refer to later has been put there by a callback that came after it.     *)
(***************************************************************************)
Timer == latest \/ older > 0

Pursued(points, i) ==
  \E t \in tasks : t.kind = "reconnect" /\ t.at \in points /\ t.on = i

ConnectionGuarded ==
  \/ Timer
  \/ connection = 0 /\ Pursued({"dial"}, 0)
  \/ connection \in Attended
  \/ connection # 0 /\ Pursued({"channel", "prefetch"}, connection)

ChannelGuarded ==
  \/ Timer
  \/ channel = 0
  \/ ChanOpen(channel) /\ conns[channel].chanListeners > 0
  \/ Pursued({"prefetch"}, channel)

Guarded ==
  Heard /\ ~isShuttingDown /\ ~gaveUp => ConnectionGuarded /\ ChannelGuarded

(***************************************************************************)
(* A shutdown that began with nothing under way is left with the           *)
(* connection it is closing.                                               *)
(***************************************************************************)
Closing ==
  /\ stopping \in {"channel", "connection"} => target \in Ids
  /\ cleanStop =>
       /\ isShuttingDown
       /\ tasks = {} /\ ~latest /\ older = 0
       /\ \A i \in Ids : ConnOpen(i) =>
            \/ stopping = "channel" /\ connection = i
            \/ stopping = "connection" /\ target = i

IInv == TypeOK /\ IsFiniteSet(tasks) /\ Beginnings /\ Guarded /\ Closing

LEMMA InitIInv == Init => IInv
  <1> USE DEF Init, Ids
  <1>1. Init => TypeOK
    <2>1. <<>> \in Seq(Conn) /\ 0 \in (IF MaxAttempts = 0 THEN Nat ELSE 0..MaxAttempts)
      BY BrokerConnectionAssumption, EmptySeq
    <2>2. 0 \in 0..MaxFaults /\ 0 \in Nat
      BY BrokerConnectionAssumption
    <2> QED BY <2>1, <2>2, Zenon DEF TypeOK
  <1>2. Init => IsFiniteSet(tasks)
    BY FS_EmptySet
  <1>3. Init => Beginnings /\ Guarded /\ Closing
    BY DEF Beginnings, Guarded, Closing, Heard, ConnOpen
  <1> QED BY <1>1, <1>2, <1>3 DEF IInv

-----------------------------------------------------------------------------
(***************************************************************************)
(* What the helpers of the actions do.                                     *)
(***************************************************************************)

\* A task that begins gets a number no other has.
LEMMA FreeIdIsFree ==
  ASSUME IsFiniteSet(tasks)
  PROVE  FreeId \in Nat
  <1> DEFINE Numbers == 0..Cardinality(tasks)
             Holder == [n \in Numbers |-> CHOOSE t \in tasks : t.id = n]
  <1>1. Cardinality(tasks) \in Nat
    BY FS_CardinalityType
  <1>2. IsFiniteSet(Numbers) /\ Cardinality(tasks) < Cardinality(Numbers)
    BY <1>1, FS_Interval
  <1>3. \E n \in Numbers : \A t \in tasks : t.id # n
    <2> SUFFICES ASSUME \A n \in Numbers : \E t \in tasks : t.id = n
                 PROVE  FALSE
      OBVIOUS
    <2>1. \A n \in Numbers : Holder[n] \in tasks /\ Holder[n].id = n
      OBVIOUS
    <2>2. Holder \in [Numbers -> tasks]
      BY <2>1
    <2>3. \E m, n \in Numbers : m # n /\ Holder[m] = Holder[n]
      <3> HIDE DEF Numbers, Holder
      <3> QED BY <1>2, <2>2, FS_PigeonHole
    <2> QED BY <2>1, <2>3
  <1> QED BY <1>1, <1>3 DEF FreeId

TasksTyped ==
  /\ tasks \subseteq Task
  /\ \A t \in tasks : t.on \in Ids \cup {0} /\ (t.on = 0 <=> t.at = "dial")
  /\ IsFiniteSet(tasks)

LEMMA TaskBegins ==
  ASSUME TasksTyped, NEW kind \in {"initialize", "reconnect"}, Begin(kind)
  PROVE  \E t \in Task :
           /\ tasks' = tasks \cup {t} /\ IsFiniteSet(tasks')
           /\ t.kind = kind /\ t.at = "dial" /\ t.on = 0
  <1>1. [id |-> FreeId, kind |-> kind, at |-> "dial", on |-> 0] \in Task
    BY FreeIdIsFree DEF TasksTyped, Task, Steps
  <1> QED BY <1>1, FS_AddElement DEF Begin, TasksTyped

LEMMA TaskMoves ==
  ASSUME TasksTyped, NEW t \in tasks, NEW at \in Steps, NEW on \in Nat, Move(t, at, on)
  PROVE  \E u \in Task :
           /\ tasks' = (tasks \ {t}) \cup {u} /\ IsFiniteSet(tasks')
           /\ u.kind = t.kind /\ u.at = at /\ u.on = on
  <1>1. [t EXCEPT !.at = at, !.on = on] \in Task
    BY DEF TasksTyped, Task
  <1> QED BY <1>1, FS_AddElement, FS_RemoveElement DEF Move, TasksTyped, Task

TimersTyped ==
  /\ attempts \in (IF MaxAttempts = 0 THEN Nat ELSE 0..MaxAttempts)
  /\ latest \in BOOLEAN /\ older \in Nat /\ gaveUp \in BOOLEAN

\* scheduleReconnect adds a timer or gives up, and takes none away.
LEMMA Scheduled ==
  ASSUME TimersTyped, NEW n \in Nat, Schedule(n)
  PROVE  /\ TimersTyped'
         /\ Timer \/ gaveUp \/ n > 0 => Timer' \/ gaveUp'
         /\ gaveUp => gaveUp'
         /\ n = 0 => latest' = latest /\ older' = older
  <1>1. PICK granted \in 0..n :
          /\ attempts' = attempts + granted
          /\ attempts' \in (IF MaxAttempts = 0 THEN Nat ELSE 0..MaxAttempts)
          /\ latest' = (latest \/ granted > 0)
          /\ older' = older + granted - (IF granted > 0 /\ ~latest THEN 1 ELSE 0)
          /\ gaveUp' = (gaveUp \/ granted < n)
    <2> DEFINE g == IF MaxAttempts = 0 \/ attempts + n <= MaxAttempts THEN n
                    ELSE IF attempts < MaxAttempts THEN MaxAttempts - attempts ELSE 0
    <2>1. /\ attempts' = attempts + g
          /\ latest' = (latest \/ g > 0)
          /\ older' = older + g - (IF g > 0 /\ ~latest THEN 1 ELSE 0)
          /\ gaveUp' = (gaveUp \/ g < n)
      BY DEF Schedule, ScheduleUpTo
    <2>2. /\ g \in 0..n
          /\ attempts + g \in (IF MaxAttempts = 0 THEN Nat ELSE 0..MaxAttempts)
      BY BrokerConnectionAssumption DEF TimersTyped
    <2> QED BY <2>1, <2>2
  <1>2. CASE granted = 0
    <2>1. /\ older' = older
          /\ latest' = (latest \/ FALSE) /\ gaveUp' = (gaveUp \/ 0 < n)
      BY <1>1, <1>2 DEF TimersTyped
    <2>2. latest' \in BOOLEAN /\ gaveUp' \in BOOLEAN
      BY <1>1
    <2>3. latest' = latest
      BY <2>1, Zenon DEF TimersTyped
    <2> QED BY <1>1, <2>1, <2>2, <2>3 DEF TimersTyped, Timer
  <1>3. CASE granted > 0
    <2>1. older' \in Nat /\ n # 0
      BY <1>1, <1>3 DEF TimersTyped
    <2>2. latest' /\ latest' \in BOOLEAN /\ gaveUp' \in BOOLEAN
      BY <1>1, <1>3
    <2> QED BY <1>1, <2>1, <2>2 DEF TimersTyped, Timer
  <1> QED BY <1>1, <1>2, <1>3

LEMMA TaskFails ==
  ASSUME TasksTyped, TimersTyped, NEW t \in tasks, Fail(t)
  PROVE  /\ tasks' = tasks \ {t} /\ IsFiniteSet(tasks')
         /\ TimersTyped'
         /\ Timer \/ gaveUp \/ t.kind = "reconnect" => Timer' \/ gaveUp'
         /\ gaveUp => gaveUp'
         /\ t.kind # "reconnect" => latest' = latest /\ older' = older
  <1>1. tasks' = tasks \ {t} /\ IsFiniteSet(tasks')
    BY FS_RemoveElement DEF Fail, TasksTyped
  <1>2. CASE t.kind = "reconnect"
    BY <1>1, <1>2, Scheduled DEF Fail
  <1>3. CASE t.kind # "reconnect"
    BY <1>1, <1>3 DEF Fail, KeepTimers, TimersTyped, Timer
  <1> QED BY <1>2, <1>3

\* The connections are numbered in the order they were made, and no step
\* takes one away.
LEMMA ConnsMade ==
  ASSUME conns \in Seq(Conn), NEW c \in Conn, conns' = Append(conns, c)
  PROVE  /\ conns' \in Seq(Conn)
         /\ Len(conns) \in Nat /\ Len(conns) + 1 \notin Ids
         /\ Ids' = Ids \cup {Len(conns) + 1}
         /\ \A i \in Ids : conns'[i] = conns[i]
         /\ conns'[Len(conns) + 1] = c
  BY LenProperties DEF Ids

LEMMA ConnsChanged ==
  ASSUME conns \in Seq(Conn), conns' \in [Ids -> Conn]
  PROVE  conns' \in Seq(Conn) /\ Ids' = Ids
  BY LenProperties DEF Ids

LEMMA ConnChanged ==
  ASSUME conns \in Seq(Conn), NEW i \in Ids, NEW c \in Conn,
         conns' = [conns EXCEPT ![i] = c]
  PROVE  /\ conns' \in Seq(Conn) /\ Ids' = Ids
         /\ conns'[i] = c
         /\ \A j \in Ids : j # i => conns'[j] = conns[j]
  <1>1. conns \in [Ids -> Conn]
    BY LenProperties DEF Ids
  <1> QED BY <1>1, ConnsChanged

\* What the events that concern one connection make of it.
LEMMA ConnTyped ==
  ASSUME conns \in Seq(Conn), NEW i \in Ids
  PROVE  /\ [conns[i] EXCEPT !.chan = "open"] \in Conn
         /\ [conns[i] EXCEPT !.chan = "closed"] \in Conn
         /\ [conns[i] EXCEPT !.state = "closed", !.chan = "closed"] \in Conn
  <1>1. conns[i] \in Conn
    BY ElementOfSeq DEF Ids
  <1> QED BY <1>1 DEF Conn

LEMMA ConnDies ==
  ASSUME conns \in Seq(Conn), NEW i \in Ids,
         conns' = [conns EXCEPT ![i].state = "closed", ![i].chan = "closed"]
  PROVE  /\ conns' \in Seq(Conn) /\ Ids' = Ids
         /\ conns'[i] = [conns[i] EXCEPT !.state = "closed", !.chan = "closed"]
         /\ \A j \in Ids : j # i => conns'[j] = conns[j]
  <1>1. conns \in [Ids -> Conn]
    BY LenProperties DEF Ids
  <1>2. conns' = [conns EXCEPT ![i] = [conns[i] EXCEPT !.state = "closed", !.chan = "closed"]]
    BY <1>1
  <1> QED BY <1>2, ConnTyped, ConnChanged

-----------------------------------------------------------------------------
Typed == TypeOK /\ TasksTyped /\ TimersTyped

LEMMA TypedIsTyped == TypeOK /\ IsFiniteSet(tasks) <=> Typed
  BY DEF Typed, TypeOK, TasksTyped, TimersTyped

LEMMA Registered ==
  ASSUME Typed, NEW t \in tasks, Register(t)
  PROVE  /\ conns' \in Seq(Conn) /\ Ids' = Ids
         /\ \A i \in Ids :
              /\ conns'[i].state = conns[i].state /\ conns'[i].chan = conns[i].chan
              /\ conns'[i].listeners
                   = IF i = connection THEN conns[i].listeners + 1 ELSE conns[i].listeners
              /\ conns'[i].chanListeners
                   = IF i = channel /\ connection # 0 THEN conns[i].chanListeners + 1
                     ELSE conns[i].chanListeners
  <1> DEFINE m(i) == IF i = connection THEN 1 ELSE 0
             n(i) == IF i = channel /\ connection # 0 THEN 1 ELSE 0
  <1>1. conns \in [Ids -> Conn]
    BY LenProperties DEF Ids, Typed, TypeOK
  <1>2. conns' = [i \in Ids |-> [conns[i] EXCEPT !.listeners = @ + m(i),
                                               !.chanListeners = @ + n(i)]]
    BY DEF Register
  <1>3. ASSUME NEW i \in Ids
        PROVE  /\ conns'[i] \in Conn
               /\ conns'[i].state = conns[i].state /\ conns'[i].chan = conns[i].chan
               /\ conns'[i].listeners = conns[i].listeners + m(i)
               /\ conns'[i].chanListeners = conns[i].chanListeners + n(i)
    <2>1. conns[i] \in Conn
      BY <1>1
    <2>2. conns[i].listeners + m(i) \in Nat /\ conns[i].chanListeners + n(i) \in Nat
      BY <2>1 DEF Conn
    <2>3. conns'[i] = [conns[i] EXCEPT !.listeners = @ + m(i), !.chanListeners = @ + n(i)]
      BY <1>2
    <2> HIDE DEF m, n
    <2> QED BY <2>1, <2>2, <2>3 DEF Conn
  <1>4. conns' \in Seq(Conn) /\ Ids' = Ids
    <2>1. conns' \in [Ids -> Conn]
      BY <1>2, <1>3
    <2> QED BY <2>1, ConnsChanged DEF Typed, TypeOK
  <1>5. \A i \in Ids : conns[i].listeners \in Nat /\ conns[i].chanListeners \in Nat
    BY <1>1 DEF Conn
  <1> QED BY <1>3, <1>4, <1>5

(***************************************************************************)
(* Types.                                                                  *)
(***************************************************************************)
LEMMA TypeStep ==
  ASSUME Typed, Closing, [Next]_vars
  PROVE  TypeOK' /\ IsFiniteSet(tasks')
  <1> USE DEF Typed
  <1>1. CASE Initialize
    <2>1. PICK t \in Task : /\ tasks' = tasks \cup {t} /\ IsFiniteSet(tasks')
                            /\ t.at = "dial" /\ t.on = 0
      BY <1>1, TaskBegins DEF Initialize
    <2> QED BY <1>1, <2>1 DEF Initialize, KeepTimers, TypeOK, Ids
  <1>2. CASE TimerFires
    <2>1. PICK t \in Task : /\ tasks' = tasks \cup {t} /\ IsFiniteSet(tasks')
                            /\ t.at = "dial" /\ t.on = 0
      BY <1>2, TaskBegins DEF TimerFires
    <2>2. latest' \in BOOLEAN /\ older' \in Nat
      <3>1. CASE latest' = FALSE /\ older' = older
        BY <3>1 DEF TypeOK
      <3>2. CASE older > 0 /\ older' = older - 1 /\ latest' = latest
        BY <3>2 DEF TypeOK
      <3> QED BY <1>2, <3>1, <3>2 DEF TimerFires
    <2> QED BY <1>2, <2>1, <2>2 DEF TimerFires, TypeOK, Ids
  <1>3. ASSUME NEW t \in tasks, Dial(t) PROVE TypeOK' /\ IsFiniteSet(tasks')
    <2>1. Len(conns) + 1 \in Nat \ {0}
      BY LenProperties DEF TypeOK
    <2>2. PICK u \in Task :
            /\ tasks' = (tasks \ {t}) \cup {u} /\ IsFiniteSet(tasks')
            /\ u.at = "channel" /\ u.on = Len(conns) + 1
      BY <1>3, <2>1, TaskMoves DEF Dial, Steps
    <2>3. /\ conns' \in Seq(Conn)
          /\ Ids' = Ids \cup {Len(conns) + 1}
      BY <1>3, ConnsMade DEF Dial, Conn, TypeOK
    <2> QED BY <1>3, <2>1, <2>2, <2>3 DEF Dial, KeepTimers, TypeOK
  <1>4. ASSUME NEW t \in tasks, DialFails(t) \/ AwaitRejected(t)
        PROVE  TypeOK' /\ IsFiniteSet(tasks')
    <2>1. tasks' = tasks \ {t} /\ IsFiniteSet(tasks') /\ TimersTyped'
      BY <1>4, TaskFails DEF DialFails, AwaitRejected
    <2>2. faults' \in 0..MaxFaults
      BY <1>4, BrokerConnectionAssumption DEF DialFails, AwaitRejected, Fault, TypeOK
    <2>3. UNCHANGED <<conns, connection, channel, stopping, target, started, ready, cleanStop>>
      BY <1>4 DEF DialFails, AwaitRejected
    <2> QED BY <2>1, <2>2, <2>3 DEF TypeOK, TimersTyped, Ids
  <1>5. ASSUME NEW t \in tasks, CreateChannel(t) PROVE TypeOK' /\ IsFiniteSet(tasks')
    <2>1. t.on \in Ids
      BY <1>5 DEF CreateChannel, TypeOK
    <2>2. conns' \in Seq(Conn) /\ Ids' = Ids
      BY <1>5, <2>1, ConnTyped, ConnChanged DEF CreateChannel, TypeOK
    <2>3. PICK u \in Task :
            /\ tasks' = (tasks \ {t}) \cup {u} /\ IsFiniteSet(tasks')
            /\ u.at = "prefetch" /\ u.on = t.on
      BY <1>5, TaskMoves DEF CreateChannel, Steps, TasksTyped, Task
    <2>4. t.on # 0
      BY <1>5 DEF CreateChannel, TypeOK
    <2> QED BY <1>5, <2>1, <2>2, <2>3, <2>4 DEF CreateChannel, KeepTimers, TypeOK
  <1>6. ASSUME NEW t \in tasks, Register(t) PROVE TypeOK' /\ IsFiniteSet(tasks')
    <2>1. conns' \in Seq(Conn) /\ Ids' = Ids
      BY <1>6, Registered
    <2>2. CASE Broken
      <3>1. tasks' = tasks \ {t} /\ IsFiniteSet(tasks')
        BY <1>6, <2>2, FS_RemoveElement DEF Register, TasksTyped
      <3>2. TimersTyped'
        <4>1. 0 \in (IF MaxAttempts = 0 THEN Nat ELSE 0..MaxAttempts)
              /\ 1 \in (IF MaxAttempts = 0 THEN Nat ELSE 0..MaxAttempts)
          BY BrokerConnectionAssumption
        <4>2. attempts' \in {0, 1} /\ gaveUp' = gaveUp
          BY <1>6 DEF Register
        <4>3. CASE t.kind = "reconnect"
          <5>1. latest' = TRUE /\ older' = older + (IF latest THEN 1 ELSE 0)
            BY <1>6, <2>2, <4>3 DEF Register
          <5>2. older' \in Nat
            BY <5>1 DEF TimersTyped
          <5> QED BY <4>1, <4>2, <5>1, <5>2 DEF TimersTyped
        <4>4. CASE t.kind # "reconnect"
          BY <1>6, <2>2, <4>1, <4>2, <4>4 DEF Register, TimersTyped
        <4> QED BY <4>3, <4>4
      <3> QED BY <1>6, <2>1, <3>1, <3>2 DEF Register, TypeOK, TimersTyped
    <2>3. CASE ~Broken
      <3>1. channel \in Ids /\ channel \in Nat /\ channel # 0
        BY <2>3 DEF Broken, TypeOK, Ids
      <3>2. PICK u \in Task :
              /\ tasks' = (tasks \ {t}) \cup {u} /\ IsFiniteSet(tasks')
              /\ u.at = "exchanges" /\ u.on = channel
        <4>1. Move(t, "exchanges", channel)
          BY <1>6, <2>3 DEF Register
        <4> QED BY <3>1, <4>1, TaskMoves DEF Steps
      <3>3. TimersTyped'
        <4>1. UNCHANGED <<latest, older, gaveUp>> /\ attempts' = 0
          BY <1>6, <2>3 DEF Register
        <4> QED BY <4>1, BrokerConnectionAssumption DEF TimersTyped
      <3> QED BY <1>6, <2>1, <3>1, <3>2, <3>3 DEF Register, TypeOK, TimersTyped
    <2> QED BY <2>2, <2>3
  <1>7. ASSUME NEW t \in tasks, SetupExchanges(t) PROVE TypeOK' /\ IsFiniteSet(tasks')
    <2>1. UNCHANGED <<conns, connection, channel, stopping, target, started,
                      faults, ready, cleanStop>>
      BY <1>7 DEF SetupExchanges
    <2>2. CASE channel = 0
      <3>1. tasks' = tasks \ {t} /\ IsFiniteSet(tasks') /\ TimersTyped'
        BY <1>7, <2>2, TaskFails DEF SetupExchanges
      <3> QED BY <2>1, <3>1 DEF TypeOK, TimersTyped, Ids
    <2>3. CASE channel # 0
      <3>1. channel \in Ids /\ channel \in Nat /\ channel # 0
        BY <2>3 DEF TypeOK, Ids
      <3>2. PICK u \in Task :
              /\ tasks' = (tasks \ {t}) \cup {u} /\ IsFiniteSet(tasks')
              /\ u.at = "queues" /\ u.on = channel
        BY <1>7, <2>3, <3>1, TaskMoves DEF SetupExchanges, Steps
      <3> QED BY <1>7, <2>1, <2>3, <3>1, <3>2 DEF SetupExchanges, KeepTimers, TypeOK, Ids
    <2> QED BY <2>2, <2>3
  <1>8. ASSUME NEW t \in tasks, SetupQueues(t) PROVE TypeOK' /\ IsFiniteSet(tasks')
    <2>1. tasks' = tasks \ {t} /\ IsFiniteSet(tasks')
      BY <1>8, FS_RemoveElement DEF SetupQueues, TasksTyped
    <2> QED BY <1>8, <2>1 DEF SetupQueues, KeepTimers, TypeOK, Ids
  <1>9. ASSUME NEW i \in Ids, ConnectionDies(i) \/ ChannelDies(i)
        PROVE  TypeOK' /\ IsFiniteSet(tasks')
    <2>1. conns' \in Seq(Conn) /\ Ids' = Ids
      BY <1>9, ConnTyped, ConnDies, ConnChanged DEF ConnectionDies, ChannelDies, TypeOK
    <2>2. channel' \in Ids \cup {0}
      BY <1>9 DEF ConnectionDies, ChannelDies, Hear, TypeOK
    <2>3. TimersTyped'
      <3>1. conns[i].listeners \in Nat
        <4>1. conns[i] \in Conn
          BY ElementOfSeq DEF Ids, TypeOK
        <4> QED BY <4>1 DEF Conn
      <3> QED BY <1>9, <3>1, Scheduled
          DEF ConnectionDies, ChannelDies, KeepTimers, TimersTyped
    <2>4. faults' \in 0..MaxFaults
      BY <1>9, BrokerConnectionAssumption DEF ConnectionDies, ChannelDies, Fault, TypeOK
    <2>5. UNCHANGED <<connection, tasks, stopping, target, started, ready, cleanStop>>
      BY <1>9 DEF ConnectionDies, ChannelDies
    <2> QED BY <2>1, <2>2, <2>3, <2>4, <2>5 DEF TypeOK, TimersTyped, TasksTyped
  <1>10. CASE Shutdown
    BY <1>10 DEF Shutdown, ShutdownWith, StopAt, IfChan, IfConn, TypeOK, TasksTyped, Ids
  <1>11. CASE CloseChannel
    <2>1. conns' \in Seq(Conn) /\ Ids' = Ids
      BY <1>11, ConnTyped, ConnChanged DEF CloseChannel, Closing, TypeOK
    <2> QED BY <1>11, <2>1 DEF CloseChannel, StopAt, IfConn, KeepTimers, TypeOK, TasksTyped
  <1>12. CASE CloseConnection
    <2>1. conns' \in Seq(Conn) /\ Ids' = Ids
      BY <1>12, ConnDies DEF CloseConnection, Closing, TypeOK
    <2> QED BY <1>12, <2>1 DEF CloseConnection, StopAt, KeepTimers, TypeOK, TasksTyped
  <1>13. CASE UNCHANGED vars
    BY <1>13 DEF vars, TypeOK, TasksTyped, Ids
  <1> QED BY <1>1, <1>2, <1>3, <1>4, <1>5, <1>6, <1>7, <1>8, <1>9, <1>10, <1>11, <1>12,
             <1>13 DEF Next, TaskStep
-----------------------------------------------------------------------------
(***************************************************************************)
(* Beginnings.                                                             *)
(***************************************************************************)
SameListeners ==
  /\ Ids' = Ids
  /\ \A i \in Ids : /\ conns'[i].listeners = conns[i].listeners
                     /\ conns'[i].chanListeners = conns[i].chanListeners

LEMMA HeardKept ==
  ASSUME SameListeners
  PROVE  /\ Heard' <=> Heard
         /\ (\A i \in Ids : conns[i].chanListeners = 0)
              => (\A i \in Ids : conns[i].chanListeners = 0)'
  BY DEF SameListeners, Heard

\* Only Register puts listeners anywhere.
LEMMA ListenersOf ==
  ASSUME Typed, NEW i \in Ids,
         \/ conns' = [conns EXCEPT ![i].chan = "open"]
         \/ conns' = [conns EXCEPT ![i].chan = "closed"]
         \/ conns' = [conns EXCEPT ![i].state = "closed", ![i].chan = "closed"]
  PROVE  SameListeners
  <1>1. conns \in Seq(Conn)
    BY DEF Typed, TypeOK
  <1>2. conns[i] \in Conn
    BY <1>1, ElementOfSeq DEF Ids
  <1>3. CASE conns' = [conns EXCEPT ![i].chan = "open"]
    <2> DEFINE c == [conns[i] EXCEPT !.chan = "open"]
    <2>1. c \in Conn /\ conns' = [conns EXCEPT ![i] = c]
      BY <1>1, <1>3, ConnTyped
    <2>2. /\ Ids' = Ids /\ conns'[i] = c
          /\ \A j \in Ids : j # i => conns'[j] = conns[j]
      <3> HIDE DEF c
      <3> QED BY <1>1, <2>1, ConnChanged
    <2> QED BY <1>2, <2>2 DEF SameListeners, Conn
  <1>4. CASE conns' = [conns EXCEPT ![i].chan = "closed"]
    <2> DEFINE c == [conns[i] EXCEPT !.chan = "closed"]
    <2>1. c \in Conn /\ conns' = [conns EXCEPT ![i] = c]
      BY <1>1, <1>4, ConnTyped
    <2>2. /\ Ids' = Ids /\ conns'[i] = c
          /\ \A j \in Ids : j # i => conns'[j] = conns[j]
      <3> HIDE DEF c
      <3> QED BY <1>1, <2>1, ConnChanged
    <2> QED BY <1>2, <2>2 DEF SameListeners, Conn
  <1>5. CASE conns' = [conns EXCEPT ![i].state = "closed", ![i].chan = "closed"]
    <2>1. /\ Ids' = Ids
          /\ conns'[i] = [conns[i] EXCEPT !.state = "closed", !.chan = "closed"]
          /\ \A j \in Ids : j # i => conns'[j] = conns[j]
      BY <1>1, <1>5, ConnDies
    <2> QED BY <1>2, <2>1 DEF SameListeners, Conn
  <1> QED BY <1>3, <1>4, <1>5

LEMMA BeginningsStep ==
  ASSUME Typed, Beginnings, Closing, [Next]_vars
  PROVE  Beginnings'
  <1> USE DEF Typed
  <1>1. CASE Initialize
    <2>1. PICK t \in Task : /\ tasks' = tasks \cup {t}
                            /\ t.kind = "initialize" /\ t.at = "dial" /\ t.on = 0
      BY <1>1, TaskBegins DEF Initialize
    <2>2. SameListeners
      BY <1>1 DEF Initialize, SameListeners, Ids
    <2>3. tasks = {} /\ ~Heard
      BY <1>1 DEF Initialize, Beginnings
    <2> QED BY <1>1, <2>1, <2>2, <2>3, HeardKept DEF Initialize, KeepTimers, Beginnings, Early
  <1>2. CASE TimerFires
    <2>1. PICK t \in Task : tasks' = tasks \cup {t} /\ t.kind = "reconnect"
      BY <1>2, TaskBegins DEF TimerFires
    <2>2. SameListeners
      BY <1>2 DEF TimerFires, SameListeners, Ids
    <2>3. Heard
      BY <1>2 DEF TimerFires, Beginnings, TypeOK
    <2> QED BY <1>2, <2>1, <2>2, <2>3, HeardKept DEF TimerFires, Beginnings
  <1>3. ASSUME NEW t \in tasks, Dial(t) PROVE Beginnings'
    <2>1. Len(conns) + 1 \in Nat
      BY LenProperties DEF TypeOK
    <2>2. PICK u \in Task :
            /\ tasks' = (tasks \ {t}) \cup {u} /\ u.kind = t.kind
            /\ u.at = "channel" /\ u.on = Len(conns) + 1
      BY <1>3, <2>1, TaskMoves DEF Dial, Steps
    <2> DEFINE c == [state |-> "open", chan |-> "none", listeners |-> 0, chanListeners |-> 0]
    <2>3. c \in Conn /\ conns' = Append(conns, c)
      BY <1>3 DEF Dial, Conn
    <2>4. /\ Ids' = Ids \cup {Len(conns) + 1}
          /\ \A i \in Ids : conns'[i] = conns[i]
          /\ conns'[Len(conns) + 1] = c
      <3> HIDE DEF c
      <3> QED BY <2>3, ConnsMade DEF TypeOK
    <2>5. /\ Heard' <=> Heard
          /\ (\A i \in Ids : conns[i].chanListeners = 0)
               => (\A i \in Ids : conns[i].chanListeners = 0)'
      BY <2>4 DEF Heard
    <2>6. CASE Heard
      BY <1>3, <2>2, <2>5, <2>6 DEF Dial, Beginnings
    <2>7. CASE ~Heard
      <3>1. tasks' = {u} /\ Early(u)' /\ started'
        BY <1>3, <2>2, <2>7 DEF Dial, Beginnings, Early
      <3> QED BY <1>3, <2>5, <2>7, <3>1 DEF Dial, KeepTimers, Beginnings
    <2> QED BY <2>6, <2>7
  <1>4. ASSUME NEW t \in tasks, DialFails(t) \/ AwaitRejected(t)
        PROVE  Beginnings'
    <2>1. /\ tasks' = tasks \ {t}
          /\ t.kind # "reconnect" => latest' = latest /\ older' = older
      BY <1>4, TaskFails DEF DialFails, AwaitRejected
    <2>2. UNCHANGED <<conns, connection, channel, stopping, started, ready>>
      BY <1>4 DEF DialFails, AwaitRejected
    <2>3. SameListeners
      BY <2>2 DEF SameListeners, Ids
    <2>4. \A s \in tasks : Early(s) => Early(s)'
      BY <2>2 DEF Early, isShuttingDown
    <2>5. ~Heard => t.kind # "reconnect" /\ tasks' = {}
      BY <2>1 DEF Beginnings, Early
    <2> QED BY <2>1, <2>2, <2>3, <2>4, <2>5, HeardKept DEF Beginnings
  <1>5. ASSUME NEW t \in tasks, CreateChannel(t) PROVE Beginnings'
    <2>1. t.on \in Ids /\ t.on \in Nat
      BY <1>5 DEF CreateChannel, TypeOK, Ids
    <2>2. SameListeners
      BY <1>5, <2>1, ListenersOf DEF CreateChannel
    <2>3. PICK u \in Task :
            /\ tasks' = (tasks \ {t}) \cup {u} /\ u.kind = t.kind
            /\ u.at = "prefetch" /\ u.on = t.on
      BY <1>5, <2>1, TaskMoves DEF CreateChannel, Steps
    <2>4. CASE Heard
      BY <1>5, <2>2, <2>3, <2>4, HeardKept DEF CreateChannel, Beginnings
    <2>5. CASE ~Heard
      <3>1. tasks' = {u} /\ Early(u)' /\ started'
        BY <1>5, <2>3, <2>5 DEF CreateChannel, Beginnings, Early, isShuttingDown
      <3> QED BY <1>5, <2>2, <2>5, <3>1, HeardKept DEF CreateChannel, KeepTimers, Beginnings
    <2> QED BY <2>4, <2>5
  <1>6. ASSUME NEW t \in tasks, Register(t) PROVE Beginnings'
    <2>1. /\ Ids' = Ids
          /\ Heard => Heard'
          /\ connection # 0 => Heard'
          /\ connection = 0 /\ (\A i \in Ids : conns[i].chanListeners = 0)
               => (\A i \in Ids : conns[i].chanListeners = 0)'
      <3>1. \A i \in Ids : conns[i].listeners \in Nat
        <4>1. \A i \in Ids : conns[i] \in Conn
          BY ElementOfSeq DEF Ids, TypeOK
        <4> QED BY <4>1 DEF Conn
      <3>2. connection # 0 => connection \in Ids
        BY DEF TypeOK
      <3> QED BY <1>6, <3>1, <3>2, Registered DEF Heard
    <2>2. UNCHANGED <<connection, channel, stopping, started, ready>> /\ started
      BY <1>6 DEF Register, Beginnings
    <2>3. CASE Broken
      <3>1. tasks' = tasks \ {t}
        BY <1>6, <2>3 DEF Register
      <3>2. ~Heard => tasks' = {} /\ latest' = latest /\ older' = older
        BY <1>6, <2>3, <3>1 DEF Register, Beginnings, Early
      <3> QED BY <2>1, <2>2, <3>1, <3>2 DEF Beginnings
    <2>4. CASE ~Broken
      <3>1. Move(t, "exchanges", channel) /\ channel \in Nat
        <4>1. Move(t, "exchanges", channel)
          BY <1>6, <2>4 DEF Register
        <4> QED BY <4>1 DEF TypeOK, Ids
      <3>2. PICK u \in Task :
              tasks' = (tasks \ {t}) \cup {u} /\ u.at = "exchanges"
        BY <3>1, TaskMoves DEF Steps
      <3>3. \A s \in tasks' : s.kind = "initialize" => s.at \in {"exchanges", "queues"}
        BY <3>2 DEF Beginnings
      <3> QED BY <2>1, <2>2, <2>4, <3>3 DEF Beginnings, Broken
    <2> QED BY <2>3, <2>4
  <1>7. ASSUME NEW t \in tasks, SetupExchanges(t) PROVE Beginnings'
    <2>1. SameListeners /\ UNCHANGED <<started, ready>>
      BY <1>7 DEF SetupExchanges, SameListeners, Ids
    <2>2. Heard /\ started
      BY <1>7 DEF SetupExchanges, Beginnings, Early
    <2>3. CASE channel = 0
      BY <1>7, <2>1, <2>2, <2>3, TaskFails, HeardKept DEF SetupExchanges, Beginnings
    <2>4. CASE channel # 0
      <3>1. PICK u \in Task : tasks' = (tasks \ {t}) \cup {u} /\ u.at = "queues"
        BY <1>7, <2>4, TaskMoves DEF SetupExchanges, Steps, TypeOK, Ids
      <3> QED BY <2>1, <2>2, <3>1, HeardKept DEF Beginnings
    <2> QED BY <2>3, <2>4
  <1>8. ASSUME NEW t \in tasks, SetupQueues(t) PROVE Beginnings'
    <2>1. SameListeners /\ started' = started /\ tasks' = tasks \ {t}
      BY <1>8 DEF SetupQueues, SameListeners, Ids
    <2>2. Heard /\ started
      BY <1>8 DEF SetupQueues, Beginnings, Early
    <2> QED BY <2>1, <2>2, HeardKept DEF Beginnings
  <1>9. ASSUME NEW i \in Ids, ConnectionDies(i) \/ ChannelDies(i)
        PROVE  Beginnings'
    <2>1. SameListeners
      BY <1>9, ListenersOf DEF ConnectionDies, ChannelDies
    <2>2. UNCHANGED <<connection, tasks, stopping, started, ready>>
      BY <1>9 DEF ConnectionDies, ChannelDies
    <2>3. CASE Heard
      BY <2>1, <2>2, <2>3, HeardKept DEF Beginnings
    <2>4. CASE ~Heard
      <3>1. conns[i].listeners = 0 /\ conns[i].chanListeners = 0
        <4>1. conns[i] \in Conn
          BY ElementOfSeq DEF Ids, TypeOK
        <4> QED BY <2>4, <4>1 DEF Beginnings, Heard, Conn
      <3>2. UNCHANGED <<latest, older, channel>>
        BY <1>9, <3>1, Scheduled DEF ConnectionDies, ChannelDies, Hear, KeepTimers
      <3>3. \A t \in tasks : Early(t) => Early(t)'
        BY <2>2, <3>2 DEF Early, isShuttingDown
      <3> QED BY <2>1, <2>2, <2>4, <3>2, <3>3, HeardKept DEF Beginnings
    <2> QED BY <2>3, <2>4
  <1>10. CASE Shutdown
    <2>1. SameListeners /\ isShuttingDown' /\ UNCHANGED <<tasks, started, ready, older>>
          /\ latest' = FALSE
      BY <1>10 DEF Shutdown, ShutdownWith, StopAt, SameListeners, Ids, isShuttingDown
    <2> QED BY <2>1, HeardKept DEF Beginnings, Early
  <1>11. CASE CloseChannel \/ CloseConnection
    <2>1. target \in Ids
      BY <1>11 DEF CloseChannel, CloseConnection, Closing
    <2>2. SameListeners
      BY <1>11, <2>1, ListenersOf DEF CloseChannel, CloseConnection
    <2>3. isShuttingDown' /\ UNCHANGED <<tasks, started, ready, older, latest>>
      BY <1>11 DEF CloseChannel, CloseConnection, StopAt, KeepTimers, isShuttingDown
    <2> QED BY <2>2, <2>3, HeardKept DEF Beginnings, Early
  <1>12. CASE UNCHANGED vars
    <2>1. SameListeners
      BY <1>12 DEF vars, SameListeners, Ids
    <2> QED BY <1>12, <2>1, HeardKept DEF vars, Beginnings, Early, isShuttingDown
  <1> QED BY <1>1, <1>2, <1>3, <1>4, <1>5, <1>6, <1>7, <1>8, <1>9, <1>10, <1>11, <1>12
          DEF Next, TaskStep
-----------------------------------------------------------------------------
(***************************************************************************)
(* Guarded.                                                                *)
(***************************************************************************)
LEMMA PursuitGoesOn ==
  ASSUME NEW t \in tasks, tasks \ {t} \subseteq tasks',
         NEW points, NEW i, Pursued(points, i),
         t.kind # "reconnect" \/ t.at \notin points
  PROVE  Pursued(points, i)'
  BY DEF Pursued

\* Whoever loses its task keeps the guards if the task was none of theirs.
LEMMA GuardsKept ==
  ASSUME Typed, Guarded, SameListeners,
         \A i \in Ids : (ConnOpen(i)' <=> ConnOpen(i)) /\ (ChanOpen(i)' <=> ChanOpen(i)),
         UNCHANGED <<connection, channel, stopping>>,
         gaveUp => gaveUp', Timer => Timer' \/ gaveUp',
         NEW t \in tasks, tasks \ {t} \subseteq tasks',
         t.kind # "reconnect" \/ t.at \notin {"dial", "channel", "prefetch"}
  PROVE  Guarded'
  <1> SUFFICES ASSUME Heard', ~isShuttingDown', ~gaveUp'
               PROVE  ConnectionGuarded' /\ ChannelGuarded'
    BY DEF Guarded
  <1>1. ConnectionGuarded /\ ChannelGuarded
    BY HeardKept DEF Guarded, isShuttingDown
  <1>2. \A points \in SUBSET {"dial", "channel", "prefetch"} : \A i :
          Pursued(points, i) => Pursued(points, i)'
    BY PursuitGoesOn
  <1>3. connection \in Attended => connection' \in Attended'
    BY DEF Attended, SameListeners
  <1>4. ConnectionGuarded'
    BY <1>1, <1>2, <1>3 DEF ConnectionGuarded
  <1>5. channel = 0 \/ channel \in Ids
    BY DEF Typed, TypeOK
  <1>6. ChannelGuarded'
    BY <1>1, <1>2, <1>5 DEF ChannelGuarded, SameListeners
  <1> QED BY <1>4, <1>6

LEMMA GuardedStep ==
  ASSUME Typed, Beginnings, Guarded, Closing, [Next]_vars
  PROVE  Guarded'
  <1> USE DEF Typed
  <1>1. CASE Initialize
    <2>1. SameListeners /\ ~Heard
      BY <1>1 DEF Initialize, SameListeners, Ids, Beginnings
    <2> QED BY <2>1, HeardKept DEF Guarded
  <1>2. CASE TimerFires
    <2>1. PICK t \in Task : tasks' = tasks \cup {t} /\ t.kind = "reconnect"
                            /\ t.at = "dial" /\ t.on = 0
      BY <1>2, TaskBegins DEF TimerFires
    <2>2. Pursued({"dial"}, 0)'
      BY <2>1 DEF Pursued
    <2> QED BY <1>2, <2>2 DEF TimerFires, Guarded, ConnectionGuarded, ChannelGuarded
  <1>3. ASSUME NEW t \in tasks, Dial(t) PROVE Guarded'
    <2>1. Len(conns) + 1 \in Nat \ {0}
      BY LenProperties DEF TypeOK
    <2>2. PICK u \in Task :
            /\ tasks' = (tasks \ {t}) \cup {u} /\ u.kind = t.kind
            /\ u.at = "channel" /\ u.on = Len(conns) + 1
      BY <1>3, <2>1, TaskMoves DEF Dial, Steps
    <2> DEFINE c == [state |-> "open", chan |-> "none", listeners |-> 0, chanListeners |-> 0]
    <2>3. c \in Conn /\ conns' = Append(conns, c)
      BY <1>3 DEF Dial, Conn
    <2>4. /\ Ids' = Ids \cup {Len(conns) + 1}
          /\ \A i \in Ids : conns'[i] = conns[i]
          /\ conns'[Len(conns) + 1] = c
      <3> HIDE DEF c
      <3> QED BY <2>3, ConnsMade DEF TypeOK
    <2>5. Heard' => Heard
      BY <2>4 DEF Heard
    <2>6. Heard => t.kind = "reconnect"
      BY <1>3 DEF Dial, Beginnings, Task, TypeOK
    <2>7. Heard => ConnectionGuarded'
      <3>1. Heard => Pursued({"channel", "prefetch"}, connection)'
        BY <1>3, <2>2, <2>6 DEF Dial, Pursued
      <3>2. connection' # 0
        BY <1>3, <2>1 DEF Dial
      <3> QED BY <3>1, <3>2 DEF ConnectionGuarded
    <2>8. ChannelGuarded => ChannelGuarded'
      <3>1. Pursued({"prefetch"}, channel) => Pursued({"prefetch"}, channel)'
        BY <1>3, <2>2 DEF Dial, Pursued
      <3>2. channel \in Ids \cup {0} /\ channel' = channel /\ (Timer => Timer')
        BY <1>3 DEF Dial, KeepTimers, Timer, TypeOK
      <3> QED BY <2>4, <3>1, <3>2 DEF ChannelGuarded, ChanOpen, ConnOpen
    <2> QED BY <1>3, <2>5, <2>7, <2>8 DEF Dial, KeepTimers, Guarded, isShuttingDown
  <1>4. ASSUME NEW t \in tasks, DialFails(t) \/ AwaitRejected(t)
        PROVE  Guarded'
    <2>1. /\ tasks' = tasks \ {t}
          /\ Timer \/ gaveUp \/ t.kind = "reconnect" => Timer' \/ gaveUp'
          /\ gaveUp => gaveUp'
      BY <1>4, TaskFails DEF DialFails, AwaitRejected
    <2>2. UNCHANGED <<conns, connection, channel, stopping>>
      BY <1>4 DEF DialFails, AwaitRejected
    <2>3. CASE t.kind = "reconnect"
      BY <2>1, <2>3 DEF Guarded, ConnectionGuarded, ChannelGuarded
    <2>4. CASE t.kind # "reconnect"
      BY <2>1, <2>2, <2>4, GuardsKept DEF SameListeners, Ids, ConnOpen, ChanOpen
    <2> QED BY <2>3, <2>4
  <1>5. ASSUME NEW t \in tasks, CreateChannel(t) PROVE Guarded'
    <2>1. t.on \in Ids /\ t.on \in Nat
      BY <1>5 DEF CreateChannel, TypeOK, Ids
    <2>2. SameListeners
      BY <1>5, <2>1, ListenersOf DEF CreateChannel
    <2>3. PICK u \in Task :
            /\ tasks' = (tasks \ {t}) \cup {u} /\ u.kind = t.kind
            /\ u.at = "prefetch" /\ u.on = t.on
      BY <1>5, <2>1, TaskMoves DEF CreateChannel, Steps
    <2>4. Heard => t.kind = "reconnect"
      BY <1>5 DEF CreateChannel, Beginnings, Task, TypeOK
    <2>5. Heard => ChannelGuarded'
      BY <1>5, <2>3, <2>4 DEF CreateChannel, ChannelGuarded, Pursued
    <2>6. ConnectionGuarded => ConnectionGuarded'
      <3>1. \A i : Pursued({"channel", "prefetch"}, i) => Pursued({"channel", "prefetch"}, i)'
        BY <2>3 DEF Pursued
      <3>2. Pursued({"dial"}, 0) => Pursued({"dial"}, 0)'
        BY <1>5, <2>3 DEF CreateChannel, Pursued
      <3>3. \A i \in Ids : ConnOpen(i)' <=> ConnOpen(i)
        <4>1. conns \in [Ids -> Conn]
          BY LenProperties DEF Ids, TypeOK
        <4> QED BY <1>5, <2>1, <4>1 DEF CreateChannel, ConnOpen, Conn
      <3>4. Attended' = Attended /\ connection' = connection /\ (Timer => Timer')
        BY <1>5, <2>2, <3>3 DEF CreateChannel, KeepTimers, Attended, SameListeners, Timer
      <3> QED BY <3>1, <3>2, <3>4 DEF ConnectionGuarded
    <2> QED BY <1>5, <2>2, <2>5, <2>6, HeardKept
            DEF CreateChannel, KeepTimers, Guarded, isShuttingDown
  <1>6. ASSUME NEW t \in tasks, Register(t) PROVE Guarded'
    <2> SUFFICES ASSUME Heard', ~isShuttingDown', ~gaveUp'
                 PROVE  ConnectionGuarded' /\ ChannelGuarded'
      BY DEF Guarded
    <2>1. UNCHANGED <<connection, channel, stopping, gaveUp>> /\ ~isShuttingDown
      BY <1>6 DEF Register, isShuttingDown
    <2>2. ChanOpen(t.on) /\ ConnOpen(t.on) /\ t.on # 0 /\ t.on \in Ids
      BY <1>6 DEF Register, Idle, Doomed, TypeOK, ChanOpen
    <2>3. Heard => t.kind = "reconnect"
      BY <1>6 DEF Register, Beginnings, Task, TypeOK
    <2>4. ~Heard => connection = t.on /\ channel = t.on
      BY <1>6, <2>1 DEF Register, Beginnings, Early
    <2>5. CASE Broken
      <3>1. Heard
        BY <2>2, <2>4, <2>5 DEF Broken
      <3>2. Timer'
        BY <1>6, <2>3, <2>5, <3>1 DEF Register, Timer
      <3> QED BY <3>2 DEF ConnectionGuarded, ChannelGuarded
    <2>6. CASE ~Broken
      <3>1. Move(t, "exchanges", channel) /\ (Timer' <=> Timer)
        BY <1>6, <2>6 DEF Register, Timer
      <3>2. connection # 0 /\ channel # 0 /\ connection \in Ids /\ channel \in Ids
        BY <2>6 DEF Broken, TypeOK
      <3>3. tasks \ {t} \subseteq tasks'
        BY <3>1 DEF Move
      <3>4. \A i \in Ids : conns[i].listeners \in Nat /\ conns[i].chanListeners \in Nat
        <4>1. \A i \in Ids : conns[i] \in Conn
          BY ElementOfSeq DEF Ids, TypeOK
        <4> QED BY <4>1 DEF Conn
      <3>5. /\ Ids' = Ids
            /\ \A i \in Ids : (ConnOpen(i)' <=> ConnOpen(i)) /\ (ChanOpen(i)' <=> ChanOpen(i))
            /\ conns'[connection].listeners > 0
            /\ conns'[channel].chanListeners > 0
        BY <1>6, <3>2, <3>4, Registered DEF ConnOpen, ChanOpen
      <3>6. ConnOpen(connection) => connection' \in Attended'
        BY <2>1, <3>2, <3>5 DEF Attended
      <3>7. ConnOpen(connection) \/ Timer
              \/ \E s \in tasks \ {t} : /\ s.kind = "reconnect"
                                          /\ s.at \in {"channel", "prefetch"} /\ s.on = connection
        <4>1. CASE ~Heard
          BY <2>2, <2>4, <4>1
        <4>2. CASE Heard
          <5>1. ConnectionGuarded
            BY <2>1, <4>2 DEF Guarded
          <5>2. connection \in Attended => ConnOpen(connection)
            BY DEF Attended
          <5> QED BY <2>2, <3>2, <5>1, <5>2 DEF ConnectionGuarded, Pursued
        <4> QED BY <4>1, <4>2
      <3>8. ConnectionGuarded'
        BY <2>1, <3>1, <3>2, <3>3, <3>6, <3>7 DEF ConnectionGuarded, Pursued
      <3>9. ChanOpen(channel) \/ Timer
              \/ \E s \in tasks \ {t} : /\ s.kind = "reconnect"
                                          /\ s.at = "prefetch" /\ s.on = channel
        <4>1. CASE ~Heard
          BY <2>2, <2>4, <4>1
        <4>2. CASE Heard
          <5>1. ChannelGuarded
            BY <2>1, <4>2 DEF Guarded
          <5> QED BY <2>2, <3>2, <5>1 DEF ChannelGuarded, Pursued
        <4> QED BY <4>1, <4>2
      <3>10. ChannelGuarded'
        BY <2>1, <3>1, <3>2, <3>3, <3>5, <3>9 DEF ChannelGuarded, Pursued
      <3> QED BY <3>8, <3>10
    <2> QED BY <2>5, <2>6
  <1>7. ASSUME NEW t \in tasks, SetupExchanges(t) \/ SetupQueues(t) PROVE Guarded'
    <2>1. UNCHANGED <<conns, connection, channel, stopping>> /\ tasks \ {t} \subseteq tasks'
      BY <1>7 DEF SetupExchanges, SetupQueues, Fail, Move
    <2>2. (gaveUp => gaveUp') /\ (Timer => Timer' \/ gaveUp')
      BY <1>7, TaskFails DEF SetupExchanges, SetupQueues, KeepTimers, Timer
    <2>3. t.at \notin {"dial", "channel", "prefetch"}
      BY <1>7 DEF SetupExchanges, SetupQueues
    <2> QED BY <2>1, <2>2, <2>3, GuardsKept DEF SameListeners, Ids, ConnOpen, ChanOpen
  <1>8. ASSUME NEW i \in Ids, ConnectionDies(i) \/ ChannelDies(i)
        PROVE  Guarded'
    <2> SUFFICES ASSUME Heard', ~isShuttingDown', ~gaveUp'
                 PROVE  ConnectionGuarded' /\ ChannelGuarded'
      BY DEF Guarded
    <2>1. SameListeners
      BY <1>8, ListenersOf DEF ConnectionDies, ChannelDies
    <2>2. UNCHANGED <<connection, tasks, stopping>> /\ ~isShuttingDown
      BY <1>8 DEF ConnectionDies, ChannelDies, isShuttingDown
    <2>3. conns[i].listeners \in Nat
      <3>1. conns[i] \in Conn
        BY ElementOfSeq DEF Ids, TypeOK
      <3> QED BY <3>1 DEF Conn
    <2>4. /\ gaveUp => gaveUp'
          /\ Timer => Timer'
          /\ ConnectionDies(i) /\ conns[i].listeners > 0 => Timer'
      BY <1>8, <2>2, <2>3, Scheduled DEF ConnectionDies, ChannelDies, KeepTimers, Timer
    <2>5. ConnectionGuarded /\ ChannelGuarded
      BY <2>1, <2>2, <2>4, HeardKept DEF Guarded
    <2>6. \A j \in Ids : j # i => /\ ConnOpen(j)' <=> ConnOpen(j)
                                  /\ ChanOpen(j)' <=> ChanOpen(j)
      <3>1. conns \in [Ids -> Conn]
        BY LenProperties DEF Ids, TypeOK
      <3> QED BY <1>8, <3>1 DEF ConnectionDies, ChannelDies, ConnOpen, ChanOpen
    <2>7. ChannelDies(i) => (ConnOpen(i)' <=> ConnOpen(i))
      <3> SUFFICES ASSUME ChannelDies(i) PROVE ConnOpen(i)' <=> ConnOpen(i)
        OBVIOUS
      <3> DEFINE c == [conns[i] EXCEPT !.chan = "closed"]
      <3>1. conns \in Seq(Conn) /\ conns' = [conns EXCEPT ![i].chan = "closed"]
        BY DEF ChannelDies, TypeOK
      <3>2. conns[i] \in Conn
        BY <3>1, ElementOfSeq DEF Ids
      <3>3. c \in Conn /\ conns' = [conns EXCEPT ![i] = c]
        BY <3>1, ConnTyped
      <3>4. c.state = conns[i].state
        BY <3>2 DEF Conn
      <3>5. conns'[i] = c
        <4> HIDE DEF c
        <4> QED BY <3>1, <3>3, ConnChanged
      <3> QED BY <3>4, <3>5 DEF ConnOpen
    <2>8. connection \in Attended => connection' \in Attended' \/ Timer'
      <3> SUFFICES ASSUME connection \in Attended, ~Timer'
                   PROVE  connection' \in Attended'
        OBVIOUS
      <3>1. connection \in Ids /\ ConnOpen(connection) /\ conns[connection].listeners > 0
        BY DEF Attended
      <3>2. /\ connection' = connection /\ Ids' = Ids
            /\ conns'[connection].listeners > 0
        BY <2>1, <2>2, <3>1 DEF SameListeners
      <3>3. CASE connection = i
        <4>1. ConnOpen(i)'
          BY <1>8, <2>4, <2>7, <3>1, <3>3
        <4> QED BY <3>1, <3>2, <3>3, <4>1 DEF Attended, ConnOpen
      <3>4. CASE connection # i
        <4>1. conns'[connection].state = "open"
          BY <2>6, <3>1, <3>4 DEF ConnOpen
        <4> QED BY <3>1, <3>2, <4>1 DEF Attended, ConnOpen
      <3> QED BY <3>3, <3>4
    <2>9. \A points, j : Pursued(points, j)' <=> Pursued(points, j)
      BY <2>2 DEF Pursued
    <2>10. ConnectionGuarded'
      BY <2>2, <2>4, <2>5, <2>8, <2>9 DEF ConnectionGuarded
    <2>11. /\ channel' \in {0, channel}
           /\ ChanOpen(i) /\ conns[i].chanListeners > 0 => channel' = 0
      BY <1>8, <2>2 DEF ConnectionDies, ChannelDies, Hear, ChanOpen
    <2>12. channel = 0 \/ channel \in Ids
      BY DEF TypeOK
    <2>13. ChannelGuarded'
      BY <2>1, <2>4, <2>5, <2>6, <2>9, <2>11, <2>12 DEF ChannelGuarded, SameListeners
    <2> QED BY <2>10, <2>13
  <1>9. CASE Shutdown \/ CloseChannel \/ CloseConnection
    BY <1>9 DEF Shutdown, ShutdownWith, CloseChannel, CloseConnection, StopAt, Guarded,
                isShuttingDown
  <1>10. CASE UNCHANGED vars
    BY <1>10 DEF vars, Guarded, Heard, Ids, isShuttingDown, ConnectionGuarded, ChannelGuarded,
                 Timer, Attended, ConnOpen, ChanOpen, Pursued
  <1> QED BY <1>1, <1>2, <1>3, <1>4, <1>5, <1>6, <1>7, <1>8, <1>9, <1>10 DEF Next, TaskStep

-----------------------------------------------------------------------------
(***************************************************************************)
(* Closing.                                                                *)
(***************************************************************************)
LEMMA ClosingStep ==
  ASSUME Typed, Beginnings, Closing, [Next]_vars
  PROVE  Closing'
  <1> USE DEF Typed
  <1>1. CASE Initialize \/ TimerFires
    BY <1>1 DEF Initialize, TimerFires, Closing, isShuttingDown, Ids
  <1>2. ASSUME NEW t \in tasks, TaskStep(t) PROVE Closing'
    <2>1. ~cleanStop /\ UNCHANGED <<cleanStop, stopping, target>>
      BY <1>2 DEF Closing, TaskStep, Dial, DialFails, CreateChannel, Register, SetupExchanges,
                  SetupQueues, AwaitRejected
    <2>2. Ids \subseteq Ids'
      <3>1. CASE Dial(t)
        BY <3>1, ConnsMade DEF Dial, Conn, TypeOK
      <3>2. CASE CreateChannel(t)
        <4>1. t.on \in Ids
          BY <3>2 DEF CreateChannel, TypeOK
        <4> QED BY <3>2, <4>1, ListenersOf DEF CreateChannel, SameListeners
      <3>3. CASE Register(t)
        BY <3>3, Registered
      <3>4. CASE DialFails(t) \/ SetupExchanges(t) \/ SetupQueues(t) \/ AwaitRejected(t)
        BY <3>4 DEF DialFails, SetupExchanges, SetupQueues, AwaitRejected, Ids
      <3> QED BY <1>2, <3>1, <3>2, <3>3, <3>4 DEF TaskStep
    <2> QED BY <2>1, <2>2 DEF Closing
  <1>3. ASSUME NEW i \in Ids, ConnectionDies(i) \/ ChannelDies(i)
        PROVE  Closing'
    <2>1. conns \in [Ids -> Conn]
      BY LenProperties DEF Ids, TypeOK
    <2>2. Ids' = Ids
      BY <1>3, ListenersOf DEF ConnectionDies, ChannelDies, SameListeners
    <2>3. \A j \in Ids : ConnOpen(j)' => ConnOpen(j)
      BY <1>3, <2>1 DEF ConnectionDies, ChannelDies, ConnOpen, Conn
    <2>4. UNCHANGED <<connection, tasks, stopping, target, cleanStop>>
      BY <1>3 DEF ConnectionDies, ChannelDies
    <2>5. isShuttingDown => UNCHANGED <<latest, older>>
      BY <1>3 DEF ConnectionDies, ChannelDies, KeepTimers
    <2> QED BY <2>2, <2>3, <2>4, <2>5 DEF Closing, isShuttingDown
  <1>4. CASE Shutdown
    <2>1. UNCHANGED <<conns, connection, tasks, older>> /\ Ids' = Ids
      BY <1>4 DEF Shutdown, ShutdownWith, Ids
    <2>2. \A i \in Ids : ConnOpen(i)' <=> ConnOpen(i)
      BY <2>1 DEF ConnOpen
    <2>3. CASE IfChan(channel) # 0
      <3>1. stopping' = "channel" /\ target' \in Ids
        BY <1>4, <2>3 DEF Shutdown, ShutdownWith, StopAt, IfChan, TypeOK
      <3> QED BY <1>4, <2>1, <2>2, <3>1
              DEF Shutdown, ShutdownWith, Closing, isShuttingDown, Strays
    <2>4. CASE IfChan(channel) = 0 /\ IfConn(connection) # 0
      <3>1. stopping' = "connection" /\ target' = connection /\ connection \in Ids
        BY <1>4, <2>4 DEF Shutdown, ShutdownWith, StopAt, IfConn, TypeOK
      <3> QED BY <1>4, <2>1, <2>2, <3>1
              DEF Shutdown, ShutdownWith, Closing, isShuttingDown, Strays
    <2>5. CASE IfChan(channel) = 0 /\ IfConn(connection) = 0
      <3>1. stopping' = "done"
        BY <1>4, <2>5 DEF Shutdown, ShutdownWith, StopAt
      <3>2. 0 \notin Ids
        BY DEF Ids
      <3> QED BY <1>4, <2>1, <2>2, <2>5, <3>1, <3>2
              DEF Shutdown, ShutdownWith, Closing, isShuttingDown, Strays, IfConn
    <2> QED BY <2>3, <2>4, <2>5
  <1>5. CASE CloseChannel \/ CloseConnection
    <2>1. conns \in [Ids -> Conn] /\ target \in Ids
      BY <1>5, LenProperties DEF Ids, TypeOK, Closing, CloseChannel, CloseConnection
    <2>2. Ids' = Ids
      BY <1>5, <2>1, ListenersOf DEF CloseChannel, CloseConnection, SameListeners
    <2>3. UNCHANGED <<tasks, latest, older, cleanStop>>
      BY <1>5 DEF CloseChannel, CloseConnection, KeepTimers
    <2>4. CASE CloseChannel
      <3>1. \A j \in Ids : ConnOpen(j)' <=> ConnOpen(j)
        BY <2>1, <2>4 DEF CloseChannel, ConnOpen, Conn
      <3>2. 0 \notin Ids /\ connection \in Ids \cup {0}
        BY DEF Ids, TypeOK
      <3>3. IF IfConn(connection) # 0
            THEN stopping' = "connection" /\ target' = connection
            ELSE stopping' = "done"
        BY <2>4, <3>2 DEF CloseChannel, StopAt, IfConn
      <3> QED BY <2>2, <2>3, <2>4, <3>1, <3>2, <3>3
              DEF CloseChannel, Closing, isShuttingDown, IfConn
    <2>5. CASE CloseConnection
      <3>1. \A j \in Ids : ConnOpen(j)' => ConnOpen(j) /\ j # target
        BY <2>1, <2>5 DEF CloseConnection, ConnOpen, Conn
      <3>2. stopping' = "done" /\ stopping = "connection"
        BY <2>5 DEF CloseConnection, StopAt
      <3> QED BY <2>2, <2>3, <3>1, <3>2 DEF Closing, isShuttingDown
    <2> QED BY <1>5, <2>4, <2>5
  <1>6. CASE UNCHANGED vars
    BY <1>6 DEF vars, Closing, Ids, ConnOpen, isShuttingDown
  <1> QED BY <1>1, <1>2, <1>3, <1>4, <1>5, <1>6 DEF Next

-----------------------------------------------------------------------------
(***************************************************************************)
(* The results.                                                            *)
(***************************************************************************)
THEOREM InvariantHolds == Spec => []IInv
  <1>1. IInv /\ [Next]_vars => IInv'
    <2> SUFFICES ASSUME IInv, [Next]_vars PROVE IInv'
      OBVIOUS
    <2>1. Typed /\ Beginnings /\ Guarded /\ Closing
      BY TypedIsTyped DEF IInv
    <2> QED BY <2>1, TypeStep, BeginningsStep, GuardedStep, ClosingStep DEF IInv
  <1> QED BY <1>1, InitIInv, PTL DEF Spec

(***************************************************************************)
(* Type correctness.                                                       *)
(***************************************************************************)
THEOREM TypeCorrect == Spec => []TypeOK
  <1>1. IInv => TypeOK
    BY DEF IInv
  <1> QED BY <1>1, InvariantHolds, PTL

(***************************************************************************)
(* Once set up, the service listens to a live connection, reconnects, has  *)
(* run out of attempts, or is shutting down.                               *)
(***************************************************************************)
THEOREM OutagesAreNoticed == Spec => []OutageIsNoticed
  <1>1. IInv => OutageIsNoticed
    <2> SUFFICES ASSUME IInv, ready, Attended = {}, ~isShuttingDown, ~gaveUp
                 PROVE  Recovering
      BY DEF OutageIsNoticed
    <2>1. ConnectionGuarded
      BY DEF IInv, Beginnings, Guarded
    <2> QED BY <2>1 DEF ConnectionGuarded, Timer, Pursued, Recovering
  <1> QED BY <1>1, InvariantHolds, PTL

(***************************************************************************)
(* publish and send find no dead channel in this.channel once its close    *)
(* event has been heard, but for the time a reconnect takes.  (They may    *)
(* find none at all: a channel that died alone is not replaced.)           *)
(***************************************************************************)
THEOREM DeadChannelsAreDropped == Spec => []DeadChannelIsDropped
  <1>1. IInv => DeadChannelIsDropped
    <2> SUFFICES ASSUME IInv, ready, channel # 0, ~ChanOpen(channel), ~isShuttingDown, ~gaveUp
                 PROVE  Recovering
      BY DEF DeadChannelIsDropped
    <2>1. ChannelGuarded
      BY DEF IInv, Beginnings, Guarded
    <2> QED BY <2>1 DEF ChannelGuarded, Timer, Pursued, Recovering
  <1> QED BY <1>1, InvariantHolds, PTL

(***************************************************************************)
(* A shutdown that finds nothing under way leaves nothing behind.          *)
(***************************************************************************)
THEOREM ShutdownIsClean == Spec => []CleanShutdown
  <1>1. IInv => CleanShutdown
    BY DEF IInv, Closing, CleanShutdown, Recovering
  <1> QED BY <1>1, InvariantHolds, PTL
=============================================================================
