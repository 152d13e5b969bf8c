--------------------------- MODULE AgentSide_proofs ---------------------------
(***************************************************************************)
(* Proofs about the services around the agents, as MCAgentSide composes    *)
(* them, for every value of its constants.                                 *)
(***************************************************************************)
EXTENDS MCAgentSide, FiniteSetTheorems, TLAPS


(***************************************************************************)
(* The inductive invariant: the properties, and how many timers a          *)
(* connection can have by now, each event of its socket starting one.  A   *)
(* connection that is open has none, which is why none removes it.         *)
(***************************************************************************)
TimersFollowEvents ==
  \A c \in MoreIds :
    /\ socket[c] \in {"new", "open"} => timers[c] = 0
    /\ socket[c] = "failed" => timers[c] <= 1
    /\ socket[c] = "new" => c \notin connections

SocketInv == WebSocket!TypeOK /\ WebSocket!KeepsTheLiving /\ TimersFollowEvents

LEMMA SocketInit == WebSocket!Init => SocketInv
  <1> SUFFICES ASSUME WebSocket!Init PROVE SocketInv
    OBVIOUS
  <1>1. WebSocket!TypeOK
    <2>1. timers \in [MoreIds -> 0..2] /\ socket \in [MoreIds -> {"new"}]
      BY DEF WebSocket!Init
    <2> QED BY <2>1 DEF WebSocket!Init, WebSocket!TypeOK
  <1>2. WebSocket!KeepsTheLiving /\ TimersFollowEvents
    BY DEF WebSocket!Init, WebSocket!KeepsTheLiving, TimersFollowEvents
  <1> QED BY <1>1, <1>2 DEF SocketInv

(* A reconnection takes one timer, the one the map knows, from each of the *)
(* user's connections that have one.                                       *)
LEMMA ConnectKeeps ==
  ASSUME SocketInv, NEW c \in MoreIds, WebSocket!Connect(c) PROVE SocketInv'
  <1>1. /\ WebSocket!Cancelled(c) \subseteq pending \cap connections
        /\ \A d \in WebSocket!Cancelled(c) : timers[d] > 0
        /\ c \notin WebSocket!Cancelled(c)
    BY DEF SocketInv, WebSocket!TypeOK, TimersFollowEvents, WebSocket!Connect,
           WebSocket!Cancelled
  <1>2. \A d \in MoreIds :
          timers'[d] = IF d \in WebSocket!Cancelled(c) THEN timers[d] - 1 ELSE timers[d]
    BY DEF SocketInv, WebSocket!TypeOK, WebSocket!Connect
  <1>3. WebSocket!TypeOK'
    <2>1. timers' \in [MoreIds -> 0..2]
      <3>1. \A d \in MoreIds : timers'[d] \in 0..2
        BY <1>1, <1>2 DEF SocketInv, WebSocket!TypeOK
      <3> QED BY <3>1 DEF WebSocket!Connect
    <2>2. pending' \subseteq {d \in MoreIds : timers'[d] > 0}
      BY <1>2 DEF SocketInv, WebSocket!TypeOK, WebSocket!Connect
    <2> QED BY <1>1, <2>1, <2>2 DEF SocketInv, WebSocket!TypeOK, WebSocket!Connect
  <1>4. WebSocket!KeepsTheLiving'
    BY <1>1, <1>2
    DEF SocketInv, WebSocket!TypeOK, WebSocket!KeepsTheLiving, TimersFollowEvents,
        WebSocket!Connect
  <1>5. TimersFollowEvents'
    BY <1>1, <1>2
    DEF SocketInv, WebSocket!TypeOK, TimersFollowEvents, WebSocket!Connect
  <1> QED BY <1>3, <1>4, <1>5 DEF SocketInv

LEMMA SocketNext == SocketInv /\ [WebSocket!Next]_socketVars => SocketInv'
  <1> SUFFICES ASSUME SocketInv, [WebSocket!Next]_socketVars PROVE SocketInv'
    OBVIOUS
  <1>1. ASSUME NEW c \in MoreIds, WebSocket!SocketFails(c) PROVE SocketInv'
    <2>1. WebSocket!TypeOK'
      BY <1>1
      DEF SocketInv, WebSocket!TypeOK, TimersFollowEvents, WebSocket!SocketFails,
          WebSocket!Disconnected
    <2>2. WebSocket!KeepsTheLiving' /\ TimersFollowEvents'
      BY <1>1
      DEF SocketInv, WebSocket!TypeOK, WebSocket!KeepsTheLiving,
          TimersFollowEvents, WebSocket!SocketFails, WebSocket!Disconnected
    <2> QED BY <2>1, <2>2 DEF SocketInv
  <1>2. ASSUME NEW c \in MoreIds, WebSocket!SocketCloses(c) PROVE SocketInv'
    <2>1. WebSocket!TypeOK'
      BY <1>2
      DEF SocketInv, WebSocket!TypeOK, TimersFollowEvents, WebSocket!SocketCloses,
          WebSocket!Disconnected
    <2>2. WebSocket!KeepsTheLiving' /\ TimersFollowEvents'
      BY <1>2
      DEF SocketInv, WebSocket!TypeOK, WebSocket!KeepsTheLiving,
          TimersFollowEvents, WebSocket!SocketCloses, WebSocket!Disconnected
    <2> QED BY <2>1, <2>2 DEF SocketInv
  <1>3. ASSUME NEW c \in MoreIds, WebSocket!GraceEnds(c) PROVE SocketInv'
    <2>1. WebSocket!TypeOK'
      BY <1>3
      DEF SocketInv, WebSocket!TypeOK, WebSocket!GraceEnds, WebSocket!Finalized
    <2>2. WebSocket!KeepsTheLiving' /\ TimersFollowEvents'
      BY <1>3
      DEF SocketInv, WebSocket!TypeOK, WebSocket!KeepsTheLiving,
          TimersFollowEvents, WebSocket!GraceEnds, WebSocket!Finalized
    <2> QED BY <2>1, <2>2 DEF SocketInv
  <1>4. ASSUME WebSocket!Shutdown PROVE SocketInv'
    <2>1. \A c \in MoreIds :
            timers'[c] = IF c \in pending THEN timers[c] - 1 ELSE timers[c]
      BY <1>4 DEF SocketInv, WebSocket!TypeOK, WebSocket!Shutdown
    <2>2. WebSocket!TypeOK'
      <3>1. \A c \in MoreIds : timers'[c] \in 0..2
        BY <2>1 DEF SocketInv, WebSocket!TypeOK
      <3> QED BY <1>4, <3>1 DEF SocketInv, WebSocket!TypeOK, WebSocket!Shutdown
    <2>3. WebSocket!KeepsTheLiving' /\ TimersFollowEvents'
      BY <1>4, <2>1
      DEF SocketInv, WebSocket!TypeOK, WebSocket!KeepsTheLiving,
          TimersFollowEvents, WebSocket!Shutdown
    <2> QED BY <2>2, <2>3 DEF SocketInv
  <1>5. CASE UNCHANGED socketVars
    BY <1>5
    DEF SocketInv, WebSocket!TypeOK, WebSocket!KeepsTheLiving, TimersFollowEvents,
        socketVars
  <1> QED BY ConnectKeeps, <1>1, <1>2, <1>3, <1>4, <1>5 DEF WebSocket!Next

-----------------------------------------------------------------------------

(***************************************************************************)
(* The inductive invariant: the properties, and that no event is left      *)
(* without its timer also for streams not created yet.                     *)
(***************************************************************************)
NothingUnsaid == \A s \in MoreIds : unsaid[s] # "update"

StreamInv == EventStream!TypeOK /\ EventStream!TimersHaveStreams /\ NothingUnsaid

LEMMA StreamInit == EventStream!Init => StreamInv
  BY DEF EventStream!Init, StreamInv, EventStream!TypeOK,
         EventStream!TimersHaveStreams, NothingUnsaid

(* A stream that goes, as cleanupStream and unsubscribe leave it.          *)
LEMMA CleanupKeeps ==
  ASSUME StreamInv, NEW gone \in SUBSET kept, EventStream!Cleanup(gone),
         ended' \in {ended, ended \cup gone},
         UNCHANGED <<manager, created, unsaid, orphaned>>
  PROVE  StreamInv'
  <1>1. EventStream!TypeOK'
    BY DEF StreamInv, EventStream!TypeOK, EventStream!Cleanup
  <1>2. EventStream!TimersHaveStreams'
    <2>1. heartbeat' = kept' /\ kept' \cap ended' = {}
      BY DEF StreamInv, EventStream!TypeOK, EventStream!TimersHaveStreams,
             EventStream!Cleanup
    <2>2. ASSUME NEW s \in MoreIds
          PROVE  /\ s \in kept' => idle'[s] = "set" /\ unsaid'[s] # "update"
                 /\ s \notin kept' => idle'[s] = "off" \/ s \in orphaned'
      BY DEF StreamInv, EventStream!TypeOK, EventStream!TimersHaveStreams,
             EventStream!Cleanup
    <2> QED BY <2>1, <2>2 DEF EventStream!TimersHaveStreams
  <1>3. NothingUnsaid'
    BY DEF StreamInv, NothingUnsaid
  <1> QED BY <1>1, <1>2, <1>3 DEF StreamInv

(* A stream whose idle timer starts again.                                 *)
LEMMA ResetKeeps ==
  ASSUME StreamInv, NEW s \in MoreIds, NEW event \in {"update", "broadcast"},
         EventStream!Reset(s, event)
  PROVE  /\ idle' \in [MoreIds -> {"off", "set", "fired"}]
         /\ unsaid' \in [MoreIds -> {"none", "update", "broadcast"}]
         /\ idle'[s] = "set" /\ \A t \in MoreIds \ {s} : idle'[t] = idle[t]
         /\ NothingUnsaid'
  BY DEF StreamInv, EventStream!TypeOK, NothingUnsaid, EventStream!Reset

LEMMA StreamNext == StreamInv /\ [EventStream!Next]_streamVars => StreamInv'
  <1> SUFFICES ASSUME StreamInv, [EventStream!Next]_streamVars PROVE StreamInv'
    OBVIOUS
  <1>1. ASSUME NEW s \in MoreIds, EventStream!Create(s) PROVE StreamInv'
    <2>1. EventStream!TypeOK'
      BY <1>1 DEF StreamInv, EventStream!TypeOK, EventStream!Create
    <2>2. EventStream!TimersHaveStreams' /\ NothingUnsaid'
      BY <1>1
      DEF StreamInv, EventStream!TypeOK, EventStream!TimersHaveStreams,
          NothingUnsaid, EventStream!Create
    <2> QED BY <2>1, <2>2 DEF StreamInv
  <1>2. ASSUME NEW s \in MoreIds, EventStream!Push(s) PROVE StreamInv'
    <2>1. EventStream!TypeOK'
      BY <1>2, ResetKeeps DEF StreamInv, EventStream!TypeOK, EventStream!Push
    <2>2. EventStream!TimersHaveStreams' /\ NothingUnsaid'
      BY <1>2, ResetKeeps
      DEF StreamInv, EventStream!TimersHaveStreams, NothingUnsaid, EventStream!Push
    <2> QED BY <2>1, <2>2 DEF StreamInv
  <1>3. ASSUME NEW s \in MoreIds, EventStream!WriteFails(s) PROVE StreamInv'
    BY <1>3, CleanupKeeps, {s} \in SUBSET kept
    DEF EventStream!WriteFails, EventStream!Drop
  <1>4. ASSUME NEW s \in MoreIds, EventStream!NotifyFails(s) PROVE StreamInv'
    <2>1. EventStream!TypeOK'
      BY <1>4, ResetKeeps DEF StreamInv, EventStream!TypeOK, EventStream!NotifyFails
    <2>2. EventStream!TimersHaveStreams' /\ NothingUnsaid'
      BY <1>4, ResetKeeps
      DEF StreamInv, EventStream!TypeOK, EventStream!TimersHaveStreams,
          NothingUnsaid, EventStream!NotifyFails
    <2> QED BY <2>1, <2>2 DEF StreamInv
  <1>5. ASSUME NEW s \in MoreIds, EventStream!Broadcast(s) PROVE StreamInv'
    BY <1>5
    DEF StreamInv, EventStream!TypeOK, EventStream!TimersHaveStreams,
        NothingUnsaid, EventStream!Broadcast
  <1>6. ASSUME NEW s \in MoreIds, EventStream!Close(s) PROVE StreamInv'
    BY <1>6, CleanupKeeps, {s} \in SUBSET kept DEF EventStream!Close
  <1>7. ASSUME NEW s \in MoreIds, EventStream!ClientLeaves(s) PROVE StreamInv'
    BY <1>7, CleanupKeeps, {s} \in SUBSET kept
    DEF EventStream!ClientLeaves, EventStream!Drop
  <1>8. ASSUME NEW s \in MoreIds, EventStream!IdleFires(s) PROVE StreamInv'
    <2>1. CASE s \in kept
      BY <1>8, <2>1, CleanupKeeps, {s} \in SUBSET kept DEF EventStream!IdleFires
    <2>2. CASE s \notin kept
      BY <1>8, <2>2
      DEF StreamInv, EventStream!TypeOK, EventStream!TimersHaveStreams,
          NothingUnsaid, EventStream!IdleFires
    <2> QED BY <2>1, <2>2
  <1>9. ASSUME EventStream!Shutdown PROVE StreamInv'
    BY <1>9, CleanupKeeps DEF EventStream!Shutdown
  <1>10. CASE UNCHANGED streamVars
    BY <1>10
    DEF StreamInv, EventStream!TypeOK, EventStream!TimersHaveStreams,
        NothingUnsaid, streamVars
  <1> QED BY <1>1, <1>2, <1>3, <1>4, <1>5, <1>6, <1>7, <1>8, <1>9, <1>10
          DEF EventStream!Next

-----------------------------------------------------------------------------
(***************************************************************************)
(* AgentPlatform.  The invariant behind an even share: since the list of   *)
(* candidates last changed, every one of them has been picked q times, and *)
(* those in the stretch of the list from where the index then stood to     *)
(* where it stands now, around its end, once more.                         *)
(***************************************************************************)
LEMMA DivMod ==
  ASSUME NEW r \in Nat, NEW n \in Nat \ {0}
  PROVE  r = n * (r \div n) + (r % n) /\ r % n \in 0..(n - 1) /\ r \div n \in Nat
  OBVIOUS

(* The next number is the next one around the circle.                      *)
LEMMA NextMod ==
  ASSUME NEW r \in Nat, NEW n \in Nat \ {0}
  PROVE  (r + 1) % n = IF r % n = n - 1 THEN 0 ELSE (r % n) + 1
  <1>1. PICK q \in Nat, m \in 0..(n - 1) : r = n * q + m /\ m = r % n
    BY DivMod
  <1>2. PICK p \in Nat, k \in 0..(n - 1) : r + 1 = n * p + k /\ k = (r + 1) % n
    BY DivMod, r + 1 \in Nat
  <1>3. n * (p - q) = 1 + m - k
    BY <1>1, <1>2
  <1>4. p - q < 2
    <2>1. p - q >= 2 => n * (p - q) >= n * 2
      OBVIOUS
    <2> QED BY <2>1, <1>3
  <1>5. p - q > -1
    <2>1. p - q <= -1 => n * (p - q) <= n * (-1)
      OBVIOUS
    <2> QED BY <2>1, <1>3
  <1>6. 1 + m - k = 0 \/ 1 + m - k = n
    <2>1. p - q = 0 \/ p - q = 1
      BY <1>4, <1>5
    <2>2. n * 0 = 0 /\ n * 1 = n
      OBVIOUS
    <2> QED BY <2>1, <2>2, <1>3
  <1>7. m = r % n /\ k = (r + 1) % n
    BY <1>1, <1>2
  <1>8. k = IF m = n - 1 THEN 0 ELSE m + 1
    BY <1>6
  <1> QED BY <1>7, <1>8

LEMMA PlatformCardinality == \A S : Platform!Cardinality(S) = Cardinality(S)
  BY DEF Platform!Cardinality, Cardinality

Registered == {a \in MoreIds : agent[a].status # "none"}

Ordered ==
  /\ \A i, j \in DOMAIN instances : instances[i] = instances[j] => i = j
  /\ Registered = {instances[i] : i \in DOMAIN instances}

Count(t) == Cardinality(Platform!Candidates(t))
Place(t, a) == Platform!Rank(a, Platform!Candidates(t))

(* Is place i in the stretch from s to p.                                  *)
Between(s, p, i) == IF s <= p THEN s <= i /\ i < p ELSE s <= i \/ i < p

Shared(t) ==
  Platform!Candidates(t) # {} =>
    \E s \in 0..(Count(t) - 1), q \in Nat : \A a \in Platform!Candidates(t) :
      picks[t][a] = IF Between(s, roundRobin[t] % Count(t), Place(t, a)) THEN q + 1 ELSE q

PlatformInv ==
  /\ Platform!TypeOK
  /\ Ordered
  /\ \A t \in Types, a \in MoreIds : picks[t][a] <= roundRobin[t]
  /\ \A t \in Types : Shared(t)

LEMMA PlatformInit ==
  ASSUME Platform!PlatformAssumption, Platform!Init PROVE PlatformInv
  <1>1. Platform!TypeOK
    BY DEF Platform!Init, Platform!TypeOK, Platform!Nobody, Platform!Statuses,
           Platform!NoPicks, Platform!PlatformAssumption
  <1>2. \A a \in MoreIds : agent[a].status = "none"
    BY DEF Platform!Init, Platform!Nobody
  <1>3. Ordered
    BY <1>2 DEF Platform!Init, Ordered, Registered
  <1>4. \A t \in Types : Platform!Candidates(t) = {}
    BY <1>2 DEF Platform!Candidates
  <1>5. \A t \in Types, a \in MoreIds : picks[t][a] <= roundRobin[t]
    BY DEF Platform!Init, Platform!NoPicks
  <1> QED BY <1>1, <1>3, <1>4, <1>5 DEF PlatformInv, Shared

(* Candidates have places of their own, from 0 on.                         *)
LEMMA Places ==
  ASSUME Platform!PlatformAssumption, Platform!TypeOK, Ordered, NEW t \in Types
  PROVE  /\ Count(t) \in Nat
         /\ Platform!Candidates(t) # {} => Count(t) > 0
         /\ \A a \in Platform!Candidates(t) : Place(t, a) \in 0..(Count(t) - 1)
         /\ \A a, b \in Platform!Candidates(t) : Place(t, a) = Place(t, b) => a = b
  <1> DEFINE C == Platform!Candidates(t)
             Before(a) == {b \in C : Platform!Position(b) < Platform!Position(a)}
  <1>1. IsFiniteSet(C) /\ C \subseteq Registered
    <2>1. IsFiniteSet(MoreIds)
      BY DEF Platform!PlatformAssumption, Platform!IsFiniteSet, IsFiniteSet
    <2>2. C \subseteq MoreIds /\ C \subseteq Registered
      BY DEF Platform!Candidates, Registered
    <2> QED BY <2>1, <2>2, FS_Subset
  <1>2. \A a \in C : /\ Platform!Position(a) \in Nat
                     /\ instances[Platform!Position(a)] = a
    <2> SUFFICES ASSUME NEW a \in C
                 PROVE  /\ Platform!Position(a) \in Nat
                        /\ instances[Platform!Position(a)] = a
      OBVIOUS
    <2>1. \E i \in DOMAIN instances : instances[i] = a
      BY <1>1 DEF Ordered
    <2>2. DOMAIN instances \subseteq Nat
      BY DEF Platform!TypeOK
    <2> QED BY <2>1, <2>2 DEF Platform!Position
  <1>3. \A a, b \in C : Platform!Position(a) = Platform!Position(b) => a = b
    BY <1>2
  <1>4. \A a \in C : Place(t, a) = Cardinality(Before(a))
    BY PlatformCardinality DEF Place, Platform!Rank
  <1> HIDE DEF C
  <1>5. \A a \in C : /\ IsFiniteSet(Before(a))
                     /\ Cardinality(Before(a)) \in Nat
                     /\ Cardinality(Before(a) \cup {a}) = Cardinality(Before(a)) + 1
    <2> SUFFICES ASSUME NEW a \in C
                 PROVE  /\ IsFiniteSet(Before(a))
                        /\ Cardinality(Before(a)) \in Nat
                        /\ Cardinality(Before(a) \cup {a}) = Cardinality(Before(a)) + 1
      OBVIOUS
    <2>1. IsFiniteSet(Before(a))
      BY <1>1, FS_Subset, Before(a) \in SUBSET C
    <2>2. a \notin Before(a)
      BY <1>2
    <2> QED BY <2>1, <2>2, FS_CardinalityType, FS_AddElement
  <1>6. \A a \in C : Before(a) \cup {a} \in SUBSET C
    OBVIOUS
  <1>7. \A a, b \in C : Platform!Position(a) < Platform!Position(b) =>
          Before(a) \cup {a} \in SUBSET Before(b)
    BY <1>2
  <1> HIDE DEF Before
  <1>13. \A a \in C : Cardinality(Before(a)) + 1 <= Cardinality(C)
    <2> SUFFICES ASSUME NEW a \in C PROVE Cardinality(Before(a)) + 1 <= Cardinality(C)
      OBVIOUS
    <2>1. Cardinality(Before(a) \cup {a}) <= Cardinality(C)
      BY <1>1, <1>6, FS_Subset
    <2> QED BY <1>5, <2>1
  <1>14. \A a, b \in C : Platform!Position(a) < Platform!Position(b) =>
          Cardinality(Before(a)) + 1 <= Cardinality(Before(b))
    <2> SUFFICES ASSUME NEW a \in C, NEW b \in C,
                        Platform!Position(a) < Platform!Position(b)
                 PROVE  Cardinality(Before(a)) + 1 <= Cardinality(Before(b))
      OBVIOUS
    <2>1. Cardinality(Before(a) \cup {a}) <= Cardinality(Before(b))
      BY <1>5, <1>7, FS_Subset
    <2> QED BY <1>5, <2>1
  <1>8. Cardinality(C) \in Nat /\ (C # {} => Cardinality(C) > 0)
    BY <1>1, FS_CardinalityType, FS_EmptySet
  <1> DEFINE N(a) == Cardinality(Before(a))
  <1>9. \A a \in C : N(a) \in Nat /\ N(a) + 1 <= Cardinality(C)
    BY <1>5, <1>13
  <1>10. \A a, b \in C : Platform!Position(a) < Platform!Position(b) => N(a) + 1 <= N(b)
    BY <1>14
  <1>15. Count(t) = Cardinality(C) /\ \A a \in C : Place(t, a) = N(a)
    BY <1>4 DEF Count, C
  <1> HIDE DEF N
  <1>11. \A a \in C : Place(t, a) \in 0..(Count(t) - 1)
    BY <1>8, <1>9, <1>15
  <1>12. \A a, b \in C : Place(t, a) = Place(t, b) => a = b
    <2> SUFFICES ASSUME NEW a \in C, NEW b \in C, N(a) = N(b)
                 PROVE  a = b
      BY <1>15
    <2>1. ~(N(a) + 1 <= N(b)) /\ ~(N(b) + 1 <= N(a))
      BY <1>9
    <2>2. ~(Platform!Position(a) < Platform!Position(b))
      BY <2>1, <1>10
    <2>3. ~(Platform!Position(b) < Platform!Position(a))
      BY <2>1, <1>10
    <2> QED BY <2>2, <2>3, <1>2, <1>3
  <1> QED BY <1>8, <1>15, <1>11, <1>12 DEF C

(* One step around a circle of n places, seen from where the stretch       *)
(* began: the place left joins the stretch, which is empty again when it   *)
(* has come all the way round.                                             *)
LEMMA Circle ==
  ASSUME NEW n \in Nat \ {0}, NEW s \in 0..(n - 1), NEW p \in 0..(n - 1),
         NEW i \in 0..(n - 1), NEW next \in 0..(n - 1),
         next = IF p = n - 1 THEN 0 ELSE p + 1
  PROVE  /\ ~Between(s, p, p)
         /\ next = s => (Between(s, p, i) \/ i = p) /\ ~Between(s, next, i)
         /\ next # s => (Between(s, next, i) <=> (Between(s, p, i) \/ i = p))
  <1>1. ~Between(s, p, p)
    BY DEF Between
  <1>2. CASE p = n - 1
    <2>1. next = 0
      BY <1>2
    <2> QED BY <1>1, <1>2, <2>1 DEF Between
  <1>3. CASE p # n - 1
    <2>1. next = p + 1
      BY <1>3
    <2> QED BY <1>1, <1>3, <2>1 DEF Between
  <1> QED BY <1>2, <1>3

LEMMA RouteKeeps ==
  ASSUME Platform!PlatformAssumption, PlatformInv, NEW t0 \in Types, Platform!Route(t0)
  PROVE  PlatformInv'
  <1> DEFINE C(t) == Platform!Candidates(t)
             r == roundRobin[t0]
             n == Count(t0)
  <1>1. /\ Platform!TypeOK
        /\ Ordered
        /\ \A t \in Types, a \in MoreIds : picks[t][a] <= roundRobin[t]
        /\ \A t \in Types : Shared(t)
    BY DEF PlatformInv
  <1>2. PICK selected \in C(t0) :
          /\ Place(t0, selected) = r % n
          /\ picks' = [picks EXCEPT ![t0][selected] = @ + 1]
    BY PlatformCardinality DEF Platform!Route, Place, Count
  <1>3. /\ roundRobin' = [roundRobin EXCEPT ![t0] = @ + 1]
        /\ r < MaxRoutes
        /\ UNCHANGED <<instances, agent, definitions>>
    BY DEF Platform!Route, Platform!Advanced
  <1>4. \A t \in Types : C(t)' = C(t)
    BY <1>3 DEF Platform!Candidates
  <1>5. \A t \in Types : Count(t)' = Count(t)
    BY <1>4 DEF Count
  <1>6. \A t \in Types : \A a \in C(t) : Place(t, a)' = Place(t, a)
    BY <1>3 DEF Place, Platform!Rank, Platform!Position, Platform!Candidates
  <1>7. Ordered' /\ selected \in MoreIds
    BY <1>1, <1>2, <1>3 DEF Ordered, Registered, Platform!Candidates
  <1>8. /\ MaxRoutes \in Nat
        /\ roundRobin \in [Types -> 0..MaxRoutes]
        /\ picks \in [Types -> [MoreIds -> 0..MaxRoutes]]
    BY <1>1 DEF Platform!TypeOK, Platform!PlatformAssumption
  <1>9. /\ roundRobin' \in [Types -> 0..MaxRoutes]
        /\ roundRobin'[t0] = r + 1
        /\ \A t \in Types \ {t0} : roundRobin'[t] = roundRobin[t]
    BY <1>3, <1>8
  <1> DEFINE x == picks[t0][selected]
  <1>10. x \in 0..MaxRoutes /\ x <= r /\ r \in 0..MaxRoutes
    BY <1>1, <1>7, <1>8
  <1>11. /\ picks' \in [Types -> [MoreIds -> 0..MaxRoutes]]
         /\ picks'[t0][selected] = x + 1
         /\ \A a \in MoreIds \ {selected} : picks'[t0][a] = picks[t0][a]
         /\ \A t \in Types \ {t0} : picks'[t] = picks[t]
    <2>1. picks' = [picks EXCEPT ![t0] = [picks[t0] EXCEPT ![selected] = x + 1]]
      BY <1>2, <1>7, <1>8
    <2>2. x + 1 \in 0..MaxRoutes
      BY <1>3, <1>8, <1>10
    <2>3. picks[t0] \in [MoreIds -> 0..MaxRoutes]
      BY <1>8
    <2> DEFINE y == x + 1
    <2> HIDE DEF y, x
    <2> QED BY <2>1, <2>2, <2>3, <1>7, <1>8 DEF y
  <1>12. Platform!TypeOK'
    BY <1>1, <1>3, <1>9, <1>11 DEF Platform!TypeOK
  <1>13. \A t \in Types, a \in MoreIds : picks'[t][a] <= roundRobin'[t]
    <2> SUFFICES ASSUME NEW t \in Types, NEW a \in MoreIds
                 PROVE  picks'[t][a] <= roundRobin'[t]
      OBVIOUS
    <2>1. CASE t # t0
      BY <1>1, <1>9, <1>11, <2>1
    <2>2. CASE t = t0 /\ a # selected
      <3>1. picks'[t][a] = picks[t0][a] /\ roundRobin'[t] = r + 1
        BY <1>9, <1>11, <2>2
      <3>2. picks[t0][a] <= r /\ picks[t0][a] \in Nat
        BY <1>1, <1>8
      <3> QED BY <3>1, <3>2, <1>10
    <2>3. CASE t = t0 /\ a = selected
      BY <1>9, <1>10, <1>11, <2>3
    <2> QED BY <2>1, <2>2, <2>3
  <1> HIDE DEF x
  <1>14. \A t \in Types \ {t0} : Shared(t)'
    <2> SUFFICES ASSUME NEW t \in Types \ {t0}, C(t) # {}
                 PROVE  \E s \in 0..(Count(t) - 1), q \in Nat : \A a \in C(t) :
                          picks'[t][a] = IF Between(s, roundRobin'[t] % Count(t), Place(t, a)) THEN q + 1 ELSE q
      BY <1>4, <1>5, <1>6 DEF Shared, Between
    <2>1. picks'[t] = picks[t] /\ roundRobin'[t] = roundRobin[t]
      BY <1>9, <1>11
    <2> QED BY <1>1, <2>1 DEF Shared
  <1>15. /\ n \in Nat \ {0}
         /\ \A a \in C(t0) : Place(t0, a) \in 0..(n - 1)
         /\ \A a, b \in C(t0) : Place(t0, a) = Place(t0, b) => a = b
    BY <1>1, <1>2, Places
  <1> DEFINE p == r % n
             next == (r + 1) % n
  <1>16. /\ p \in 0..(n - 1)
         /\ next \in 0..(n - 1)
         /\ next = IF p = n - 1 THEN 0 ELSE p + 1
    <2>1. r \in Nat /\ r + 1 \in Nat
      BY <1>10
    <2> HIDE DEF r, n
    <2> QED BY <2>1, <1>15, DivMod, NextMod
  <1>17. PICK s \in 0..(n - 1), q \in Nat : \A a \in C(t0) :
           picks[t0][a] = IF Between(s, p, Place(t0, a)) THEN q + 1 ELSE q
    BY <1>1, <1>2 DEF Shared
  <1>18. /\ Place(t0, selected) = p
         /\ \A a \in C(t0) : Place(t0, a) = p => a = selected
    BY <1>2, <1>15
  <1>19. roundRobin'[t0] % Count(t0) = next
    BY <1>9
  <1> HIDE DEF p, next, r, n
  <1>20. x = q
    <2>1. ~Between(s, p, p)
      BY <1>15, <1>16, Circle
    <2> QED BY <2>1, <1>2, <1>17, <1>18 DEF x
  <1>21. \A a \in C(t0) : picks'[t0][a] = IF Between(s, p, Place(t0, a)) \/ Place(t0, a) = p THEN q + 1 ELSE q
    <2> SUFFICES ASSUME NEW a \in C(t0)
                 PROVE  picks'[t0][a] = IF Between(s, p, Place(t0, a)) \/ Place(t0, a) = p THEN q + 1 ELSE q
      OBVIOUS
    <2>1. CASE a = selected
      BY <2>1, <1>11, <1>18, <1>20
    <2>2. CASE a # selected
      <3>1. a \in MoreIds
        BY DEF Platform!Candidates
      <3> QED BY <2>2, <3>1, <1>11, <1>17, <1>18
    <2> QED BY <2>1, <2>2
  <1>22. \E s2 \in 0..(n - 1), q2 \in Nat : \A a \in C(t0) :
           picks'[t0][a] = IF Between(s2, next, Place(t0, a)) THEN q2 + 1 ELSE q2
    <2>1. \A a \in C(t0) :
            /\ next = s => (Between(s, p, Place(t0, a)) \/ Place(t0, a) = p) /\ ~Between(s, next, Place(t0, a))
            /\ next # s => (Between(s, next, Place(t0, a)) <=> (Between(s, p, Place(t0, a)) \/ Place(t0, a) = p))
      BY <1>15, <1>16, Circle
    <2>2. CASE next = s
      <3>1. \A a \in C(t0) : picks'[t0][a] = IF Between(s, next, Place(t0, a)) THEN (q + 1) + 1 ELSE q + 1
        BY <2>1, <2>2, <1>21
      <3>2. q + 1 \in Nat
        OBVIOUS
      <3> QED BY <3>1, <3>2
    <2>3. CASE next # s
      <3>1. \A a \in C(t0) : picks'[t0][a] = IF Between(s, next, Place(t0, a)) THEN q + 1 ELSE q
        BY <2>1, <2>3, <1>21
      <3> QED BY <3>1
    <2> QED BY <2>2, <2>3
  <1>23. Shared(t0)'
    BY <1>4, <1>5, <1>6, <1>19, <1>22 DEF Shared, Between, n
  <1> QED BY <1>7, <1>12, <1>13, <1>14, <1>23 DEF PlatformInv

(* A step that routes nothing: where the candidates stay the same, so do   *)
(* their places and the history; where they change, the history is empty   *)
(* and the stretch begins where the index stands.                          *)
LEMMA RecountKeeps ==
  ASSUME Platform!PlatformAssumption, PlatformInv, Platform!TypeOK', Ordered',
         UNCHANGED roundRobin, Platform!Recount,
         \A a \in Registered : Platform!Position(a)' = Platform!Position(a)
  PROVE  PlatformInv'
  <1> DEFINE C(t) == Platform!Candidates(t)
  <1>1. /\ Platform!TypeOK
        /\ Ordered
        /\ \A t \in Types, a \in MoreIds : picks[t][a] <= roundRobin[t]
        /\ \A t \in Types : Shared(t)
    BY DEF PlatformInv
  <1>2. \A t \in Types : picks'[t] = IF C(t)' = C(t) THEN picks[t] ELSE Platform!NoPicks
    BY DEF Platform!Recount
  <1>3. \A t \in Types, a \in MoreIds : picks'[t][a] <= roundRobin'[t]
    <2> SUFFICES ASSUME NEW t \in Types, NEW a \in MoreIds
                 PROVE  picks'[t][a] <= roundRobin[t]
      OBVIOUS
    <2>1. roundRobin[t] \in Nat
      BY <1>1 DEF Platform!TypeOK
    <2>2. CASE C(t)' = C(t)
      BY <1>1, <1>2, <2>2
    <2>3. CASE C(t)' # C(t)
      <3>1. picks'[t][a] = 0
        BY <1>2, <2>3 DEF Platform!NoPicks
      <3> QED BY <2>1, <3>1
    <2> QED BY <2>2, <2>3
  <1>4. ASSUME NEW t \in Types PROVE Shared(t)'
    <2>1. CASE C(t)' = C(t)
      <3>1. Count(t)' = Count(t)
        BY <2>1 DEF Count
      <3>2. C(t) \subseteq Registered
        BY <1>1 DEF Platform!Candidates, Registered
      <3>3. \A a \in C(t) : Platform!Position(a)' = Platform!Position(a)
        BY <3>2
      <3>4. \A a \in C(t) : Place(t, a)' = Place(t, a)
        <4> SUFFICES ASSUME NEW a \in C(t) PROVE Place(t, a)' = Place(t, a)
          OBVIOUS
        <4>1. {b \in C(t)' : Platform!Position(b)' < Platform!Position(a)'}
                = {b \in C(t) : Platform!Position(b) < Platform!Position(a)}
          BY <2>1, <3>3
        <4> QED BY <4>1, PlatformCardinality DEF Place, Platform!Rank
      <3>5. picks'[t] = picks[t]
        BY <1>2, <2>1
      <3> DEFINE sharedAt(s, q) == \A a \in C(t) :
             picks'[t][a] = IF Between(s, roundRobin'[t] % Count(t), Place(t, a)) THEN q + 1 ELSE q
      <3>6. C(t) # {} => \E s \in 0..(Count(t) - 1), q \in Nat : sharedAt(s, q)
        BY <1>1, <3>5 DEF Shared
      <3> QED BY <2>1, <3>1, <3>4, <3>6 DEF Shared, Between
    <2>2. CASE C(t)' # C(t)
      <3>1. SUFFICES ASSUME C(t)' # {}
                     PROVE  \E s \in 0..(Count(t)' - 1), q \in Nat : \A a \in C(t)' :
                              picks'[t][a] = IF Between(s, roundRobin'[t] % Count(t)', Place(t, a)') THEN q + 1 ELSE q
        BY DEF Shared, Between
      <3>7. IsFiniteSet(C(t)')
        <4>1. IsFiniteSet(MoreIds)
          BY DEF Platform!PlatformAssumption, Platform!IsFiniteSet, IsFiniteSet
        <4>2. C(t)' \in SUBSET MoreIds
          BY DEF Platform!Candidates
        <4> QED BY <4>1, <4>2, FS_Subset
      <3>2. Count(t)' \in Nat \ {0}
        <4> DEFINE D == C(t)'
        <4>1. Count(t)' = Cardinality(D)
          BY DEF Count
        <4> HIDE DEF D
        <4>2. D # {} /\ IsFiniteSet(D)
          BY <3>1, <3>7 DEF D
        <4> QED BY <4>1, <4>2, FS_CardinalityType, FS_EmptySet
      <3>8. \A a \in C(t)' : Place(t, a)' \in Nat
        <4> SUFFICES ASSUME NEW a \in C(t)' PROVE Place(t, a)' \in Nat
          OBVIOUS
        <4> DEFINE B == {b \in C(t)' : Platform!Position(b)' < Platform!Position(a)'}
        <4>1. Place(t, a)' = Cardinality(B)
          BY PlatformCardinality DEF Place, Platform!Rank
        <4>2. IsFiniteSet(B)
          BY <3>7, FS_Subset, B \in SUBSET C(t)'
        <4> HIDE DEF B
        <4> QED BY <4>1, <4>2, FS_CardinalityType
      <3>3. \A a \in C(t)' : picks'[t][a] = 0
        BY <1>2, <2>2 DEF Platform!Candidates, Platform!NoPicks
      <3> DEFINE s == roundRobin'[t] % Count(t)'
      <3>4. s \in 0..(Count(t)' - 1)
        <4>1. roundRobin'[t] \in Nat
          BY <1>1 DEF Platform!TypeOK
        <4> DEFINE r == roundRobin'[t]
                   n == Count(t)'
        <4>2. r \in Nat /\ n \in Nat \ {0}
          BY <3>2, <4>1
        <4> HIDE DEF r, n
        <4>3. r % n \in 0..(n - 1)
          BY <4>2, DivMod
        <4> QED BY <4>3 DEF r, n
      <3>5. Count(t)' \in Int /\ s \in Int
        BY <3>2, <3>4
      <3> HIDE DEF s
      <3>6. \A a \in C(t)' : picks'[t][a] = IF Between(s, s, Place(t, a)') THEN 0 + 1 ELSE 0
        <4>1. \A i \in Nat : Between(s, s, i) = FALSE
          <5> TAKE i \in Nat
          <5> QED BY <3>5 DEF Between
        <4> QED BY <3>3, <3>8, <4>1
      <3> QED BY <3>4, <3>6 DEF s
    <2> QED BY <2>1, <2>2
  <1> QED BY <1>3, <1>4 DEF PlatformInv

LEMMA PlatformNext ==
  ASSUME Platform!PlatformAssumption, PlatformInv, [Platform!Next]_platformVars
  PROVE  PlatformInv'
  <1>1. /\ Platform!TypeOK
        /\ Ordered
        /\ MaxRoutes \in Nat
    BY DEF PlatformInv, Platform!PlatformAssumption
  <1>2. /\ instances \in Seq(MoreIds)
        /\ agent \in [MoreIds -> [definition : Definitions, status : Platform!Statuses \cup {"none"}]]
        /\ definitions \in [Definitions -> Types \cup {"none"}]
        /\ roundRobin \in [Types -> 0..MaxRoutes]
        /\ picks \in [Types -> [MoreIds -> 0..MaxRoutes]]
    BY <1>1 DEF Platform!TypeOK
  <1>3. Platform!Recount => picks' \in [Types -> [MoreIds -> 0..MaxRoutes]]
    <2> SUFFICES ASSUME Platform!Recount PROVE picks' \in [Types -> [MoreIds -> 0..MaxRoutes]]
      OBVIOUS
    <2> DEFINE same(t) == Platform!Candidates(t)' = Platform!Candidates(t)
    <2>1. picks' = [t \in Types |-> IF same(t) THEN picks[t] ELSE Platform!NoPicks]
      BY DEF Platform!Recount
    <2>2. Platform!NoPicks \in [MoreIds -> 0..MaxRoutes]
      BY <1>1 DEF Platform!NoPicks
    <2> HIDE DEF same
    <2> QED BY <1>2, <2>1, <2>2
  <1>4. ASSUME NEW a \in MoreIds, NEW d \in Definitions, NEW t \in Types, Platform!Register(a, d, t)
        PROVE  PlatformInv'
    <2>1. /\ agent[a].status = "none"
          /\ instances' = Append(instances, a)
          /\ agent' = [agent EXCEPT ![a] = [definition |-> d, status |-> "registered"]]
          /\ definitions' = [definitions EXCEPT ![d] = t]
          /\ UNCHANGED roundRobin
          /\ Platform!Recount
      BY <1>4 DEF Platform!Register
    <2>2. Platform!TypeOK'
      <3>1. agent' \in [MoreIds -> [definition : Definitions, status : Platform!Statuses \cup {"none"}]]
        BY <1>2, <2>1 DEF Platform!Statuses
      <3>2. instances' \in Seq(MoreIds) /\ definitions' \in [Definitions -> Types \cup {"none"}]
        BY <1>2, <2>1
      <3> QED BY <1>2, <1>3, <2>1, <3>1, <3>2 DEF Platform!TypeOK
    <2>3. a \notin {instances[i] : i \in DOMAIN instances}
      BY <1>1, <2>1 DEF Ordered, Registered
    <2>4. /\ DOMAIN instances = 1..Len(instances)
          /\ DOMAIN instances' = 1..(Len(instances) + 1)
          /\ Len(instances) \in Nat
          /\ \A i \in DOMAIN instances : instances'[i] = instances[i]
          /\ instances'[Len(instances) + 1] = a
      BY <1>2, <2>1
    <2>5. Ordered'
      <3>1. \A i, j \in DOMAIN instances' : instances'[i] = instances'[j] => i = j
        <4> SUFFICES ASSUME NEW i \in DOMAIN instances', NEW j \in DOMAIN instances',
                            instances'[i] = instances'[j]
                     PROVE  i = j
          OBVIOUS
        <4>1. CASE i \in DOMAIN instances /\ j \in DOMAIN instances
          BY <1>1, <2>4, <4>1 DEF Ordered
        <4>2. CASE i \in DOMAIN instances /\ j \notin DOMAIN instances
          <5>1. j = Len(instances) + 1
            BY <2>4, <4>2
          <5> QED BY <2>3, <2>4, <4>2, <5>1
        <4>3. CASE i \notin DOMAIN instances /\ j \in DOMAIN instances
          <5>1. i = Len(instances) + 1
            BY <2>4, <4>3
          <5> QED BY <2>3, <2>4, <4>3, <5>1
        <4>4. CASE i \notin DOMAIN instances /\ j \notin DOMAIN instances
          BY <2>4, <4>4
        <4> QED BY <4>1, <4>2, <4>3, <4>4
      <3>2. {instances'[i] : i \in DOMAIN instances'} = {instances[i] : i \in DOMAIN instances} \cup {a}
        <4>1. DOMAIN instances' = DOMAIN instances \cup {Len(instances) + 1}
          BY <2>4
        <4> QED BY <2>4, <4>1
      <3>3. Registered' = Registered \cup {a}
        BY <1>2, <2>1 DEF Registered
      <3> QED BY <1>1, <3>1, <3>2, <3>3 DEF Ordered
    <2>6. \A b \in Registered : Platform!Position(b)' = Platform!Position(b)
      <3> SUFFICES ASSUME NEW b \in Registered
                   PROVE  Platform!Position(b)' = Platform!Position(b)
        OBVIOUS
      <3>1. PICK i \in DOMAIN instances : instances[i] = b
        BY <1>1 DEF Ordered
      <3>2. \A j \in DOMAIN instances : instances[j] = b <=> j = i
        BY <1>1, <3>1 DEF Ordered
      <3>3. \A j \in DOMAIN instances' : instances'[j] = b <=> j = i
        BY <2>4, <2>5, <3>1 DEF Ordered
      <3>4. i \in DOMAIN instances'
        BY <2>4
      <3>5. Platform!Position(b) = i
        BY <3>2 DEF Platform!Position
      <3>6. Platform!Position(b)' = i
        BY <3>3, <3>4 DEF Platform!Position
      <3> QED BY <3>5, <3>6
    <2> QED BY <2>1, <2>2, <2>5, <2>6, RecountKeeps
  <1>5. ASSUME UNCHANGED instances, UNCHANGED roundRobin, Platform!Recount, Registered' = Registered,
               agent' \in [MoreIds -> [definition : Definitions, status : Platform!Statuses \cup {"none"}]],
               definitions' \in [Definitions -> Types \cup {"none"}]
        PROVE  PlatformInv'
    <2>1. Platform!TypeOK'
      BY <1>2, <1>3, <1>5 DEF Platform!TypeOK
    <2>2. Ordered'
      BY <1>1, <1>5 DEF Ordered
    <2>3. \A b \in Registered : Platform!Position(b)' = Platform!Position(b)
      BY <1>5 DEF Platform!Position
    <2> QED BY <1>5, <2>1, <2>2, <2>3, RecountKeeps
  <1>6. ASSUME NEW a \in MoreIds, NEW t \in Types, Platform!Update(a, t)
        PROVE  PlatformInv'
    <2>1. /\ definitions' = [definitions EXCEPT ![agent[a].definition] = t]
          /\ UNCHANGED <<instances, agent, roundRobin>>
          /\ Platform!Recount
      BY <1>6 DEF Platform!Update
    <2>2. definitions' \in [Definitions -> Types \cup {"none"}] /\ Registered' = Registered
      BY <1>2, <2>1 DEF Registered
    <2> QED BY <1>2, <1>5, <2>1, <2>2
  <1>7. ASSUME NEW a \in MoreIds, NEW op \in {"start", "pause", "stop"}, Platform!Change(a, op)
        PROVE  PlatformInv'
    <2> DEFINE target == Platform!Target(op, agent[a].status)
    <2>1. /\ <<agent[a].status, target>> \in Platform!Valid
          /\ agent' = [agent EXCEPT ![a].status = target]
          /\ UNCHANGED <<instances, definitions, roundRobin>>
          /\ Platform!Recount
      BY <1>7 DEF Platform!Change
    <2>2. /\ target \in Platform!Statuses /\ target # "none"
          /\ agent[a].status # "none"
      BY <2>1 DEF Platform!Valid, Platform!Statuses
    <2> HIDE DEF target
    <2>3. agent' \in [MoreIds -> [definition : Definitions, status : Platform!Statuses \cup {"none"}]]
      BY <1>2, <2>1, <2>2
    <2>4. \A b \in MoreIds : agent'[b].status # "none" <=> agent[b].status # "none"
      BY <1>2, <2>1, <2>2
    <2>5. Registered' = Registered
      BY <2>4 DEF Registered
    <2> QED BY <1>2, <1>5, <2>1, <2>3, <2>5
  <1>8. CASE UNCHANGED platformVars
    <2>1. UNCHANGED <<instances, agent, definitions, roundRobin, picks>>
      BY <1>8 DEF platformVars
    <2>2. Platform!TypeOK' /\ Ordered'
      BY <1>1, <2>1 DEF Platform!TypeOK, Ordered, Registered
    <2>3. \A t \in Types : Platform!Candidates(t)' = Platform!Candidates(t)
      BY <2>1 DEF Platform!Candidates
    <2>4. \A t \in Types : Count(t)' = Count(t)
      BY <2>3 DEF Count
    <2>5. \A t \in Types, a \in MoreIds : Place(t, a)' = Place(t, a)
      BY <2>1 DEF Place, Platform!Rank, Platform!Position, Platform!Candidates
    <2>6. \A t \in Types : Shared(t)'
      <3>1. \A t \in Types : Platform!Candidates(t) \subseteq MoreIds
        BY DEF Platform!Candidates
      <3> QED BY <2>1, <2>3, <2>4, <2>5, <3>1 DEF PlatformInv, Shared, Between
    <2> QED BY <2>1, <2>2, <2>6 DEF PlatformInv
  <1> QED BY <1>4, <1>6, <1>7, <1>8, RouteKeeps DEF Platform!Next

LEMMA PlatformShares ==
  ASSUME Platform!PlatformAssumption, PlatformInv PROVE Platform!FairShare
  <1> SUFFICES ASSUME NEW t \in Types, NEW a \in Platform!Candidates(t), NEW b \in Platform!Candidates(t)
               PROVE  picks[t][a] <= picks[t][b] + 1
    BY DEF Platform!FairShare
  <1>1. PICK q \in Nat : picks[t][a] \in {q, q + 1} /\ picks[t][b] \in {q, q + 1}
    BY DEF PlatformInv, Shared
  <1> QED BY <1>1

-----------------------------------------------------------------------------
(***************************************************************************)
(* ToolRegistry, with any executor: the sandboxes only decide when an      *)
(* execution may end.                                                      *)
(***************************************************************************)
(***************************************************************************)
(* The inductive invariant: the types, the cause of a stale list, and what *)
(* the local variables of a call say of the table.  A list that was read   *)
(* and not stored yet is the table's unless something was committed since; *)
(* what an invocation will find at its second lookup is nothing, what it   *)
(* found at its first, or something registered since it began.             *)
(***************************************************************************)
Findable(l) ==
  \/ ToolServices!Registry!Active[l.name] = 0
  \/ ToolServices!Registry!Active[l.name] = l.current
  \/ ToolServices!Registry!Active[l.name] > l.begun

GoodCall(l) ==
  /\ l.begun <= clock
  /\ l.at = "idle" => l.runs = 0
  /\ l.at \in {"lookup", "execute"} => l.name \in ToolNames
  /\ l.at = "fill" =>
       /\ l.readAt <= clock
       /\ l.readAt = clock => l.list = ToolServices!Registry!Active
  /\ l.at = "lookup" => l.runs = 0 /\ l.checked = l.current /\ Findable(l)
  /\ l.runs # 0 => l.checked = l.current /\ (l.runs = l.current \/ l.runs > l.begun)

RegistryInv ==
  /\ ToolServices!Registry!TypeOK
  /\ \A c \in Ids : GoodCall(call[c])
  /\ ToolServices!Registry!StaleListHasACause

CallLogs == [Ids -> {"none", "pending", "written", "lost"}]

LEMMA ActiveType ==
  ASSUME rows \in [ToolNames -> ToolServices!Registry!Rows]
  PROVE  ToolServices!Registry!Active \in ToolServices!Registry!Lists
  BY DEF ToolServices!Registry!Active, ToolServices!Registry!Lists,
         ToolServices!Registry!Rows

LEMMA HoldingType ==
  ASSUME NEW list \in ToolServices!Registry!Lists, NEW raced \in BOOLEAN
  PROVE  ToolServices!Registry!Holding(list, raced) \in ToolServices!Registry!Cached
  BY DEF ToolServices!Registry!Holding, ToolServices!Registry!Cached

LEMMA AbsentType == ToolServices!Registry!Absent \in ToolServices!Registry!Cached
  <1>1. ToolServices!Registry!Empty \in ToolServices!Registry!Lists
    BY DEF ToolServices!Registry!Empty, ToolServices!Registry!Lists
  <1> QED BY <1>1 DEF ToolServices!Registry!Absent, ToolServices!Registry!Cached

LEMMA MissedType ==
  ASSUME cache \in ToolServices!Registry!Cached
  PROVE  [cache EXCEPT !.missed = cache.held] \in ToolServices!Registry!Cached
  BY DEF ToolServices!Registry!Cached

LEMMA MovedType ==
  ASSUME NEW l \in ToolServices!Registry!Locals, NEW point \in ToolServices!Registry!Points
  PROVE  [l EXCEPT !.at = point] \in ToolServices!Registry!Locals
  BY DEF ToolServices!Registry!Locals

(* Init: no call has begun, and a list that is held is the table's.        *)
LEMMA RegistryInit == ToolServices!Registry!Init => RegistryInv
  <1> SUFFICES ASSUME ToolServices!Registry!Init PROVE RegistryInv
    OBVIOUS
  <1>1. rows \in [ToolNames -> ToolServices!Registry!Rows]
    BY DEF ToolServices!Registry!Init, ToolServices!Registry!NoRow,
           ToolServices!Registry!Definition, ToolServices!Registry!Schemas,
           ToolServices!Registry!Rows
  <1>2. cache \in ToolServices!Registry!Cached
    BY <1>1, ActiveType, AbsentType, HoldingType DEF ToolServices!Registry!Init
  <1>3. ToolServices!Registry!Fresh \in ToolServices!Registry!Locals
    <2>1. ToolServices!Registry!Empty \in ToolServices!Registry!Lists
      BY DEF ToolServices!Registry!Empty, ToolServices!Registry!Lists
    <2> QED BY <2>1
            DEF ToolServices!Registry!Fresh, ToolServices!Registry!Locals,
                ToolServices!Registry!Points, ToolServices!Registry!Answers
  <1>4. \A c \in Ids : call[c] = ToolServices!Registry!Fresh
    BY DEF ToolServices!Registry!Init
  <1>5. \A c \in Ids : GoodCall(call[c])
    <2>1. /\ ToolServices!Registry!Fresh.begun = 0
          /\ ToolServices!Registry!Fresh.at = "idle"
          /\ ToolServices!Registry!Fresh.runs = 0
          /\ clock = 1
      BY DEF ToolServices!Registry!Init, ToolServices!Registry!Fresh
    <2>2. GoodCall(ToolServices!Registry!Fresh)
      BY <2>1 DEF GoodCall
    <2> QED BY <1>4, <2>2
  <1>6. ToolServices!Registry!StaleListHasACause
    <2>1. cache.held => cache.list = ToolServices!Registry!Active
      <3>1. CASE cache = ToolServices!Registry!Absent
        BY <3>1 DEF ToolServices!Registry!Absent
      <3>2. CASE cache = ToolServices!Registry!Holding(ToolServices!Registry!Active, FALSE)
        BY <3>2 DEF ToolServices!Registry!Holding
      <3> QED BY <3>1, <3>2 DEF ToolServices!Registry!Init
    <2> QED BY <2>1 DEF ToolServices!Registry!StaleListHasACause
  <1>7. \A c \in Ids : call[c].at \in {"lookup", "execute"} => call[c].name \in ToolNames
    BY <1>5 DEF GoodCall
  <1>8. call \in [Ids -> ToolServices!Registry!Locals]
    BY <1>3 DEF ToolServices!Registry!Init
  <1> QED BY <1>1, <1>2, <1>5, <1>6, <1>7, <1>8
          DEF ToolServices!Registry!Init, RegistryInv, ToolServices!Registry!TypeOK

(***************************************************************************)
(* A step of a call that commits nothing: what is left to show is that its *)
(* own local variables stay good and that a stale list keeps its cause.    *)
(***************************************************************************)
LEMMA RegistryLocalStep ==
  ASSUME RegistryInv, NEW c \in Ids, NEW new \in ToolServices!Registry!Locals,
         call' = [call EXCEPT ![c] = new], GoodCall(new),
         UNCHANGED <<rows, clock, executor>>, cache' \in ToolServices!Registry!Cached,
         toolCalls' \in CallLogs, faults' \in Nat, ToolServices!Registry!StaleListHasACause'
  PROVE  RegistryInv'
  <1>1. /\ call' \in [Ids -> ToolServices!Registry!Locals]
        /\ \A d \in Ids : call'[d] = IF d = c THEN new ELSE call[d]
    BY DEF RegistryInv, ToolServices!Registry!TypeOK
  <1>2. ToolServices!Registry!Active' = ToolServices!Registry!Active
    BY DEF ToolServices!Registry!Active
  <1>3. \A d \in Ids : GoodCall(call[d])'
    <2> SUFFICES ASSUME NEW d \in Ids PROVE GoodCall(call[d])'
      OBVIOUS
    <2>1. CASE d = c
      BY <1>1, <1>2, <2>1 DEF GoodCall, Findable
    <2>2. CASE d # c
      BY <1>1, <1>2, <2>2 DEF RegistryInv, GoodCall, Findable
    <2> QED BY <2>1, <2>2
  <1>4. ToolServices!Registry!TypeOK'
    BY <1>1, <1>3 DEF RegistryInv, ToolServices!Registry!TypeOK, GoodCall, CallLogs
  <1> QED BY <1>3, <1>4 DEF RegistryInv

(* A call that was not about to delete the list takes no cause away.       *)
LEMMA CauseStays ==
  ASSUME RegistryInv, NEW c \in Ids, NEW new \in ToolServices!Registry!Locals,
         call[c].at # "invalidate",
         call' = [call EXCEPT ![c] = new], UNCHANGED <<rows, cache>>
  PROVE  ToolServices!Registry!StaleListHasACause'
  <1>1. \A d \in Ids : call'[d] = IF d = c THEN new ELSE call[d]
    BY DEF RegistryInv, ToolServices!Registry!TypeOK
  <1>2. ToolServices!Registry!Active' = ToolServices!Registry!Active
    BY DEF ToolServices!Registry!Active
  <1> QED BY <1>1, <1>2 DEF RegistryInv, ToolServices!Registry!StaleListHasACause

LEMMA RegistryQuietStep ==
  ASSUME RegistryInv, NEW c \in Ids, NEW new \in ToolServices!Registry!Locals,
         call[c].at # "invalidate",
         call' = [call EXCEPT ![c] = new], GoodCall(new),
         UNCHANGED <<rows, clock, executor, cache>>,
         toolCalls' \in CallLogs, faults' \in Nat
  PROVE  RegistryInv'
  <1>1. cache' \in ToolServices!Registry!Cached
    BY DEF RegistryInv, ToolServices!Registry!TypeOK
  <1>2. ToolServices!Registry!StaleListHasACause'
    BY CauseStays
  <1> QED BY <1>1, <1>2, RegistryLocalStep

(* The end of a call, by returning or by throwing, changes no other local. *)
LEMMA GoodAtTheEnd ==
  ASSUME NEW l \in ToolServices!Registry!Locals, GoodCall(l),
         NEW point \in {"invalidate", "query"} \cup ToolServices!Registry!Ended
  PROVE  /\ [l EXCEPT !.at = point] \in ToolServices!Registry!Locals
         /\ GoodCall([l EXCEPT !.at = point])
  <1>1. point \in ToolServices!Registry!Points
    BY DEF ToolServices!Registry!Points
  <1>2. GoodCall([l EXCEPT !.at = point])
    BY DEF GoodCall, ToolServices!Registry!Locals, ToolServices!Registry!Ended
  <1> QED BY <1>1, <1>2, MovedType

(***************************************************************************)
(* A commit changes one entry of the active list, to nothing or to a stamp *)
(* no call has seen.                                                       *)
(***************************************************************************)
Commits(n) ==
  /\ clock' = clock + 1
  /\ rows' \in [ToolNames -> ToolServices!Registry!Rows]
  /\ \A m \in ToolNames \ {n} : rows'[m] = rows[m]
  /\ rows'[n].status = "active" => rows'[n].stamp = clock + 1

LEMMA CommitKeeps ==
  ASSUME RegistryInv, NEW n \in ToolNames, Commits(n), NEW c \in Ids,
         NEW point \in {"invalidate", "rejected"}, ToolServices!Registry!Goto(c, point),
         cache' \in ToolServices!Registry!Cached, ToolServices!Registry!StaleListHasACause',
         faults' \in Nat, UNCHANGED <<executor, toolCalls>>
  PROVE  RegistryInv'
  <1> DEFINE moved == [call[c] EXCEPT !.at = point]
  <1>1. moved \in ToolServices!Registry!Locals /\ GoodCall(moved)
    BY GoodAtTheEnd
    DEF RegistryInv, ToolServices!Registry!TypeOK, ToolServices!Registry!Ended
  <1>2. call' = [call EXCEPT ![c] = moved]
    BY DEF ToolServices!Registry!Goto
  <1> HIDE DEF moved
  <1>3. /\ call' \in [Ids -> ToolServices!Registry!Locals]
        /\ \A d \in Ids : call'[d] \in ToolServices!Registry!Locals /\ GoodCall(call'[d])
    BY <1>1, <1>2 DEF RegistryInv, ToolServices!Registry!TypeOK
  <1>4. \A m \in ToolNames :
          \/ ToolServices!Registry!Active'[m] = ToolServices!Registry!Active[m]
          \/ ToolServices!Registry!Active'[m] = 0
          \/ ToolServices!Registry!Active'[m] = clock + 1
    BY DEF ToolServices!Registry!Active, Commits, RegistryInv,
           ToolServices!Registry!TypeOK
  <1>5. \A d \in Ids : GoodCall(call[d])'
    <2> SUFFICES ASSUME NEW d \in Ids PROVE GoodCall(call[d])'
      OBVIOUS
    <2> DEFINE l == call'[d]
    <2>1. /\ GoodCall(l) /\ clock' = clock + 1 /\ clock \in Nat
          /\ l.begun \in Nat /\ l.readAt \in Nat
      BY <1>3
      DEF Commits, RegistryInv, ToolServices!Registry!TypeOK,
          ToolServices!Registry!Locals
    <2>2. l.at = "lookup" =>
            \/ ToolServices!Registry!Active'[l.name] = 0
            \/ ToolServices!Registry!Active'[l.name] = l.current
            \/ ToolServices!Registry!Active'[l.name] > l.begun
      BY <1>4, <2>1 DEF GoodCall, Findable
    <2> HIDE DEF l
    <2>3. /\ l.begun <= clock'
          /\ l.at = "idle" => l.runs = 0
          /\ l.at \in {"lookup", "execute"} => l.name \in ToolNames
          /\ l.at = "fill" => l.readAt <= clock' /\ l.readAt # clock'
          /\ l.at = "lookup" => l.runs = 0 /\ l.checked = l.current
          /\ l.runs # 0 => l.checked = l.current /\ (l.runs = l.current \/ l.runs > l.begun)
      BY <2>1 DEF GoodCall
    <2> QED BY <2>2, <2>3 DEF l, GoodCall, Findable
  <1>6. ToolServices!Registry!TypeOK'
    <2>1. clock' \in Nat /\ rows' \in [ToolNames -> ToolServices!Registry!Rows]
      BY DEF Commits, RegistryInv, ToolServices!Registry!TypeOK
    <2>2. \A d \in Ids : call'[d].at \in {"lookup", "execute"} => call'[d].name \in ToolNames
      BY <1>3 DEF GoodCall
    <2> QED BY <1>3, <2>1, <2>2 DEF RegistryInv, ToolServices!Registry!TypeOK
  <1> QED BY <1>5, <1>6 DEF RegistryInv

(***************************************************************************)
(* A transaction of register or unregister, for any row that keeps to the  *)
(* stamps.                                                                 *)
(***************************************************************************)
LEMMA TransactionKeeps ==
  ASSUME RegistryInv, NEW n \in ToolNames, NEW c \in Ids, call[c].at = "idle",
         NEW row \in ToolServices!Registry!Rows, row.status = "active" => row.stamp = clock + 1,
         ToolServices!Registry!Transaction(c, n, row), UNCHANGED <<executor, toolCalls>>
  PROVE  RegistryInv'
  <1> DEFINE moved(point) == [call[c] EXCEPT !.at = point]
  <1>1. ASSUME NEW point \in {"invalidate"} \cup ToolServices!Registry!Ended,
               ToolServices!Registry!Goto(c, point)
        PROVE  /\ call' = [call EXCEPT ![c] = moved(point)]
               /\ moved(point) \in ToolServices!Registry!Locals /\ GoodCall(moved(point))
               /\ call'[c].at = point
    BY <1>1, GoodAtTheEnd
    DEF ToolServices!Registry!Goto, RegistryInv, ToolServices!Registry!TypeOK,
        ToolServices!Registry!Locals
  <1>2. CASE /\ rows' = [rows EXCEPT ![n] = row] /\ clock' = clock + 1
             /\ ToolServices!Registry!Goto(c, "invalidate") /\ UNCHANGED <<cache, faults>>
    <2>1. Commits(n)
      BY <1>2 DEF Commits, RegistryInv, ToolServices!Registry!TypeOK
    <2>2. ToolServices!Registry!StaleListHasACause'
      BY <1>1, <1>2 DEF ToolServices!Registry!StaleListHasACause
    <2>3. cache' \in ToolServices!Registry!Cached /\ faults' \in Nat
      BY <1>2 DEF RegistryInv, ToolServices!Registry!TypeOK
    <2> QED BY <1>2, <2>1, <2>2, <2>3, CommitKeeps
  <1>3. CASE ToolServices!Registry!Fault /\ ToolServices!Registry!Goto(c, "rejected")
                                         /\ UNCHANGED <<rows, clock, cache>>
    <2>1. toolCalls' \in CallLogs /\ faults' \in Nat
      BY <1>3
      DEF ToolServices!Registry!Fault, RegistryInv, ToolServices!Registry!TypeOK,
          CallLogs
    <2> QED BY <1>1, <1>3, <2>1, RegistryQuietStep DEF ToolServices!Registry!Ended
  <1>4. CASE /\ ToolServices!Registry!Fault
             /\ rows' = [rows EXCEPT ![n] = row]
             /\ clock' = clock + 1
             /\ cache' = [cache EXCEPT !.missed = cache.held]
             /\ ToolServices!Registry!Goto(c, "rejected")
    <2>1. Commits(n) /\ faults' \in Nat
      BY <1>4
      DEF Commits, ToolServices!Registry!Fault, RegistryInv,
          ToolServices!Registry!TypeOK
    <2>2. cache' \in ToolServices!Registry!Cached
      BY <1>4, MissedType DEF RegistryInv, ToolServices!Registry!TypeOK
    <2>3. cache'.held => cache'.missed
      BY <1>4
      DEF RegistryInv, ToolServices!Registry!TypeOK, ToolServices!Registry!Cached
    <2> QED BY <1>4, <2>1, <2>2, <2>3, CommitKeeps
            DEF ToolServices!Registry!StaleListHasACause
  <1> QED BY <1>2, <1>3, <1>4 DEF ToolServices!Registry!Transaction

(* One step per action.  Only a commit changes what the table says, and it *)
(* is the step a list read before it is judged against.                    *)
LEMMA RegistryNext ==
  RegistryInv /\ [ToolServices!Registry!Next]_(ToolServices!Registry!vars) => RegistryInv'
  <1> SUFFICES ASSUME RegistryInv,
                      [ToolServices!Registry!Next]_(ToolServices!Registry!vars)
               PROVE  RegistryInv'
    OBVIOUS
  <1>0. /\ toolCalls \in CallLogs
        /\ faults \in Nat
        /\ cache \in ToolServices!Registry!Cached
        /\ clock \in Nat
        /\ rows \in [ToolNames -> ToolServices!Registry!Rows]
        /\ call \in [Ids -> ToolServices!Registry!Locals]
        /\ ToolServices!Registry!Active \in ToolServices!Registry!Lists
        /\ \A c \in Ids : call[c] \in ToolServices!Registry!Locals /\ GoodCall(call[c])
    BY ActiveType DEF RegistryInv, ToolServices!Registry!TypeOK, CallLogs
  <1> DEFINE moved(c, point) == [call[c] EXCEPT !.at = point]
  <1>a. ASSUME NEW c \in Ids,
               NEW point \in {"invalidate", "query"} \cup ToolServices!Registry!Ended,
               ToolServices!Registry!Goto(c, point)
        PROVE  /\ call' = [call EXCEPT ![c] = moved(c, point)]
               /\ moved(c, point) \in ToolServices!Registry!Locals
               /\ GoodCall(moved(c, point))
    BY <1>a, <1>0, GoodAtTheEnd DEF ToolServices!Registry!Goto
  <1>b. ToolServices!Registry!Fault => faults' \in Nat
    BY <1>0 DEF ToolServices!Registry!Fault
  <1>1. CASE ToolServices!Registry!SetToolExecutor
    <2>1. ToolServices!Registry!Active' = ToolServices!Registry!Active
      BY <1>1
      DEF ToolServices!Registry!SetToolExecutor, ToolServices!Registry!Active
    <2>2. \A c \in Ids : GoodCall(call[c])'
      BY <1>0, <1>1, <2>1
      DEF ToolServices!Registry!SetToolExecutor, GoodCall, Findable
    <2>3. ToolServices!Registry!TypeOK' /\ ToolServices!Registry!StaleListHasACause'
      BY <1>1, <2>1
      DEF ToolServices!Registry!SetToolExecutor, RegistryInv,
          ToolServices!Registry!TypeOK, ToolServices!Registry!StaleListHasACause
    <2> QED BY <2>2, <2>3 DEF RegistryInv
  <1>2. CASE ToolServices!Registry!Expire
    <2>1. ToolServices!Registry!Active' = ToolServices!Registry!Active
      BY <1>2 DEF ToolServices!Registry!Expire, ToolServices!Registry!Active
    <2>2. \A c \in Ids : GoodCall(call[c])'
      BY <1>0, <1>2, <2>1 DEF ToolServices!Registry!Expire, GoodCall, Findable
    <2>3. ToolServices!Registry!TypeOK' /\ ToolServices!Registry!StaleListHasACause'
      <3>1. cache' \in ToolServices!Registry!Cached
        BY <1>2, AbsentType DEF ToolServices!Registry!Expire
      <3>2. ~cache'.held
        BY <1>2 DEF ToolServices!Registry!Expire, ToolServices!Registry!Absent
      <3> QED BY <1>2, <3>1, <3>2
              DEF ToolServices!Registry!Expire, RegistryInv,
                  ToolServices!Registry!TypeOK,
                  ToolServices!Registry!StaleListHasACause
    <2> QED BY <2>2, <2>3 DEF RegistryInv
  <1>3. ASSUME NEW c \in Ids, NEW n \in ToolNames, ToolServices!Registry!Register(c, n)
        PROVE  RegistryInv'
    <2>1. PICK schema \in ToolServices!Registry!Schemas :
            ToolServices!Registry!Transaction(
              c, n, ToolServices!Registry!Definition(clock + 1, schema))
      BY <1>3 DEF ToolServices!Registry!Register
    <2>2. /\ ToolServices!Registry!Definition(clock + 1, schema) \in ToolServices!Registry!Rows
          /\ ToolServices!Registry!Definition(clock + 1, schema).stamp = clock + 1
      BY <1>0 DEF ToolServices!Registry!Definition, ToolServices!Registry!Rows
    <2> QED BY <1>3, <2>1, <2>2, TransactionKeeps DEF ToolServices!Registry!Register
  <1>4. ASSUME NEW c \in Ids, NEW n \in ToolNames, ToolServices!Registry!Unregister(c, n)
        PROVE  RegistryInv'
    <2> DEFINE row == [rows[n] EXCEPT !.status = "inactive"]
    <2>1. row \in ToolServices!Registry!Rows /\ row.status # "active"
      BY <1>0 DEF ToolServices!Registry!Rows
    <2>2. ToolServices!Registry!Transaction(c, n, row)
      BY <1>4 DEF ToolServices!Registry!Unregister
    <2> HIDE DEF row
    <2> QED BY <1>4, <2>1, <2>2, TransactionKeeps
            DEF ToolServices!Registry!Unregister
  <1>5. ASSUME NEW c \in Ids, NEW n \in ToolNames,
               ToolServices!Registry!UnregisterThrows(c, n)
        PROVE  RegistryInv'
    BY <1>0, <1>a, <1>5, RegistryQuietStep
    DEF ToolServices!Registry!UnregisterThrows, ToolServices!Registry!Ended
  <1>6. ASSUME NEW c \in Ids, ToolServices!Registry!Invalidate(c) PROVE RegistryInv'
    <2>1. cache' \in ToolServices!Registry!Cached /\ faults' \in Nat
      BY <1>0, <1>b, <1>6, AbsentType, MissedType
      DEF ToolServices!Registry!Invalidate
    <2>2. cache'.held => cache'.missed
      <3>1. CASE cache' = ToolServices!Registry!Absent
        BY <3>1 DEF ToolServices!Registry!Absent
      <3>2. CASE cache' = [cache EXCEPT !.missed = cache.held]
        BY <1>0, <3>2 DEF ToolServices!Registry!Cached
      <3> QED BY <1>6, <3>1, <3>2 DEF ToolServices!Registry!Invalidate
    <2>3. ToolServices!Registry!StaleListHasACause'
      BY <2>2 DEF ToolServices!Registry!StaleListHasACause
    <2> QED BY <1>0, <1>a, <1>6, <2>1, <2>3, RegistryLocalStep
            DEF ToolServices!Registry!Invalidate, ToolServices!Registry!Ended
  <1>7. ASSUME NEW c \in Ids, ToolServices!Registry!Discover(c) PROVE RegistryInv'
    <2>1. CASE /\ call' = [call EXCEPT ![c].at = "returned", ![c].list = cache.list]
               /\ UNCHANGED faults
      <3> DEFINE new == [call[c] EXCEPT !.at = "returned", !.list = cache.list]
      <3>1. new \in ToolServices!Registry!Locals
        BY <1>0
        DEF ToolServices!Registry!Locals, ToolServices!Registry!Cached,
            ToolServices!Registry!Points, ToolServices!Registry!Ended
      <3>2. GoodCall(new)
        BY <1>0 DEF GoodCall, ToolServices!Registry!Locals
      <3>3. call' = [call EXCEPT ![c] = new]
        BY <2>1
      <3> HIDE DEF new
      <3> QED BY <1>0, <1>7, <2>1, <3>1, <3>2, <3>3, RegistryQuietStep
              DEF ToolServices!Registry!Discover
    <2>2. CASE ToolServices!Registry!Goto(c, "query") /\ faults' \in Nat
      BY <1>0, <1>a, <1>7, <2>2, RegistryQuietStep
      DEF ToolServices!Registry!Discover
    <2> QED BY <1>0, <1>b, <1>7, <2>1, <2>2 DEF ToolServices!Registry!Discover
  <1>8. ASSUME NEW c \in Ids, ToolServices!Registry!Query(c) PROVE RegistryInv'
    <2>1. CASE /\ call' = [call EXCEPT ![c].at = "fill", ![c].list = ToolServices!Registry!Active,
                                      ![c].readAt = clock]
               /\ UNCHANGED faults
      <3> DEFINE new == [call[c] EXCEPT !.at = "fill",
                                        !.list = ToolServices!Registry!Active, !.readAt = clock]
      <3>1. new \in ToolServices!Registry!Locals
        BY <1>0 DEF ToolServices!Registry!Locals, ToolServices!Registry!Points
      <3>2. /\ new.at = "fill"
            /\ new.list = ToolServices!Registry!Active
            /\ new.readAt = clock
            /\ new.begun = call[c].begun /\ new.runs = call[c].runs
            /\ new.checked = call[c].checked /\ new.current = call[c].current
        BY <1>0 DEF ToolServices!Registry!Locals
      <3>3. call' = [call EXCEPT ![c] = new]
        BY <2>1
      <3> HIDE DEF new
      <3>4. GoodCall(new)
        BY <1>0, <3>2 DEF GoodCall
      <3> QED BY <1>0, <1>8, <2>1, <3>1, <3>3, <3>4, RegistryQuietStep
              DEF ToolServices!Registry!Query
    <2>2. CASE ToolServices!Registry!Fault /\ ToolServices!Registry!Goto(c, "rejected")
      BY <1>0, <1>a, <1>b, <1>8, <2>2, RegistryQuietStep
      DEF ToolServices!Registry!Query, ToolServices!Registry!Ended
    <2> QED BY <1>8, <2>1, <2>2 DEF ToolServices!Registry!Query
  <1>9. ASSUME NEW c \in Ids, ToolServices!Registry!Fill(c) PROVE RegistryInv'
    <2>1. CASE /\ cache' = ToolServices!Registry!Holding(call[c].list, call[c].readAt < clock)
               /\ UNCHANGED faults
      <3>1. call[c].list \in ToolServices!Registry!Lists /\ call[c].readAt \in Nat
        BY <1>0 DEF ToolServices!Registry!Locals
      <3>2. cache' \in ToolServices!Registry!Cached
        BY <2>1, <3>1
        DEF ToolServices!Registry!Holding, ToolServices!Registry!Cached
      <3>3. call[c].readAt < clock \/ call[c].list = ToolServices!Registry!Active
        BY <1>0, <1>9, <3>1 DEF ToolServices!Registry!Fill, GoodCall
      <3>4. ToolServices!Registry!Active' = ToolServices!Registry!Active
        BY <1>9 DEF ToolServices!Registry!Fill, ToolServices!Registry!Active
      <3>5. /\ cache'.list = call[c].list
            /\ cache'.raced <=> call[c].readAt < clock
        BY <2>1 DEF ToolServices!Registry!Holding
      <3>6. ToolServices!Registry!StaleListHasACause'
        BY <3>3, <3>4, <3>5 DEF ToolServices!Registry!StaleListHasACause
      <3> QED BY <1>0, <1>a, <1>9, <2>1, <3>2, <3>6, RegistryLocalStep
              DEF ToolServices!Registry!Fill, ToolServices!Registry!Ended
    <2>2. CASE ToolServices!Registry!Fault /\ UNCHANGED cache
      BY <1>0, <1>a, <1>b, <1>9, <2>2, RegistryQuietStep
      DEF ToolServices!Registry!Fill, ToolServices!Registry!Ended
    <2> QED BY <1>9, <2>1, <2>2 DEF ToolServices!Registry!Fill
  <1>10. ASSUME NEW c \in Ids, NEW given \in ToolServices!Registry!Answers,
                ToolServices!Registry!Answer(c, given),
                call[c].at # "invalidate",
                UNCHANGED <<rows, clock, cache, executor, faults>>
         PROVE  RegistryInv'
    <2> DEFINE new == [call[c] EXCEPT !.at = "returned", !.answer = given]
    <2>1. new \in ToolServices!Registry!Locals
      BY <1>0
      DEF ToolServices!Registry!Locals, ToolServices!Registry!Points,
          ToolServices!Registry!Ended
    <2>2. GoodCall(new)
      BY <1>0 DEF GoodCall, ToolServices!Registry!Locals
    <2>3. call' = [call EXCEPT ![c] = new]
      BY <1>10 DEF ToolServices!Registry!Answer
    <2>4. toolCalls' \in CallLogs
      BY <1>0, <1>10 DEF ToolServices!Registry!Answer, CallLogs
    <2> HIDE DEF new
    <2> QED BY <1>0, <1>10, <2>1, <2>2, <2>3, <2>4, RegistryQuietStep
  <1>11. ASSUME NEW c \in Ids, NEW n \in ToolNames, ToolServices!Registry!Invoke(c, n)
         PROVE  RegistryInv'
    <2>1. CASE /\ call' = [call EXCEPT ![c].at = "lookup", ![c].name = n,
                          ![c].begun = clock,
                          ![c].current = ToolServices!Registry!Active[n],
                          ![c].checked = ToolServices!Registry!Found(n)]
               /\ UNCHANGED toolCalls
      <3> DEFINE new == [call[c] EXCEPT !.at = "lookup", !.name = n, !.begun = clock,
                                        !.current = ToolServices!Registry!Active[n],
                                        !.checked = ToolServices!Registry!Found(n)]
      <3>1. new \in ToolServices!Registry!Locals
        BY <1>0
        DEF ToolServices!Registry!Locals, ToolServices!Registry!Points,
            ToolServices!Registry!Found, ToolServices!Registry!Lists
      <3>2. /\ new.at = "lookup" /\ new.name = n /\ new.begun = clock
            /\ new.current = ToolServices!Registry!Active[n]
            /\ new.checked = ToolServices!Registry!Active[n]
            /\ new.runs = call[c].runs
        BY <1>0 DEF ToolServices!Registry!Locals, ToolServices!Registry!Found
      <3>3. call' = [call EXCEPT ![c] = new]
        BY <2>1
      <3>4. call[c].runs = 0
        BY <1>0, <1>11 DEF GoodCall, ToolServices!Registry!Invoke
      <3> HIDE DEF new
      <3>5. GoodCall(new)
        BY <1>0, <3>2, <3>4 DEF GoodCall, Findable
      <3>6. toolCalls' \in CallLogs /\ faults' \in Nat
        BY <1>0, <1>11, <2>1 DEF ToolServices!Registry!Invoke
      <3> QED BY <1>11, <3>1, <3>3, <3>5, <3>6, RegistryQuietStep
              DEF ToolServices!Registry!Invoke
    <2>2. CASE \/ ToolServices!Registry!Answer(c, "EXECUTOR_NOT_CONFIGURED")
               \/ ToolServices!Registry!Answer(c, "VALIDATION_FAILED")
      BY <1>10, <1>11, <2>2
      DEF ToolServices!Registry!Invoke, ToolServices!Registry!Answers
    <2> QED BY <1>11, <2>1, <2>2 DEF ToolServices!Registry!Invoke
  <1>12. ASSUME NEW c \in Ids, ToolServices!Registry!Lookup(c) PROVE RegistryInv'
    <2>1. CASE /\ ToolServices!Registry!Found(call[c].name) # 0
               /\ call' = [call EXCEPT ![c].at = "execute",
                                      ![c].runs = ToolServices!Registry!Found(call[c].name)]
               /\ UNCHANGED toolCalls
      <3> DEFINE new == [call[c] EXCEPT !.at = "execute",
                                        !.runs = ToolServices!Registry!Found(call[c].name)]
      <3>1. call[c].name \in ToolNames /\ ToolServices!Registry!Found(call[c].name) \in Nat
        BY <1>0, <1>12
        DEF ToolServices!Registry!Lookup, GoodCall, ToolServices!Registry!Found,
            ToolServices!Registry!Lists
      <3>2. new \in ToolServices!Registry!Locals
        BY <1>0, <3>1 DEF ToolServices!Registry!Locals, ToolServices!Registry!Points
      <3>3. GoodCall(new)
        BY <1>0, <1>12, <2>1, <3>1
        DEF GoodCall, Findable, ToolServices!Registry!Locals,
            ToolServices!Registry!Found, ToolServices!Registry!Lookup
      <3>4. call' = [call EXCEPT ![c] = new]
        BY <2>1
      <3> HIDE DEF new
      <3> QED BY <1>0, <1>12, <2>1, <3>2, <3>3, <3>4, RegistryQuietStep
              DEF ToolServices!Registry!Lookup
    <2>2. CASE ToolServices!Registry!Answer(c, "TOOL_NOT_FOUND")
      BY <1>10, <1>12, <2>2
      DEF ToolServices!Registry!Lookup, ToolServices!Registry!Answers
    <2> QED BY <1>12, <2>1, <2>2 DEF ToolServices!Registry!Lookup
  <1>13. ASSUME NEW c \in Ids, ToolServices!Registry!LookupFails(c) PROVE RegistryInv'
    BY <1>0, <1>a, <1>b, <1>13, RegistryQuietStep
    DEF ToolServices!Registry!LookupFails, ToolServices!Registry!Ended
  <1>14. ASSUME NEW c \in Ids, ToolServices!Registry!Execute(c) PROVE RegistryInv'
    BY <1>10, <1>14
    DEF ToolServices!Registry!Execute, ToolServices!Registry!Executed,
        ToolServices!Registry!Answers
  <1>15. ASSUME NEW c \in Ids, ToolServices!Registry!LogCall(c) PROVE RegistryInv'
    <2>1. ToolServices!Registry!Active' = ToolServices!Registry!Active
      BY <1>15 DEF ToolServices!Registry!LogCall, ToolServices!Registry!Active
    <2>2. \A d \in Ids : GoodCall(call[d])'
      BY <1>0, <1>15, <2>1 DEF ToolServices!Registry!LogCall, GoodCall, Findable
    <2>3. ToolServices!Registry!StaleListHasACause'
      BY <1>15, <2>1
      DEF ToolServices!Registry!LogCall, RegistryInv,
          ToolServices!Registry!StaleListHasACause
    <2>4. faults' \in Nat
      BY <1>0, <1>b, <1>15 DEF ToolServices!Registry!LogCall
    <2>5. ToolServices!Registry!TypeOK'
      BY <1>15, <2>4
      DEF ToolServices!Registry!LogCall, RegistryInv, ToolServices!Registry!TypeOK
    <2> QED BY <2>2, <2>3, <2>5 DEF RegistryInv
  <1>16. CASE UNCHANGED ToolServices!Registry!vars
    <2>1. ToolServices!Registry!Active' = ToolServices!Registry!Active
      BY <1>16 DEF ToolServices!Registry!vars, ToolServices!Registry!Active
    <2>2. \A c \in Ids : GoodCall(call[c])'
      BY <1>0, <1>16, <2>1 DEF ToolServices!Registry!vars, GoodCall, Findable
    <2>3. ToolServices!Registry!TypeOK' /\ ToolServices!Registry!StaleListHasACause'
      BY <1>16, <2>1
      DEF ToolServices!Registry!vars, RegistryInv, ToolServices!Registry!TypeOK,
          ToolServices!Registry!StaleListHasACause
    <2> QED BY <2>2, <2>3 DEF RegistryInv
  <1> QED BY <1>1, <1>2, <1>3, <1>4, <1>5, <1>6, <1>7, <1>8, <1>9, <1>11, <1>12,
             <1>13,
             <1>14, <1>15, <1>16 DEF ToolServices!Registry!Next, ToolServices!Registry!Step

(* What the tools do is, to the registry, a step of its own or none.       *)
LEMMA RegistryFollows ==
  [ToolServices!Next]_toolVars =>
    [ToolServices!Registry!Next]_(ToolServices!Registry!vars)
  <1>1. ToolServices!RegistryStep => ToolServices!Registry!Next
    BY DEF ToolServices!RegistryStep, ToolServices!Registry!Next,
           ToolServices!Registry!Step
  <1>2. ASSUME NEW c \in Ids, ToolServices!Finish(c) PROVE ToolServices!Registry!Next
    BY <1>2 DEF ToolServices!Finish, ToolServices!Registry!Next,
                ToolServices!Registry!Step
  <1>3. \/ \E c \in Ids : ToolServices!Begin(c)
        \/ ToolServices!ExecutorStep
        \/ UNCHANGED toolVars
        => UNCHANGED ToolServices!Registry!vars
    BY DEF ToolServices!Begin, ToolServices!ExecutorStep,
           ToolServices!registryVars, toolVars, ToolServices!Registry!vars
  <1> QED BY <1>1, <1>2, <1>3 DEF ToolServices!Next

-----------------------------------------------------------------------------
(***************************************************************************)
(* Sandbox, as the executor of the tools.  The invariant says what is true *)
(* of an execution at each point of execute: which tools have ended when   *)
(* it continues, what it has answered and written while its container is   *)
(* being removed, and that nothing writes to a record after the answer.    *)
(***************************************************************************)
LEMMA ExecutorCardinality == \A S : ToolServices!Executor!Cardinality(S) = Cardinality(S)
  BY DEF ToolServices!Executor!Cardinality, Cardinality

Told(code) ==
  CASE code = "SUCCESS" -> "completed"
    [] code = "EXECUTION_TIMEOUT" -> "timed_out"
    [] OTHER -> "failed"

Execution(e) ==
  /\ local[e] = "idle" => executions[e] = "none" /\ tool[e] = "none"
  /\ local[e] = "running" => tool[e] = "running"
  /\ local[e] = "result" => tool[e] = "ended"
  /\ local[e] = "error" => tool[e] \in {"none", "ended"}
  /\ local[e] = "abort" => kind = "v8"
  /\ tool[e] = "leaked" => kind = "docker" /\ local[e] = "returned"
  /\ local[e] = "removing" =>
       /\ kind = "docker"
       /\ answer[e] \in {"SUCCESS", "EXECUTION_TIMEOUT"}
       /\ answer[e] = "EXECUTION_TIMEOUT" => executions[e] \in {"none", "timed_out"}
  /\ local[e] = "returned" =>
       /\ tool[e] = "running" =>
            kind = "v8" /\ answer[e] \in {"EXECUTION_TIMEOUT", "EXECUTION_TERMINATED"}
       /\ executions[e] # "none" => executions[e] = Told(answer[e])

Slots == {e \in Ids : local[e] \in {"running", "removing"} \cup ToolServices!Executor!Outcomes}

SandboxInv ==
  /\ ToolServices!Executor!TypeOK
  /\ activeCount = Cardinality(Slots)
  /\ activeCount <= MaxConcurrent
  /\ \A e \in Ids : Execution(e)

LEMMA SandboxInit ==
  ASSUME ToolServices!Executor!SandboxAssumption, ToolServices!Executor!Init
  PROVE  SandboxInv
  <1>1. ToolServices!Executor!TypeOK
    BY DEF ToolServices!Executor!Init, ToolServices!Executor!TypeOK,
           ToolServices!Executor!Statuses,
           ToolServices!Executor!Points, ToolServices!Executor!Outcomes, ToolServices!Executor!Codes
  <1>2. Slots = {}
    BY DEF ToolServices!Executor!Init, Slots, ToolServices!Executor!Outcomes
  <1>3. activeCount = Cardinality(Slots) /\ activeCount <= MaxConcurrent
    BY <1>2, FS_EmptySet
    DEF ToolServices!Executor!Init, ToolServices!Executor!SandboxAssumption
  <1>4. \A e \in Ids : Execution(e)
    BY DEF ToolServices!Executor!Init, Execution
  <1> QED BY <1>1, <1>3, <1>4 DEF SandboxInv

LEMMA SlotsAreFinite ==
  ASSUME ToolServices!Executor!SandboxAssumption
  PROVE  IsFiniteSet(Slots) /\ Cardinality(Slots) \in Nat
  <1>1. IsFiniteSet(Ids)
    BY DEF ToolServices!Executor!SandboxAssumption,
           ToolServices!Executor!IsFiniteSet, IsFiniteSet
  <1>2. Slots \in SUBSET Ids
    BY DEF Slots
  <1> QED BY <1>1, <1>2, FS_Subset, FS_CardinalityType

(* What one execution does leaves the others alone.                        *)
LEMMA OneExecutes ==
  ASSUME ToolServices!Executor!SandboxAssumption, SandboxInv, NEW e \in Ids,
         ToolServices!Executor!TypeOK', UNCHANGED kind,
         \A f \in Ids \ {e} : /\ local'[f] = local[f] /\ executions'[f] = executions[f]
                              /\ tool'[f] = tool[f] /\ answer'[f] = answer[f],
         Execution(e)',
         \/ /\ e \notin Slots /\ e \in Slots'
            /\ activeCount' = activeCount + 1 /\ activeCount < MaxConcurrent
         \/ /\ e \in Slots /\ e \notin Slots'
            /\ activeCount' = activeCount - 1
         \/ /\ e \in Slots <=> e \in Slots'
            /\ activeCount' = activeCount
  PROVE  SandboxInv'
  <1>1. \A f \in Ids : Execution(f)'
    <2>1. \A f \in Ids \ {e} : Execution(f)'
      BY DEF SandboxInv, Execution, Told
    <2> QED BY <2>1
  <1>2. \A f \in Ids \ {e} : f \in Slots' <=> f \in Slots
    BY DEF Slots, ToolServices!Executor!Outcomes
  <1>3. IsFiniteSet(Slots) /\ Cardinality(Slots) \in Nat /\ activeCount = Cardinality(Slots)
        /\ activeCount <= MaxConcurrent /\ MaxConcurrent \in Nat
    BY SlotsAreFinite DEF SandboxInv, ToolServices!Executor!SandboxAssumption
  <1>4. Slots \subseteq Ids /\ Slots' \subseteq Ids
    BY DEF Slots
  <1>5. CASE /\ e \notin Slots /\ e \in Slots'
             /\ activeCount' = activeCount + 1 /\ activeCount < MaxConcurrent
    <2>1. Slots' = Slots \cup {e}
      BY <1>2, <1>4, <1>5
    <2>2. Cardinality(Slots') = Cardinality(Slots) + 1
      BY <1>3, <1>5, <2>1, FS_AddElement
    <2> QED BY <1>1, <1>3, <1>5, <2>2 DEF SandboxInv
  <1>6. CASE e \in Slots /\ e \notin Slots' /\ activeCount' = activeCount - 1
    <2>1. Slots' = Slots \ {e}
      BY <1>2, <1>4, <1>6
    <2>2. Cardinality(Slots') = Cardinality(Slots) - 1
      BY <1>3, <1>6, <2>1, FS_RemoveElement
    <2> QED BY <1>1, <1>3, <1>6, <2>2 DEF SandboxInv
  <1>7. CASE (e \in Slots <=> e \in Slots') /\ activeCount' = activeCount
    <2>1. Slots' = Slots
      BY <1>2, <1>4, <1>7
    <2> QED BY <1>1, <1>3, <1>7, <2>1 DEF SandboxInv
  <1> QED BY <1>5, <1>6, <1>7

LEMMA SandboxStep ==
  ASSUME ToolServices!Executor!SandboxAssumption, SandboxInv, NEW e \in Ids,
         ToolServices!Executor!Step(e)
  PROVE  SandboxInv'
  <1> USE DEF ToolServices!Executor!Outcomes, ToolServices!Executor!Points,
              ToolServices!Executor!Statuses, ToolServices!Executor!Codes
  <1>1. ToolServices!Executor!TypeOK /\ Execution(e) /\ activeCount \in Int
    BY DEF SandboxInv, ToolServices!Executor!TypeOK
  <1>2. /\ executions \in [Ids -> ToolServices!Executor!Statuses]
        /\ local \in [Ids -> ToolServices!Executor!Points]
        /\ tool \in [Ids -> {"none", "running", "ended", "leaked"}]
        /\ answer \in [Ids -> ToolServices!Executor!Codes]
        /\ terminated \subseteq Ids /\ kind \in {"v8", "docker"}
    BY <1>1 DEF ToolServices!Executor!TypeOK
  <1>3. ASSUME NEW code \in {"SANDBOX_CONCURRENCY_LIMIT", "TOOL_NOT_FOUND"},
               ToolServices!Executor!Refuse(e, code)
        PROVE  SandboxInv'
    <2>1. /\ ToolServices!Executor!TypeOK' /\ UNCHANGED <<kind, activeCount, executions, tool>>
          /\ local[e] = "idle" /\ local'[e] = "returned"
          /\ \A f \in Ids \ {e} : local'[f] = local[f] /\ answer'[f] = answer[f]
      <3>1. /\ local[e] = "idle" /\ local' = [local EXCEPT ![e] = "returned"]
            /\ answer' = [answer EXCEPT ![e] = code]
            /\ UNCHANGED <<kind, activeCount, executions, tool, terminated>>
        BY <1>3 DEF ToolServices!Executor!Refuse
      <3>2. answer' \in [Ids -> ToolServices!Executor!Codes]
        BY <1>2, <3>1
      <3>3. local' \in [Ids -> ToolServices!Executor!Points]
        BY <1>2, <3>1
      <3>4. ToolServices!Executor!TypeOK'
        BY <1>1, <1>2, <3>1, <3>2, <3>3 DEF ToolServices!Executor!TypeOK
      <3> QED BY <1>2, <3>1, <3>4
    <2>2. Execution(e)'
      BY <1>1, <2>1 DEF Execution
    <2>3. e \notin Slots /\ e \notin Slots'
      BY <2>1 DEF Slots
    <2> QED BY <2>1, <2>2, <2>3, OneExecutes
  <1>4. CASE ToolServices!Executor!Execute(e)
    <2>1. /\ local[e] = "idle" /\ activeCount < MaxConcurrent
          /\ executions' = [executions EXCEPT ![e] = "running"]
          /\ activeCount' = activeCount + 1
          /\ UNCHANGED <<kind, answer, terminated>>
      BY <1>4 DEF ToolServices!Executor!Execute, ToolServices!Executor!HasSlot
    <2>2. \/ /\ local' = [local EXCEPT ![e] = "running"]
             /\ tool' = [tool EXCEPT ![e] = "running"]
          \/ local' = [local EXCEPT ![e] = "error"] /\ UNCHANGED tool
      BY <1>4 DEF ToolServices!Executor!Execute
    <2>3. ToolServices!Executor!TypeOK'
      BY <1>1, <1>2, <2>1, <2>2 DEF ToolServices!Executor!TypeOK
    <2>4. /\ \A f \in Ids \ {e} : /\ local'[f] = local[f] /\ executions'[f] = executions[f]
                                  /\ tool'[f] = tool[f]
          /\ \/ local'[e] = "running" /\ tool'[e] = "running"
             \/ local'[e] = "error" /\ tool'[e] = "none"
      BY <1>1, <1>2, <2>1, <2>2 DEF Execution
    <2>5. Execution(e)' /\ e \notin Slots /\ e \in Slots'
      BY <1>1, <2>1, <2>4 DEF Execution, Slots
    <2> QED BY <2>1, <2>3, <2>4, <2>5, OneExecutes
  <1>5. CASE ToolServices!Executor!ToolEnds(e)
    <2>1. /\ tool[e] = "running" /\ tool' = [tool EXCEPT ![e] = "ended"]
          /\ UNCHANGED <<kind, activeCount, executions, answer, terminated>>
      BY <1>5 DEF ToolServices!Executor!ToolEnds
    <2>2. \/ /\ local[e] = "running"
             /\ \E outcome \in {"result", "error", "timeout"} :
                  local' = [local EXCEPT ![e] = outcome]
          \/ local[e] # "running" /\ UNCHANGED local
      BY <1>5 DEF ToolServices!Executor!ToolEnds
    <2>3. ToolServices!Executor!TypeOK'
      BY <1>1, <1>2, <2>1, <2>2 DEF ToolServices!Executor!TypeOK
    <2>4. /\ \A f \in Ids \ {e} : local'[f] = local[f] /\ tool'[f] = tool[f]
          /\ tool'[e] = "ended"
          /\ \/ local[e] = "running" /\ local'[e] \in {"result", "error", "timeout"}
             \/ local[e] # "running" /\ local'[e] = local[e]
      BY <1>2, <2>1, <2>2
    <2>5. Execution(e)' /\ (e \in Slots <=> e \in Slots')
      BY <1>1, <2>1, <2>4 DEF Execution, Slots, Told
    <2> QED BY <2>1, <2>3, <2>4, <2>5, OneExecutes
  <1>6. CASE ToolServices!Executor!TimesOut(e)
    <2>1. /\ local[e] = "running" /\ local' = [local EXCEPT ![e] = "timeout"]
          /\ UNCHANGED <<kind, activeCount, executions, tool, answer, terminated>>
      BY <1>6 DEF ToolServices!Executor!TimesOut
    <2>2. /\ ToolServices!Executor!TypeOK' /\ local'[e] = "timeout"
          /\ \A f \in Ids \ {e} : local'[f] = local[f]
      BY <1>1, <1>2, <2>1 DEF ToolServices!Executor!TypeOK
    <2>3. Execution(e)' /\ e \in Slots /\ e \in Slots'
      BY <1>1, <2>1, <2>2 DEF Execution, Slots
    <2> QED BY <2>1, <2>2, <2>3, OneExecutes
  <1>7. CASE ToolServices!Executor!Terminate(e)
    <2>1. /\ executions[e] = "running" /\ executions' = [executions EXCEPT ![e] = "failed"]
          /\ terminated' = terminated \cup {e}
          /\ UNCHANGED <<kind, activeCount, tool, answer>>
      BY <1>7 DEF ToolServices!Executor!Terminate
    <2>2. \/ kind = "v8" /\ local[e] = "running" /\ local' = [local EXCEPT ![e] = "abort"]
          \/ UNCHANGED local
      BY <1>7 DEF ToolServices!Executor!Terminate
    <2>3. ToolServices!Executor!TypeOK'
      BY <1>1, <1>2, <2>1, <2>2 DEF ToolServices!Executor!TypeOK
    <2>4. /\ \A f \in Ids \ {e} : local'[f] = local[f] /\ executions'[f] = executions[f]
          /\ executions'[e] = "failed"
          /\ \/ kind = "v8" /\ local[e] = "running" /\ local'[e] = "abort"
             \/ local'[e] = local[e]
      BY <1>2, <2>1, <2>2
    <2>5. local[e] \notin {"idle", "returned"} /\ (local[e] = "removing" => answer[e] = "SUCCESS")
      BY <1>1, <2>1 DEF Execution, Told
    <2>6. Execution(e)' /\ (e \in Slots <=> e \in Slots')
      BY <1>1, <2>1, <2>4, <2>5 DEF Execution, Slots
    <2> QED BY <2>1, <2>3, <2>4, <2>6, OneExecutes
  <1>8. ASSUME NEW status \in {"completed", "failed", "timed_out"},
               ToolServices!Executor!Record(e, status)
        PROVE  /\ executions' \in [Ids -> ToolServices!Executor!Statuses]
               /\ executions'[e] \in {"none", status}
               /\ \A f \in Ids \ {e} : executions'[f] = executions[f]
    <2>1. CASE executions[e] = "none"
      BY <1>2, <1>8, <2>1 DEF ToolServices!Executor!Record
    <2>2. CASE executions[e] # "none"
      BY <1>2, <1>8, <2>2 DEF ToolServices!Executor!Record
    <2> QED BY <2>1, <2>2
  <1>9. \A outcome \in ToolServices!Executor!Outcomes :
          /\ ToolServices!Executor!Code(outcome) \in
               {"SUCCESS", "EXECUTION_TIMEOUT", "EXECUTION_TERMINATED", "EXECUTION_ERROR"}
          /\ ToolServices!Executor!Status(outcome) \in {"completed", "failed", "timed_out"}
          /\ ToolServices!Executor!Status(outcome) = Told(ToolServices!Executor!Code(outcome))
          /\ outcome = "timeout" => ToolServices!Executor!Code(outcome) = "EXECUTION_TIMEOUT"
          /\ outcome = "abort" => ToolServices!Executor!Code(outcome) = "EXECUTION_TERMINATED"
          /\ outcome = "result" => ToolServices!Executor!Code(outcome) = "SUCCESS"
    BY DEF ToolServices!Executor!Code, ToolServices!Executor!Status, Told
  <1>10. CASE ToolServices!Executor!Continue(e)
    <2>1. /\ local[e] \in ToolServices!Executor!Outcomes
          /\ kind = "v8" \/ local[e] = "error"
          /\ ToolServices!Executor!Record(e, ToolServices!Executor!Status(local[e]))
          /\ answer' = [answer EXCEPT ![e] = ToolServices!Executor!Code(local[e])]
          /\ local' = [local EXCEPT ![e] = "returned"]
          /\ activeCount' = activeCount - 1
          /\ UNCHANGED <<kind, tool, terminated>>
      BY <1>10 DEF ToolServices!Executor!Continue, ToolServices!Executor!RecordOf,
                   ToolServices!Executor!Return
    <2>2. /\ executions' \in [Ids -> ToolServices!Executor!Statuses]
          /\ executions'[e] \in {"none", ToolServices!Executor!Status(local[e])}
          /\ \A f \in Ids \ {e} : executions'[f] = executions[f]
      BY <1>8, <1>9, <2>1
    <2>3. ToolServices!Executor!TypeOK'
      <3>1. answer' \in [Ids -> ToolServices!Executor!Codes]
        BY <1>2, <1>9, <2>1
      <3> QED BY <1>1, <1>2, <2>1, <2>2, <3>1 DEF ToolServices!Executor!TypeOK
    <2>4. /\ local'[e] = "returned" /\ answer'[e] = ToolServices!Executor!Code(local[e])
          /\ \A f \in Ids \ {e} : local'[f] = local[f] /\ answer'[f] = answer[f]
      BY <1>2, <2>1
    <2>5. executions'[e] # "none" => executions'[e] = Told(answer'[e])
      BY <1>9, <2>1, <2>2, <2>4
    <2>6. tool[e] = "running" =>
            kind = "v8" /\ answer'[e] \in {"EXECUTION_TIMEOUT", "EXECUTION_TERMINATED"}
      BY <1>1, <1>9, <2>1, <2>4 DEF Execution
    <2>7. Execution(e)' /\ e \in Slots /\ e \notin Slots'
      BY <1>1, <2>1, <2>4, <2>5, <2>6 DEF Execution, Slots, Told
    <2> QED BY <2>1, <2>2, <2>3, <2>4, <2>7, OneExecutes
  <1>11. CASE ToolServices!Executor!RemoveContainer(e)
    <2>1. /\ kind = "docker" /\ local[e] \in {"result", "timeout"}
          /\ answer' = [answer EXCEPT ![e] = ToolServices!Executor!Code(local[e])]
          /\ local' = [local EXCEPT ![e] = "removing"]
          /\ UNCHANGED <<kind, activeCount, tool, terminated>>
          /\ \/ local[e] = "timeout" /\ ToolServices!Executor!Record(e, "timed_out")
             \/ local[e] = "result" /\ UNCHANGED executions
      BY <1>11
      DEF ToolServices!Executor!RemoveContainer, ToolServices!Executor!RecordOf,
                   ToolServices!Executor!Status
    <2>2. /\ executions' \in [Ids -> ToolServices!Executor!Statuses]
          /\ local[e] = "timeout" => executions'[e] \in {"none", "timed_out"}
          /\ \A f \in Ids \ {e} : executions'[f] = executions[f]
      BY <1>2, <1>8, <2>1
    <2>3. /\ local'[e] = "removing"
          /\ \/ local[e] = "timeout" /\ answer'[e] = "EXECUTION_TIMEOUT"
             \/ local[e] = "result" /\ answer'[e] = "SUCCESS"
          /\ \A f \in Ids \ {e} : local'[f] = local[f] /\ answer'[f] = answer[f]
      BY <1>2, <1>9, <2>1
    <2>4. ToolServices!Executor!TypeOK'
      <3>1. answer' \in [Ids -> ToolServices!Executor!Codes]
        BY <1>2, <1>9, <2>1
      <3> QED BY <1>1, <1>2, <2>1, <2>2, <3>1 DEF ToolServices!Executor!TypeOK
    <2>5. Execution(e)' /\ e \in Slots /\ e \in Slots'
      BY <1>1, <2>1, <2>2, <2>3 DEF Execution, Slots
    <2> QED BY <2>1, <2>2, <2>3, <2>4, <2>5, OneExecutes
  <1>12. CASE ToolServices!Executor!Removed(e)
    <2>1. /\ local[e] = "removing"
          /\ local' = [local EXCEPT ![e] = "returned"]
          /\ activeCount' = activeCount - 1
          /\ UNCHANGED <<kind, answer, terminated>>
          /\ \/ answer[e] = "SUCCESS" /\ ToolServices!Executor!Record(e, "completed")
             \/ answer[e] # "SUCCESS" /\ UNCHANGED executions
          /\ \E end \in {"ended", "leaked"} : tool' = [tool EXCEPT ![e] = end]
      BY <1>12 DEF ToolServices!Executor!Removed, ToolServices!Executor!Return
    <2>2. /\ executions' \in [Ids -> ToolServices!Executor!Statuses]
          /\ answer[e] = "SUCCESS" => executions'[e] \in {"none", "completed"}
          /\ answer[e] # "SUCCESS" => executions'[e] = executions[e]
          /\ \A f \in Ids \ {e} : executions'[f] = executions[f]
      BY <1>2, <1>8, <2>1
    <2>3. /\ local'[e] = "returned" /\ tool'[e] \in {"ended", "leaked"}
          /\ \A f \in Ids \ {e} : local'[f] = local[f] /\ tool'[f] = tool[f]
      BY <1>2, <2>1
    <2>4. ToolServices!Executor!TypeOK'
      <3>1. tool' \in [Ids -> {"none", "running", "ended", "leaked"}]
        BY <1>2, <2>1
      <3>2. local' \in [Ids -> ToolServices!Executor!Points]
        BY <1>2, <2>1
      <3>3. activeCount' \in Int
        BY <1>1, <2>1
      <3> QED BY <1>1, <1>2, <2>1, <2>2, <3>1, <3>2, <3>3
              DEF ToolServices!Executor!TypeOK
    <2>5. Execution(e)' /\ e \in Slots /\ e \notin Slots'
      BY <1>1, <2>1, <2>2, <2>3 DEF Execution, Slots, Told
    <2> QED BY <2>1, <2>2, <2>3, <2>4, <2>5, OneExecutes
  <1> QED
    BY <1>3, <1>4, <1>5, <1>6, <1>7, <1>10, <1>11, <1>12
    DEF ToolServices!Executor!Step, ToolServices!Executor!RefuseFull,
        ToolServices!Executor!RefuseUnknown

LEMMA SandboxCleanup ==
  ASSUME ToolServices!Executor!SandboxAssumption, SandboxInv, ToolServices!Executor!Cleanup
  PROVE  SandboxInv'
  <1>1. PICK old \in SUBSET {e \in Ids : executions[e] \notin {"none", "running"}} :
          /\ executions' = [e \in Ids |-> IF e \in old THEN "none" ELSE executions[e]]
          /\ UNCHANGED <<kind, activeCount, local, tool, answer, terminated>>
    BY DEF ToolServices!Executor!Cleanup
  <1>2. ToolServices!Executor!TypeOK'
    BY <1>1
    DEF SandboxInv, ToolServices!Executor!TypeOK, ToolServices!Executor!Statuses
  <1>3. \A e \in Ids : executions'[e] \in {"none", executions[e]}
    BY <1>1
  <1>4. \A e \in Ids : Execution(e)'
    BY <1>1, <1>3 DEF SandboxInv, Execution, Told
  <1>5. Slots' = Slots
    BY <1>1 DEF Slots
  <1> QED BY <1>1, <1>2, <1>4, <1>5 DEF SandboxInv

LEMMA SandboxUnchanged ==
  ASSUME SandboxInv, UNCHANGED ToolServices!executorVars PROVE SandboxInv'
  BY DEF SandboxInv, ToolServices!executorVars, ToolServices!Executor!TypeOK,
         Slots, Execution, Told

LEMMA SandboxSays ==
  ASSUME ToolServices!Executor!SandboxAssumption, SandboxInv
  PROVE  ToolServices!SlotsMatch /\ ToolServices!RecordTellsTheAnswer
  <1>1. ToolServices!Executor!InFlight = Slots
    BY DEF ToolServices!Executor!InFlight, Slots
  <1>2. \A e \in Ids \ Slots : local[e] \in {"idle", "returned"}
    BY DEF SandboxInv, ToolServices!Executor!TypeOK, Slots,
           ToolServices!Executor!Points,
           ToolServices!Executor!Outcomes
  <1>3. ToolServices!SlotsMatch
    <2>1. activeCount = ToolServices!Executor!Cardinality(Slots) /\ activeCount <= MaxConcurrent
      BY ExecutorCardinality DEF SandboxInv
    <2>2. \A e \in Ids \ Slots : tool[e] \in {"running", "leaked"} =>
            \/ kind = "v8" /\ answer[e] \in {"EXECUTION_TIMEOUT", "EXECUTION_TERMINATED"}
            \/ kind = "docker" /\ tool[e] = "leaked"
      BY <1>2 DEF SandboxInv, Execution
    <2> QED BY <1>1, <2>1, <2>2
            DEF ToolServices!SlotsMatch, ToolServices!Executor!SlotsMatch
  <1>4. ToolServices!RecordTellsTheAnswer
    BY DEF SandboxInv, Execution, Told, ToolServices!RecordTellsTheAnswer,
           ToolServices!Executor!RecordTellsTheAnswer
  <1> QED BY <1>3, <1>4

(* The executions and the invocations they serve.  While a slot is taken,  *)
(* its invocation waits: nothing of the registry touches a call that is at *)
(* execute, and it leaves that point only with the executor's answer.      *)
Served ==
  \A c \in Ids :
    /\ c \in Slots => call[c].at = "execute"
    /\ call[c].answer = "SUCCESS" => answer[c] = "SUCCESS" /\ local[c] = "returned"

(* What a call of the registry other than one at execute does: it never    *)
(* answers SUCCESS, and leaves the other calls alone.                      *)
Leaves(c) ==
  /\ call[c].at # "execute"
  /\ \A d \in Ids \ {c} : call'[d] = call[d]
  /\ call'[c].answer = "SUCCESS" => call[c].answer = "SUCCESS"

LEMMA RegistryLeaves ==
  ASSUME ToolServices!Registry!TypeOK, ToolServices!RegistryStep
  PROVE  UNCHANGED call \/ \E c \in Ids : Leaves(c)
  <1>1. /\ call \in [Ids -> ToolServices!Registry!Locals]
        /\ \A c \in Ids : DOMAIN call[c] = {"at", "name", "list", "readAt", "begun", "current",
                                            "checked", "runs", "answer"}
    BY DEF ToolServices!Registry!TypeOK, ToolServices!Registry!Locals
  <1>2. ASSUME NEW c \in Ids, call[c].at # "execute", NEW point,
               ToolServices!Registry!Goto(c, point)
        PROVE  Leaves(c)
    BY <1>1, <1>2 DEF ToolServices!Registry!Goto, Leaves
  <1>3. ASSUME NEW c \in Ids, call[c].at # "execute",
               NEW code \in {"EXECUTOR_NOT_CONFIGURED", "VALIDATION_FAILED", "TOOL_NOT_FOUND"},
               ToolServices!Registry!Answer(c, code)
        PROVE  Leaves(c)
    BY <1>1, <1>3 DEF ToolServices!Registry!Answer, Leaves
  <1>4. ASSUME NEW c \in Ids, NEW n \in ToolNames,
               \/ ToolServices!Registry!Register(c, n)
               \/ ToolServices!Registry!Unregister(c, n)
               \/ ToolServices!Registry!UnregisterThrows(c, n)
        PROVE  Leaves(c)
    <2>1. call[c].at # "execute" /\ \E point : ToolServices!Registry!Goto(c, point)
      BY <1>4 DEF ToolServices!Registry!Register, ToolServices!Registry!Unregister,
         ToolServices!Registry!UnregisterThrows, ToolServices!Registry!Transaction
    <2> QED BY <1>2, <2>1
  <1>5. ASSUME NEW c \in Ids, NEW n \in ToolNames, ToolServices!Registry!Invoke(c, n)
        PROVE  Leaves(c)
    <2>1. \/ call' = [call EXCEPT ![c].at = "lookup", ![c].name = n, ![c].begun = clock,
                                  ![c].current = ToolServices!Registry!Active[n],
                                  ![c].checked = ToolServices!Registry!Found(n)]
          \/ ToolServices!Registry!Answer(c, "EXECUTOR_NOT_CONFIGURED")
          \/ ToolServices!Registry!Answer(c, "VALIDATION_FAILED")
      BY <1>5 DEF ToolServices!Registry!Invoke
    <2>2. call[c].at # "execute"
      BY <1>5 DEF ToolServices!Registry!Invoke
    <2>3. CASE call' = [call EXCEPT ![c].at = "lookup", ![c].name = n, ![c].begun = clock,
                                    ![c].current = ToolServices!Registry!Active[n],
                                    ![c].checked = ToolServices!Registry!Found(n)]
      BY <1>1, <2>2, <2>3 DEF Leaves
    <2> QED BY <1>3, <2>1, <2>2, <2>3
  <1>6. ASSUME NEW c \in Ids, ToolServices!Registry!LogCall(c) PROVE UNCHANGED call
    BY <1>6 DEF ToolServices!Registry!LogCall
  <1>7. ASSUME NEW c \in Ids,
               \/ ToolServices!Registry!Invalidate(c)
               \/ ToolServices!Registry!Fill(c)
               \/ ToolServices!Registry!LookupFails(c)
        PROVE  Leaves(c)
    <2>1. call[c].at # "execute" /\ \E point : ToolServices!Registry!Goto(c, point)
      BY <1>7 DEF ToolServices!Registry!Invalidate, ToolServices!Registry!Fill,
         ToolServices!Registry!LookupFails
    <2> QED BY <1>2, <2>1
  <1>8. ASSUME NEW c \in Ids, ToolServices!Registry!Discover(c) PROVE Leaves(c)
    <2>1. call[c].at # "execute"
      BY <1>8 DEF ToolServices!Registry!Discover
    <2>2. CASE call' = [call EXCEPT ![c].at = "returned", ![c].list = cache.list]
      BY <1>1, <2>1, <2>2 DEF Leaves
    <2>3. CASE ToolServices!Registry!Goto(c, "query")
      BY <1>2, <2>1, <2>3
    <2> QED BY <1>8, <2>2, <2>3 DEF ToolServices!Registry!Discover
  <1>9. ASSUME NEW c \in Ids, ToolServices!Registry!Query(c) PROVE Leaves(c)
    <2>1. call[c].at # "execute"
      BY <1>9 DEF ToolServices!Registry!Query
    <2>2. CASE call' = [call EXCEPT ![c].at = "fill", ![c].list = ToolServices!Registry!Active,
                                    ![c].readAt = clock]
      BY <1>1, <2>1, <2>2 DEF Leaves
    <2>3. CASE ToolServices!Registry!Goto(c, "rejected")
      BY <1>2, <2>1, <2>3
    <2> QED BY <1>9, <2>2, <2>3 DEF ToolServices!Registry!Query
  <1>10. ASSUME NEW c \in Ids, ToolServices!Registry!Lookup(c) PROVE Leaves(c)
    <2>1. call[c].at # "execute"
      BY <1>10 DEF ToolServices!Registry!Lookup
    <2>2. CASE call' = [call EXCEPT ![c].at = "execute",
                                    ![c].runs = ToolServices!Registry!Found(call[c].name)]
      BY <1>1, <2>1, <2>2 DEF Leaves
    <2>3. CASE ToolServices!Registry!Answer(c, "TOOL_NOT_FOUND")
      BY <1>3, <2>1, <2>3
    <2> QED BY <1>10, <2>2, <2>3 DEF ToolServices!Registry!Lookup
  <1>11. ToolServices!Registry!SetToolExecutor \/ ToolServices!Registry!Expire => UNCHANGED call
    BY DEF ToolServices!Registry!SetToolExecutor, ToolServices!Registry!Expire
  <1>12. UNCHANGED call \/ \E c \in Ids :
           \/ \E n \in ToolNames : \/ ToolServices!Registry!Register(c, n)
                                   \/ ToolServices!Registry!Unregister(c, n)
                                   \/ ToolServices!Registry!UnregisterThrows(c, n)
                                   \/ ToolServices!Registry!Invoke(c, n)
           \/ ToolServices!Registry!Invalidate(c)
           \/ ToolServices!Registry!Fill(c)
           \/ ToolServices!Registry!LookupFails(c)
           \/ ToolServices!Registry!Discover(c)
           \/ ToolServices!Registry!Query(c)
           \/ ToolServices!Registry!Lookup(c)
    BY <1>6, <1>11 DEF ToolServices!RegistryStep
  <1> QED BY <1>4, <1>5, <1>7, <1>8, <1>9, <1>10, <1>12

ToolsInv == SandboxInv /\ Served

LEMMA ToolsInit ==
  ASSUME ToolServices!Executor!SandboxAssumption, ToolServices!Init PROVE ToolsInv
  <1>1. SandboxInv
    BY SandboxInit DEF ToolServices!Init
  <1>2. Served
    BY DEF ToolServices!Init, ToolServices!Registry!Init,
           ToolServices!Registry!Fresh,
           ToolServices!Executor!Init, Served, Slots, ToolServices!Executor!Outcomes
  <1> QED BY <1>1, <1>2 DEF ToolsInv

LEMMA ToolsNext ==
  ASSUME ToolServices!Executor!SandboxAssumption, ToolServices!Registry!TypeOK, ToolsInv,
         [ToolServices!Next]_toolVars
  PROVE  ToolsInv'
  <1>1. SandboxInv /\ Served
    BY DEF ToolsInv
  <1>2. /\ call \in [Ids -> ToolServices!Registry!Locals]
        /\ local \in [Ids -> ToolServices!Executor!Points]
        /\ answer \in [Ids -> ToolServices!Executor!Codes]
    BY <1>1
    DEF ToolServices!Registry!TypeOK, SandboxInv, ToolServices!Executor!TypeOK
  <1>3. CASE ToolServices!RegistryStep
    <2>1. UNCHANGED ToolServices!executorVars
      BY <1>3 DEF ToolServices!RegistryStep
    <2>2. \A d \in Ids : /\ call[d].at = "execute" => call'[d] = call[d]
                         /\ call'[d].answer = "SUCCESS" => call[d].answer = "SUCCESS"
      <3>1. UNCHANGED call \/ \E c \in Ids : Leaves(c)
        BY <1>3, RegistryLeaves
      <3> QED BY <3>1 DEF Leaves
    <2>3. Served'
      BY <1>1, <2>1, <2>2 DEF Served, Slots, ToolServices!executorVars
    <2> QED BY <1>1, <2>1, <2>3, SandboxUnchanged DEF ToolsInv
  <1>4. CASE UNCHANGED toolVars
    <2>1. UNCHANGED ToolServices!executorVars /\ UNCHANGED call
      BY <1>4 DEF toolVars, ToolServices!executorVars
    <2>2. Served'
      BY <1>1, <2>1 DEF Served, Slots, ToolServices!executorVars
    <2> QED BY <1>1, <2>1, <2>2, SandboxUnchanged DEF ToolsInv
  <1>5. ASSUME NEW c \in Ids, ToolServices!Begin(c) PROVE ToolsInv'
    <2>1. /\ call[c].at = "execute" /\ UNCHANGED call
          /\ ToolServices!Executor!Step(c)
      BY <1>5
      DEF ToolServices!Begin, ToolServices!registryVars, ToolServices!Executor!Step
    <2>2. /\ local[c] = "idle"
          /\ \A d \in Ids \ {c} : local'[d] = local[d] /\ answer'[d] = answer[d]
      BY <1>2, <1>5
      DEF ToolServices!Begin, ToolServices!Executor!RefuseFull, ToolServices!Executor!RefuseUnknown,
          ToolServices!Executor!Refuse, ToolServices!Executor!Execute
    <2>3. Served'
      BY <1>1, <2>1, <2>2 DEF Served, Slots
    <2> QED BY <1>1, <2>1, <2>3, SandboxStep DEF ToolsInv
  <1>6. ASSUME NEW c \in Ids, ToolServices!Finish(c) PROVE ToolsInv'
    <2>1. /\ local[c] = "returned" /\ UNCHANGED ToolServices!executorVars
          /\ call'[c].answer = IF answer[c] = "SUCCESS" THEN "SUCCESS" ELSE "FAILED"
          /\ \A d \in Ids \ {c} : call'[d] = call[d]
      BY <1>2, <1>6
      DEF ToolServices!Finish, ToolServices!Registry!Execute,
          ToolServices!Registry!Answer
    <2>2. Served'
      BY <1>1, <2>1
      DEF Served, Slots, ToolServices!executorVars, ToolServices!Executor!Outcomes
    <2> QED BY <1>1, <2>1, <2>2, SandboxUnchanged DEF ToolsInv
  <1>7. CASE ToolServices!ExecutorStep
    <2>1. UNCHANGED call
      BY <1>7 DEF ToolServices!ExecutorStep, ToolServices!registryVars
    <2>2. CASE ToolServices!Executor!Cleanup
      <3>1. UNCHANGED <<local, answer>>
        BY <2>2 DEF ToolServices!Executor!Cleanup
      <3>2. Served'
        BY <1>1, <2>1, <3>1 DEF Served, Slots
      <3> QED BY <1>1, <2>2, <3>2, SandboxCleanup DEF ToolsInv
    <2>3. ASSUME NEW c \in Ids,
                 \/ ToolServices!Executor!ToolEnds(c)
                 \/ ToolServices!Executor!TimesOut(c)
                 \/ ToolServices!Executor!Terminate(c)
                 \/ ToolServices!Executor!Continue(c)
                 \/ ToolServices!Executor!RemoveContainer(c)
                 \/ ToolServices!Executor!Removed(c)
          PROVE  ToolsInv'
      <3>1. /\ \A d \in Ids \ {c} : local'[d] = local[d] /\ answer'[d] = answer[d]
            /\ \/ local'[c] = local[c] /\ answer'[c] = answer[c]
               \/ c \in Slots
        BY <1>2, <2>3
        DEF ToolServices!Executor!ToolEnds, ToolServices!Executor!TimesOut,
            ToolServices!Executor!Terminate, ToolServices!Executor!Continue,
            ToolServices!Executor!RemoveContainer, ToolServices!Executor!Removed,
            ToolServices!Executor!Return, ToolServices!Executor!Outcomes, Slots
      <3>2. c \in Slots => local[c] # "returned" /\ call[c].at = "execute"
        BY <1>1 DEF Slots, Served, ToolServices!Executor!Outcomes
      <3>3. Served'
        BY <1>1, <2>1, <3>1, <3>2 DEF Served, Slots
      <3> QED BY <1>1, <2>3, <3>3, SandboxStep
              DEF ToolsInv, ToolServices!Executor!Step
    <2> QED BY <1>7, <2>2, <2>3 DEF ToolServices!ExecutorStep
  <1> QED BY <1>3, <1>4, <1>5, <1>6, <1>7 DEF ToolServices!Next

LEMMA ToolsSay ==
  ASSUME ToolServices!Executor!SandboxAssumption, ToolsInv
  PROVE  /\ ToolServices!SlotsMatch
         /\ ToolServices!RecordTellsTheAnswer
         /\ ToolServices!SlotsServeInvocations
  <1>1. ToolServices!Executor!InFlight = Slots
    BY DEF ToolServices!Executor!InFlight, Slots
  <1>2. ToolServices!SlotsMatch /\ ToolServices!RecordTellsTheAnswer
    BY SandboxSays DEF ToolsInv
  <1>3. \A c \in Slots : c \in Ids /\ call[c].at = "execute"
    BY DEF ToolsInv, Served, Slots
  <1>4. ToolServices!SlotsServeInvocations
    BY <1>1, <1>3 DEF ToolsInv, Served, ToolServices!SlotsServeInvocations
  <1> QED BY <1>2, <1>4

-----------------------------------------------------------------------------
(***************************************************************************)
(* AgentChat.  What a chat's client has received fits the point its chat   *)
(* has reached: nothing final while it goes on, at most the close once the *)
(* client has left, and the farewell once the route has returned.          *)
(***************************************************************************)
Terminal == {"end", "error"}
Events == {"text_delta", "tool_use", "end", "error", "close"}
ChatStates ==
  [at : Chat!Points, tool : BOOLEAN, sse : BOOLEAN, last : {"none", "end", "error"},
   left : BOOLEAN, asked : Seq(Chat!Message)]

Quiet(got) == \A i \in 1..Len(got) : got[i] \notin Terminal /\ got[i] # "close"
Silent(got) ==
  \A i \in 1..Len(got) : got[i] \notin Terminal /\ (got[i] = "close" => i = Len(got))
Parted(got, last) ==
  /\ Len(got) >= 2 /\ got[Len(got)] = "close" /\ got[Len(got) - 1] = last
  /\ \A i \in 1..(Len(got) - 2) : got[i] \notin Terminal /\ got[i] # "close"

Line(s, got) ==
  /\ s.at \in {"idle", "not_found"} => ~s.sse /\ ~s.left
  /\ s.at \in {"starting", "streaming", "closing"} => s.sse \/ s.left
  /\ s.at = "returned" => ~s.sse
  /\ s.at \in {"closing", "returned"} => s.last \in Terminal
  /\ s.sse => ~s.left
  /\ s.left => Silent(got)
  /\ ~s.left /\ s.at # "returned" => Quiet(got)
  /\ ~s.left /\ s.at = "returned" => Parted(got, s.last)

(* What the gateway is asked with ends in the chat's own message and fits. *)
Fits(c, asked) ==
  asked # <<>> =>
    /\ asked[Len(asked)] = Chat!Text(c)
    /\ \/ ~(Chat!CountContext(asked) > CompressionThreshold)
       \/ Chat!CountMessages(asked) <= Budget
       \/ Len(asked) <= 2

ChatInv ==
  /\ Chat!TypeOK
  /\ \A c \in Ids : Line(chat[c], client[c]) /\ Fits(c, chat[c].asked)

(* The client hears one event more, or the last of it.                     *)
LEMMA OneMore ==
  ASSUME NEW got \in Seq(Events), Quiet(got), NEW e \in {"text_delta", "tool_use"}
  PROVE  Append(got, e) \in Seq(Events) /\ Quiet(Append(got, e))
  BY DEF Quiet, Events, Terminal

LEMMA TheClose ==
  ASSUME NEW got \in Seq(Events), Quiet(got)
  PROVE  Append(got, "close") \in Seq(Events) /\ Silent(Append(got, "close")) /\ Silent(got)
  BY DEF Quiet, Silent, Events, Terminal

LEMMA TheFarewell ==
  ASSUME NEW got \in Seq(Events), Quiet(got), NEW last \in Terminal
  PROVE  /\ got \o <<last, "close">> \in Seq(Events)
         /\ Parted(got \o <<last, "close">>, last)
  <1> DEFINE more == got \o <<last, "close">>
  <1>1. PICK two \in Seq(Events) : two = <<last, "close">>
    <2>1. last \in Events /\ "close" \in Events
      BY DEF Events, Terminal
    <2>2. <<last, "close">> \in Seq(Events)
      BY <2>1
    <2> QED BY <2>2
  <1>2. Len(two) = 2 /\ two[1] = last /\ two[2] = "close" /\ more = got \o two
    BY <1>1
  <1> HIDE DEF more
  <1>3. more \in Seq(Events) /\ Len(got) \in Nat /\ Len(more) = Len(got) + 2
    BY <1>1, <1>2
  <1>4. more[Len(got) + 1] = last /\ more[Len(got) + 2] = "close"
    BY <1>1, <1>2
  <1>5. \A i \in 1..Len(got) : more[i] = got[i]
    BY <1>1, <1>2
  <1>6. Parted(more, last)
    <2>1. \A i \in 1..Len(got) : more[i] \notin Terminal /\ more[i] # "close"
      BY <1>5 DEF Quiet
    <2>2. Len(more) - 2 = Len(got) /\ Len(more) - 1 = Len(got) + 1 /\ Len(more) >= 2
      BY <1>3
    <2> QED BY <1>3, <1>4, <2>1, <2>2 DEF Parted
  <1> QED BY <1>3, <1>6 DEF more

(* The principle of the least number, in place of an induction.            *)
LEMMA LeastNumber ==
  ASSUME NEW T \in SUBSET Nat, T # {}
  PROVE  \E x \in T : \A y \in T : x <= y
  <1> DEFINE R == OpToRel(<, Nat)
  <1>1. IsWellFoundedOn(R, Nat)
    BY NatLessThanWellFounded
  <1>2. \A x, y \in Nat : y < x => <<y, x>> \in R
    BY DEF OpToRel
  <1> HIDE DEF R
  <1>3. PICK x \in T : \A y \in T : <<y, x>> \notin R
    BY <1>1, WFMin
  <1>4. \A y \in T : x \in Nat /\ y \in Nat /\ ~(y < x)
    BY <1>2, <1>3
  <1> QED BY <1>3, <1>4

LEMMA LeastOfSome ==
  ASSUME NEW T \in SUBSET Nat, T # {}
  PROVE  Chat!Min(T) \in T /\ \A y \in T : Chat!Min(T) <= y
  BY LeastNumber DEF Chat!Min

(* What is left of a long history is its end, and fits the budget unless   *)
(* it is the two messages that are always kept.                            *)
LEMMA CompressedFits ==
  ASSUME NEW ms \in Seq(Chat!Message), Len(ms) > 2
  PROVE  LET rest == Chat!Compressed(ms) IN
         /\ rest \in Seq(Chat!Message) /\ Len(rest) \in 1..Len(ms)
         /\ rest[Len(rest)] = ms[Len(ms)]
         /\ Chat!CountMessages(rest) <= Budget \/ Len(rest) = 2
  <1> DEFINE n == Len(ms)
             within == {i \in 1..n : Chat!CountMessages(Chat!From(ms, i)) <= Budget}
             least == Chat!Min(within \cup {n - 1})
  <1>1. n \in Nat /\ n > 2 /\ n = Len(ms)
    OBVIOUS
  <1>2. Chat!Max({1, n - 1}) = n - 1
    <2> HIDE DEF n
    <2>1. \E x \in {1, n - 1} : \A y \in {1, n - 1} : x >= y
      BY <1>1
    <2> QED BY <1>1, <2>1 DEF Chat!Max
  <1>3. Chat!Compressed(ms) = Chat!From(ms, least)
    <2>1. Chat!KeepFrom(ms) = least
      BY <1>2, Zenon DEF Chat!KeepFrom
    <2>2. Chat!Compressed(ms) = Chat!From(ms, Chat!KeepFrom(ms))
      BY <1>1 DEF Chat!Compressed
    <2> QED BY <2>1, <2>2
  <1> HIDE DEF n
  <1>4. least \in within \cup {n - 1}
    <2>1. within \cup {n - 1} \in SUBSET Nat
      BY <1>1
    <2> HIDE DEF within
    <2> QED BY <2>1, LeastOfSome
  <1>5. least \in 1..n /\ (Chat!CountMessages(Chat!From(ms, least)) <= Budget \/ least = n - 1)
    BY <1>1, <1>4
  <1> HIDE DEF least
  <1>6. PICK rest : rest = SubSeq(ms, least, n)
    OBVIOUS
  <1>7. rest = Chat!Compressed(ms)
    BY <1>1, <1>3, <1>6 DEF Chat!From
  <1>8. rest \in Seq(Chat!Message) /\ Len(rest) = n - least + 1
    BY <1>1, <1>5, <1>6
  <1>9. rest[n - least + 1] = ms[n]
    <2>1. \A i \in 1..(n - least + 1) : rest[i] = ms[i + least - 1]
      BY <1>1, <1>5, <1>6
    <2> QED BY <1>1, <1>5, <2>1
  <1> QED BY <1>1, <1>3, <1>5, <1>7, <1>8, <1>9

LEMMA AskedIsFit ==
  ASSUME ChatInv, NEW c \in Ids
  PROVE  Chat!Asked(c) \in Seq(Chat!Message) /\ Fits(c, Chat!Asked(c))
  <1> DEFINE said == Append(messages, Chat!Text(c))
  <1>2. messages \in Seq(Chat!Message) /\ Chat!Text(c) \in Chat!Message
    BY DEF ChatInv, Chat!TypeOK, Chat!Text, Chat!Message, Chat!Kinds
  <1>4. Chat!Asked(c) = IF Chat!CountContext(said) > CompressionThreshold THEN Chat!Compressed(said)
                                                               ELSE said
    BY DEF Chat!Asked, Chat!Say
  <1> HIDE DEF said
  <1>3. said \in Seq(Chat!Message) /\ Len(said) >= 1 /\ said[Len(said)] = Chat!Text(c)
    <2>1. PICK m \in Chat!Message : m = Chat!Text(c)
      BY <1>2
    <2>2. said = Append(messages, m)
      BY <2>1 DEF said
    <2>3. said \in Seq(Chat!Message) /\ Len(said) = Len(messages) + 1
      BY <1>2, <2>2
    <2>4. said[Len(messages) + 1] = m
      BY <1>2, <2>2
    <2>5. Len(messages) \in Nat
      BY <1>2
    <2>6. Len(said) >= 1 /\ said[Len(said)] = m
      BY <2>3, <2>4, <2>5
    <2> QED BY <2>1, <2>3, <2>6, Zenon
  <1>5. CASE ~(Chat!CountContext(said) > CompressionThreshold)
    BY <1>3, <1>4, <1>5 DEF Fits
  <1>6. CASE Chat!CountContext(said) > CompressionThreshold /\ Len(said) <= 2
    BY <1>3, <1>4, <1>6 DEF Fits, Chat!Compressed
  <1>7. CASE Chat!CountContext(said) > CompressionThreshold /\ Len(said) > 2
    BY <1>3, <1>4, <1>7, CompressedFits DEF Fits
  <1> QED BY <1>3, <1>5, <1>6, <1>7

LEMMA ChatInit ==
  ASSUME Chat!ChatAssumption, Chat!Init PROVE ChatInv
  <1>1. PICK fresh : fresh = Chat!Fresh
    OBVIOUS
  <1>2. /\ fresh \in ChatStates /\ fresh.at = "idle" /\ ~fresh.sse /\ ~fresh.left
        /\ fresh.asked = <<>>
    <2>1. <<>> \in Seq(Chat!Message)
      OBVIOUS
    <2> QED BY <1>1, <2>1 DEF Chat!Fresh, ChatStates, Chat!Points, Chat!Ended
  <1>3. /\ open = TRUE /\ messages = <<>> /\ added = 0
        /\ chat = [c \in Ids |-> fresh] /\ client = [c \in Ids |-> <<>>]
    BY <1>1 DEF Chat!Init
  <1>4. MaxAdded \in Nat
    BY DEF Chat!ChatAssumption
  <1>5. /\ messages \in Seq(Chat!Message) /\ client \in [Ids -> Seq(Events)]
        /\ added \in 0..MaxAdded /\ open \in BOOLEAN
    BY <1>3, <1>4
  <1>6. chat \in [Ids -> ChatStates]
    BY <1>2, <1>3, Zenon
  <1>7. ASSUME NEW c \in Ids PROVE Line(fresh, <<>>) /\ Fits(c, <<>>)
    BY <1>2 DEF Line, Fits, Quiet
  <1> QED BY <1>2, <1>3, <1>5, <1>6, <1>7
          DEF ChatInv, Chat!TypeOK, ChatStates, Events

(* A step of one chat leaves the others and their clients alone.           *)
LEMMA ChatMoves ==
  ASSUME ChatInv, NEW c \in Ids, NEW s \in ChatStates, NEW got \in Seq(Events),
         chat' = [chat EXCEPT ![c] = s], client' = [client EXCEPT ![c] = got],
         open' \in BOOLEAN, messages' \in Seq(Chat!Message), added' \in 0..MaxAdded,
         Line(s, got), Fits(c, s.asked)
  PROVE  ChatInv'
  <1>1. chat \in [Ids -> ChatStates] /\ client \in [Ids -> Seq(Events)]
    BY DEF ChatInv, Chat!TypeOK, ChatStates, Events
  <1>2. PICK states, gots : states = chat' /\ gots = client'
    OBVIOUS
  <1>3. /\ states \in [Ids -> ChatStates] /\ states[c] = s
        /\ \A d \in Ids \ {c} : states[d] = chat[d]
    BY <1>1, <1>2
  <1>4. /\ gots \in [Ids -> Seq(Events)] /\ gots[c] = got
        /\ \A d \in Ids \ {c} : gots[d] = client[d]
    BY <1>1, <1>2
  <1>5. \A d \in Ids : Line(states[d], gots[d]) /\ Fits(d, states[d].asked)
    BY <1>3, <1>4, Zenon DEF ChatInv
  <1>6. Chat!TypeOK'
    BY <1>2, <1>3, <1>4 DEF Chat!TypeOK, ChatStates, Events
  <1>7. (\A d \in Ids : Line(chat[d], client[d]) /\ Fits(d, chat[d].asked))'
    BY <1>2, <1>5 DEF Line, Fits
  <1> QED BY <1>6, <1>7 DEF ChatInv

LEMMA ChatCardinality == \A S : Chat!Cardinality(S) = Cardinality(S)
  BY DEF Chat!Cardinality, Cardinality

LEMMA ChatStep ==
  ASSUME Chat!ChatAssumption, ChatInv, NEW c \in Ids, Chat!Step(c)
  PROVE  ChatInv'
  <1>1. PICK s \in ChatStates, got \in Seq(Events) : s = chat[c] /\ got = client[c]
    BY DEF ChatInv, Chat!TypeOK, ChatStates, Events
  <1>2. Line(s, got) /\ Fits(c, s.asked)
    BY <1>1 DEF ChatInv
  <1>3. /\ open \in BOOLEAN /\ messages \in Seq(Chat!Message) /\ added \in 0..MaxAdded
        /\ MaxAdded \in Nat /\ chat \in [Ids -> ChatStates] /\ client \in [Ids -> Seq(Events)]
    BY DEF Chat!ChatAssumption, ChatInv, Chat!TypeOK, ChatStates, Events
  <1>4. ASSUME NEW t \in ChatStates, NEW more \in Seq(Events),
               chat' = [chat EXCEPT ![c] = t], client' = [client EXCEPT ![c] = more],
               Line(t, more), Fits(c, t.asked),
               UNCHANGED <<open, messages, added>>
        PROVE  ChatInv'
    BY <1>3, <1>4, ChatMoves
  <1>5. client = [client EXCEPT ![c] = got] /\ chat = [chat EXCEPT ![c] = s]
    BY <1>1, <1>3
  <1>6. Quiet(got) => Silent(got)
    BY TheClose
  <1>7. Chat!Adding => added' \in 0..MaxAdded
    BY <1>3 DEF Chat!Adding
  <1>11. ASSUME Chat!Post(c) PROVE ChatInv'
    <2>1. CASE open
      <3> DEFINE t == [s EXCEPT !.at = "starting", !.sse = TRUE]
      <3>1. s.at = "idle" /\ chat' = [chat EXCEPT ![c] = t]
        BY <1>1, <1>11, <2>1 DEF Chat!Post
      <3>2. /\ t \in ChatStates /\ t.at = "starting" /\ t.sse /\ t.left = s.left
            /\ t.asked = s.asked
        BY DEF ChatStates, Chat!Points
      <3> HIDE DEF t
      <3>3. Line(t, got)
        BY <1>2, <3>1, <3>2 DEF Line
      <3> QED BY <1>2, <1>4, <1>5, <1>11, <3>1, <3>2, <3>3 DEF Chat!Post
    <2>2. CASE ~open
      <3> DEFINE t == [s EXCEPT !.at = "not_found"]
      <3>1. s.at = "idle" /\ chat' = [chat EXCEPT ![c] = t]
        BY <1>1, <1>11, <2>2 DEF Chat!Post
      <3>2. /\ t \in ChatStates /\ t.at = "not_found" /\ t.sse = s.sse /\ t.left = s.left
            /\ t.asked = s.asked
        BY DEF ChatStates, Chat!Points, Chat!Ended
      <3> HIDE DEF t
      <3>3. Line(t, got)
        BY <1>2, <3>1, <3>2 DEF Line
      <3> QED BY <1>2, <1>4, <1>5, <1>11, <3>1, <3>2, <3>3 DEF Chat!Post
    <2> QED BY <2>1, <2>2
  <1>12. ASSUME Chat!Initialize(c) PROVE ChatInv'
    <2>1. Chat!Asked(c) \in Seq(Chat!Message) /\ Fits(c, Chat!Asked(c))
      BY AskedIsFit
    <2>2. PICK asked \in Seq(Chat!Message) : asked = Chat!Asked(c)
      BY <2>1
    <2>3. /\ s.at = "starting" /\ messages' = asked /\ UNCHANGED <<open, client>>
          /\ added' \in 0..MaxAdded
      BY <1>1, <1>7, <1>12, <2>2 DEF Chat!Initialize
    <2>4. CASE chat' = [chat EXCEPT ![c].at = "streaming", ![c].asked = asked]
      <3> DEFINE t == [s EXCEPT !.at = "streaming", !.asked = asked]
      <3>1. chat' = [chat EXCEPT ![c] = t]
        BY <1>1, <2>4
      <3>2. /\ t \in ChatStates /\ t.at = "streaming" /\ t.sse = s.sse /\ t.left = s.left
            /\ t.asked = asked
        BY DEF ChatStates, Chat!Points
      <3> HIDE DEF t
      <3>3. Line(t, got)
        BY <1>2, <2>3, <3>2 DEF Line
      <3> QED BY <1>3, <1>5, <2>1, <2>2, <2>3, <3>1, <3>2, <3>3, ChatMoves
    <2>5. CASE chat' = [chat EXCEPT ![c].at = "closing", ![c].last = "error"]
      <3> DEFINE t == [s EXCEPT !.at = "closing", !.last = "error"]
      <3>1. chat' = [chat EXCEPT ![c] = t]
        BY <1>1, <2>5
      <3>2. /\ t \in ChatStates /\ t.at = "closing" /\ t.sse = s.sse /\ t.left = s.left
            /\ t.asked = s.asked /\ t.last = "error"
        BY DEF ChatStates, Chat!Points
      <3> HIDE DEF t
      <3>3. Line(t, got)
        BY <1>2, <2>3, <3>2 DEF Line, Terminal
      <3> QED BY <1>2, <1>3, <1>5, <2>2, <2>3, <3>1, <3>2, <3>3, ChatMoves
    <2> QED BY <1>12, <2>2, <2>4, <2>5 DEF Chat!Initialize
  <1>13. ASSUME NEW e \in {"text_delta", "tool_use"}, s.at = "streaming",
                client' = Chat!Received(c, e)
         PROVE  \E more \in Seq(Events) :
                  client' = [client EXCEPT ![c] = more] /\ Line(s, more)
    <2>1. CASE chat[c].sse
      <3>1. Quiet(got)
        BY <1>1, <1>2, <1>13, <2>1 DEF Line
      <3>2. PICK more \in Seq(Events) : more = Append(got, e) /\ Quiet(more)
        BY <3>1, OneMore
      <3>3. client' = [client EXCEPT ![c] = more]
        BY <1>1, <1>13, <2>1, <3>2 DEF Chat!Received
      <3>4. Line(s, more)
        BY <1>1, <1>2, <1>13, <2>1, <3>2 DEF Line
      <3> QED BY <3>3, <3>4
    <2>2. CASE ~chat[c].sse
      BY <1>2, <1>5, <1>13, <2>2 DEF Chat!Received
    <2> QED BY <2>1, <2>2
  <1>14. ASSUME Chat!TextDelta(c) PROVE ChatInv'
    <2>1. s.at = "streaming" /\ client' = Chat!Received(c, "text_delta")
      BY <1>1, <1>14 DEF Chat!TextDelta
    <2> QED BY <1>2, <1>4, <1>5, <1>13, <1>14, <2>1 DEF Chat!TextDelta
  <1>15. ASSUME Chat!ToolBegins(c) PROVE ChatInv'
    <2> DEFINE t == [s EXCEPT !.tool = TRUE]
    <2>1. s.at = "streaming" /\ chat' = [chat EXCEPT ![c] = t]
      BY <1>1, <1>15 DEF Chat!ToolBegins
    <2>2. /\ t \in ChatStates /\ t.at = s.at /\ t.sse = s.sse /\ t.left = s.left
          /\ t.asked = s.asked /\ t.last = s.last
      BY DEF ChatStates
    <2> HIDE DEF t
    <2>3. Line(t, got)
      BY <1>2, <2>2 DEF Line
    <2> QED BY <1>2, <1>4, <1>5, <1>15, <2>1, <2>2, <2>3 DEF Chat!ToolBegins
  <1>16. ASSUME Chat!ToolStops(c) PROVE ChatInv'
    <2> DEFINE t == [s EXCEPT !.tool = FALSE]
    <2>1. /\ s.at = "streaming" /\ chat' = [chat EXCEPT ![c] = t]
          /\ client' = Chat!Received(c, "tool_use") /\ UNCHANGED open
          /\ messages' = Append(messages, Chat!ToolUse(c)) /\ added' \in 0..MaxAdded
      BY <1>1, <1>7, <1>16 DEF Chat!ToolStops, Chat!Say
    <2>2. /\ t \in ChatStates /\ t.at = s.at /\ t.sse = s.sse /\ t.left = s.left
          /\ t.asked = s.asked /\ t.last = s.last
      BY DEF ChatStates
    <2> HIDE DEF t
    <2>3. PICK more \in Seq(Events) : client' = [client EXCEPT ![c] = more] /\ Line(s, more)
      BY <1>13, <2>1
    <2>4. Line(t, more)
      BY <2>2, <2>3 DEF Line
    <2>5. messages' \in Seq(Chat!Message)
      <3>1. Chat!ToolUse(c) \in Chat!Message
        BY DEF Chat!ToolUse, Chat!Message, Chat!Kinds
      <3> QED BY <1>3, <2>1, <3>1
    <2> QED BY <1>2, <1>3, <2>1, <2>2, <2>3, <2>4, <2>5, ChatMoves
  <1>17. ASSUME Chat!StreamEnds(c) PROVE ChatInv'
    <2>1. PICK last \in {"end", "error"} :
            chat' = [chat EXCEPT ![c].at = "closing", ![c].last = last]
      BY <1>17 DEF Chat!StreamEnds
    <2> DEFINE t == [s EXCEPT !.at = "closing", !.last = last]
    <2>2. s.at = "streaming" /\ chat' = [chat EXCEPT ![c] = t]
      BY <1>1, <1>17, <2>1 DEF Chat!StreamEnds
    <2>3. /\ t \in ChatStates /\ t.at = "closing" /\ t.sse = s.sse /\ t.left = s.left
          /\ t.asked = s.asked /\ t.last = last
      BY DEF ChatStates, Chat!Points
    <2> HIDE DEF t
    <2>4. Line(t, got)
      BY <1>2, <2>2, <2>3 DEF Line, Terminal
    <2> QED BY <1>2, <1>4, <1>5, <1>17, <2>2, <2>3, <2>4 DEF Chat!StreamEnds
  <1>18. ASSUME Chat!Close(c) PROVE ChatInv'
    <2> DEFINE t == [s EXCEPT !.at = "returned", !.sse = FALSE]
    <2>1. /\ s.at = "closing" /\ chat' = [chat EXCEPT ![c] = t]
          /\ client' = [client EXCEPT ![c] = got \o Chat!Farewell(c)]
      BY <1>1, <1>18 DEF Chat!Close
    <2>2. /\ t \in ChatStates /\ t.at = "returned" /\ ~t.sse /\ t.left = s.left
          /\ t.asked = s.asked /\ t.last = s.last
      BY DEF ChatStates, Chat!Points, Chat!Ended
    <2> HIDE DEF t
    <2>3. s.last \in Terminal
      BY <1>2, <2>1 DEF Line
    <2>4. CASE s.sse
      <3>1. Quiet(got) /\ ~s.left
        BY <1>2, <2>1, <2>4 DEF Line
      <3>2. PICK more \in Seq(Events) :
              more = got \o <<s.last, "close">> /\ Parted(more, s.last)
        BY <2>3, <3>1, TheFarewell
      <3>3. client' = [client EXCEPT ![c] = more]
        BY <1>1, <2>1, <2>4, <3>2 DEF Chat!Farewell
      <3>4. Line(t, more)
        BY <2>2, <2>3, <3>1, <3>2 DEF Line
      <3> QED BY <1>2, <1>4, <1>18, <2>1, <2>2, <3>3, <3>4 DEF Chat!Close
    <2>5. CASE ~s.sse
      <3>1. client' = [client EXCEPT ![c] = got]
        BY <1>1, <2>1, <2>5 DEF Chat!Farewell
      <3>2. Line(t, got)
        BY <1>2, <2>1, <2>2, <2>3, <2>5 DEF Line
      <3> QED BY <1>2, <1>4, <1>18, <2>1, <2>2, <3>1, <3>2 DEF Chat!Close
    <2> QED BY <2>4, <2>5
  <1>19. ASSUME s.sse, NEW t \in ChatStates, t.at = s.at, t.last = s.last, ~t.sse, t.left
         PROVE  /\ Line(t, got)
                /\ Append(got, "close") \in Seq(Events)
                /\ Line(t, Append(got, "close"))
    <2>1. s.at \in {"starting", "streaming", "closing"} /\ Quiet(got)
      BY <1>2, <1>19 DEF Line, ChatStates, Chat!Points, Chat!Ended
    <2> QED BY <1>2, <1>19, <2>1, TheClose DEF Line
  <1>20. ASSUME Chat!Disconnect(c) PROVE ChatInv'
    <2> DEFINE t == [s EXCEPT !.sse = FALSE, !.left = TRUE]
    <2>1. s.sse /\ chat' = [chat EXCEPT ![c] = t]
      BY <1>1, <1>20 DEF Chat!Disconnect
    <2>2. /\ t \in ChatStates /\ t.at = s.at /\ ~t.sse /\ t.left
          /\ t.asked = s.asked /\ t.last = s.last
      BY DEF ChatStates
    <2> HIDE DEF t
    <2>3. Line(t, got)
      BY <1>19, <2>1, <2>2
    <2> QED BY <1>2, <1>4, <1>5, <1>20, <2>1, <2>2, <2>3 DEF Chat!Disconnect
  <1>21. ASSUME Chat!IdleClose(c) PROVE ChatInv'
    <2> DEFINE t == [s EXCEPT !.sse = FALSE, !.left = TRUE]
    <2>1. /\ s.sse /\ chat' = [chat EXCEPT ![c] = t]
          /\ client' = [client EXCEPT ![c] = Append(got, "close")]
      BY <1>1, <1>21 DEF Chat!IdleClose
    <2>2. /\ t \in ChatStates /\ t.at = s.at /\ ~t.sse /\ t.left
          /\ t.asked = s.asked /\ t.last = s.last
      BY DEF ChatStates
    <2> HIDE DEF t
    <2>3. Append(got, "close") \in Seq(Events) /\ Line(t, Append(got, "close"))
      BY <1>19, <2>1, <2>2
    <2> QED BY <1>2, <1>4, <1>21, <2>1, <2>2, <2>3 DEF Chat!IdleClose
  <1>22. ASSUME Chat!AddToolResult(c) PROVE ChatInv'
    <2>1. /\ messages' = Append(messages, Chat!ToolResult(c)) /\ added' \in 0..MaxAdded
          /\ UNCHANGED <<open, chat, client>>
      BY <1>7, <1>22 DEF Chat!AddToolResult, Chat!Say
    <2>2. messages' \in Seq(Chat!Message)
      <3>1. Chat!ToolResult(c) \in Chat!Message
        BY DEF Chat!ToolResult, Chat!Message, Chat!Kinds
      <3> QED BY <1>3, <2>1, <3>1
    <2> QED BY <1>2, <1>3, <1>5, <2>1, <2>2, ChatMoves
  <1> QED BY <1>11, <1>12, <1>14, <1>15, <1>16, <1>17, <1>18, <1>20, <1>21, <1>22
          DEF Chat!Step

LEMMA ChatNext ==
  ASSUME Chat!ChatAssumption, ChatInv, [Chat!Next]_chatVars PROVE ChatInv'
  <1>1. ASSUME NEW rest \in BOOLEAN, open' = rest, UNCHANGED <<messages, added, chat, client>>
        PROVE  ChatInv'
    BY <1>1 DEF ChatInv, Chat!TypeOK, Line, Fits
  <1>2. CASE Chat!CloseSession
    BY <1>1, <1>2 DEF Chat!CloseSession
  <1>3. CASE UNCHANGED chatVars
    BY <1>1, <1>3 DEF chatVars, ChatInv, Chat!TypeOK
  <1> QED BY <1>2, <1>3, ChatStep DEF Chat!Next

LEMMA ChatSays == ChatInv => Chat!AskedFits /\ Chat!ClientHearsTheEnd
  <1> SUFFICES ASSUME ChatInv PROVE Chat!AskedFits /\ Chat!ClientHearsTheEnd
    OBVIOUS
  <1>1. Chat!AskedFits
    BY DEF ChatInv, Fits, Chat!AskedFits, Chat!Last
  <1>2. ASSUME NEW c \in Ids
        PROVE  LET got == client[c]
                   terminal == {i \in DOMAIN got : got[i] \in {"end", "error"}}
               IN /\ Chat!Cardinality(terminal) <= 1
                  /\ \A i \in terminal : i = Len(got) - 1 /\ got[i] = chat[c].last
                  /\ \A i \in DOMAIN got : got[i] = "close" => i = Len(got)
                  /\ chat[c].at = "returned" /\ ~chat[c].left => terminal # {}
    <2>1. PICK s \in ChatStates, got \in Seq(Events) : s = chat[c] /\ got = client[c]
      BY DEF ChatInv, Chat!TypeOK, ChatStates, Events
    <2>2. Line(s, got) /\ Len(got) \in Nat /\ DOMAIN got = 1..Len(got)
      BY <2>1 DEF ChatInv
    <2> DEFINE terminal == {i \in DOMAIN got : got[i] \in {"end", "error"}}
               Wanted == /\ Cardinality(terminal) <= 1
                         /\ \A i \in terminal : i = Len(got) - 1 /\ got[i] = s.last
                         /\ \A i \in DOMAIN got : got[i] = "close" => i = Len(got)
                         /\ s.at = "returned" /\ ~s.left => terminal # {}
    <2>3. Cardinality({}) = 0 /\ \A i : Cardinality({i}) = 1
      <3>1. Cardinality({}) = 0
        BY FS_EmptySet, Zenon
      <3>2. \A i : Cardinality({i}) = 1
        BY FS_Singleton, Zenon
      <3> QED BY <3>1, <3>2
    <2>4. ASSUME s.left \/ s.at # "returned" PROVE Wanted
      <3>1. Silent(got)
        BY <2>2, <2>4, TheClose DEF Line
      <3>2. terminal = {} /\ \A i \in DOMAIN got : got[i] = "close" => i = Len(got)
        BY <2>2, <3>1 DEF Silent, Terminal
      <3> HIDE DEF terminal
      <3> QED BY <2>3, <2>4, <3>2
    <2>5. ASSUME ~s.left, s.at = "returned" PROVE Wanted
      <3>1. Parted(got, s.last) /\ s.last \in Terminal
        BY <2>2, <2>5 DEF Line
      <3>2. terminal = {Len(got) - 1} /\ got[Len(got) - 1] = s.last
        BY <2>2, <3>1 DEF Parted, Terminal
      <3>3. \A i \in DOMAIN got : got[i] = "close" => i = Len(got)
        BY <2>2, <3>1 DEF Parted, Terminal
      <3> HIDE DEF terminal
      <3>4. terminal # {} /\ \A i \in terminal : i = Len(got) - 1 /\ got[i] = s.last
        BY <3>2, Zenon
      <3>5. Cardinality(terminal) = 1
        BY <2>3, <3>2, Zenon
      <3>6. Cardinality(terminal) <= 1
        BY <3>5
      <3> QED BY <3>3, <3>4, <3>6
    <2> QED BY <2>1, <2>4, <2>5, ChatCardinality, Zenon
  <1>3. Chat!ClientHearsTheEnd
    BY <1>2, Zenon DEF Chat!ClientHearsTheEnd
  <1> QED BY <1>1, <1>3
=============================================================================
