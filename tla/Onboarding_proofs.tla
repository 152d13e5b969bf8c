-------------------------- MODULE Onboarding_proofs --------------------------
(***************************************************************************)
(* Theorems about Onboarding, for any number of steps, calls and faults,   *)
(* with proofs checked by TLAPS.                                           *)
(***************************************************************************)
EXTENDS Onboarding, TLAPS

-----------------------------------------------------------------------------
(***************************************************************************)
(* Type correctness.                                                       *)
(***************************************************************************)
CallType == [at : Points, kind : Kinds, step : Steps,
             own : Session \cup {NoSession},
             verdict : {"none", "valid", "invalid"}, passed : BOOLEAN]

LEMMA InitialTyped == Initial \in Session /\ Fresh \in CallType
  <1>1. 1 \in Steps
    BY OnboardingAssumption DEF Steps
  <1>2. Initial \in Session
    BY <1>1 DEF Initial, Session, Data
  <1>3. Fresh \in CallType
    BY <1>1 DEF Fresh, CallType, Points, Kinds
  <1> QED BY <1>2, <1>3

LEMMA AcceptTyped ==
  ASSUME NEW s \in Session, NEW k \in Steps, NEW r \in Calls
  PROVE  Accept(s, k, r) \in Session
  <1> DEFINE a == Accept(s, k, r)
  <1>1. a.step \in Steps
    BY OnboardingAssumption DEF Accept, Steps, Session
  <1>2. a.completed \in SUBSET Steps
    BY DEF Accept, Session, Reset
  <1>3. a.status \in [Steps -> {"pending", "in_progress", "completed", "failed"}]
    BY DEF Accept, Session
  <1>4. a.data \in [Steps -> Data]
    BY DEF Accept, Session, Data
  <1> QED BY <1>1, <1>2, <1>3, <1>4 DEF Accept, Session

LEMMA RejectTyped ==
  ASSUME NEW s \in Session, NEW k \in Steps
  PROVE  Reject(s, k) \in Session
  BY DEF Reject, Session

LEMMA BackTyped ==
  ASSUME NEW s \in Session, s.step > 1
  PROVE  [s EXCEPT !.step = @ - 1] \in Session
  <1>1. s.step - 1 \in Steps
    BY OnboardingAssumption DEF Session, Steps
  <1> QED BY <1>1 DEF Session

-----------------------------------------------------------------------------
(***************************************************************************)
(* The inductive invariant.  Sessions are only ever copied, moved back a   *)
(* step, or changed by Judge, so what holds of every copy is kept if a     *)
(* submission, once found valid, remains so.  The properties are therefore *)
(* stated of a session s and the calls c that submitted its data; a call   *)
(* at a given point moreover has what the code has established by then.    *)
(***************************************************************************)
Vouched(c, d, k) ==
  d # NoData /\ c[d].kind = "submit" /\ c[d].step = k /\ c[d].verdict = "valid"

Good(s, c) ==
  /\ N \in s.completed => s.completed = Steps
  /\ \A k \in Steps :
       /\ s.status[k] = "completed" => k \in s.completed
       /\ k \in s.completed => /\ s.status[k] \in {"completed", "failed"}
                               /\ Vouched(c, s.data[k], k)

RulesVouched(c) == \E r \in Calls : Vouched(c, r, Rules)

Sound(x) ==
  /\ x.at \in {"fill", "judge", "persist", "store"} => x.own # NoSession
  /\ x.at = "judge" => x.kind = "submit"
  /\ x.at \in {"idle", "read", "load", "fill", "judge"} => x.verdict = "none"
  /\ x.at = "activate" => x.passed

Fine(x, c) ==
  /\ Sound(x)
  /\ x.own # NoSession => Good(x.own, c)
  /\ x.passed => RulesVouched(c)

IInv ==
  /\ TypeOK
  /\ \A r \in Calls : Fine(call[r], call)
  /\ table.session # NoSession => Good(table.session, call)
  /\ cache # NoSession => Good(cache, call)
  /\ live => RulesVouched(call)

LEMMA InvInit == Init => IInv
  <1> SUFFICES ASSUME Init PROVE IInv
    OBVIOUS
  <1>1. Fresh \in CallType
    BY InitialTyped
  <1>2. TypeOK
    <2>1. repaired \subseteq {"insert", "select"}
      BY OnboardingAssumption DEF Init
    <2>2. call \in [Calls -> CallType]
      BY <1>1 DEF Init
    <2>3. table \in [session : Session \cup {NoSession},
                     status : {"in_progress", "completed"}]
      BY DEF Init
    <2>4. cache \in Session \cup {NoSession} /\ live \in BOOLEAN /\ turns \in BOOLEAN
      BY DEF Init
    <2>5. accepted \in [Steps -> Data]
      BY DEF Init, Data
    <2>6. faults \in 0..MaxFaults
      BY OnboardingAssumption DEF Init
    <2> QED BY <2>1, <2>2, <2>3, <2>4, <2>5, <2>6 DEF TypeOK, CallType
  <1>3. Fine(Fresh, call)
    BY DEF Fine, Sound, Fresh
  <1>4. \A r \in Calls : Fine(call[r], call)
    BY <1>3 DEF Init
  <1>5. table.session = NoSession /\ cache = NoSession /\ ~live
    BY DEF Init
  <1> QED BY <1>2, <1>4, <1>5 DEF IInv

\* The first session holds nothing.
LEMMA InitialGood == ASSUME NEW c PROVE Good(Initial, c)
  BY OnboardingAssumption DEF Good, Initial, Steps

\* Going back changes nothing the properties speak of.
LEMMA BackGood ==
  ASSUME NEW s \in Session, NEW c, Good(s, c)
  PROVE  Good([s EXCEPT !.step = @ - 1], c)
  BY DEF Good, Session

\* Submissions found valid in c remain so in d.
Grows(c, d) ==
  \A e \in Calls, k \in Steps : Vouched(c, e, k) => Vouched(d, e, k)

LEMMA GoodStays ==
  ASSUME NEW c, NEW d, Grows(c, d), NEW s \in Session, Good(s, c)
  PROVE  Good(s, d)
  <1> SUFFICES ASSUME NEW k \in Steps, k \in s.completed
               PROVE  Vouched(d, s.data[k], k)
    BY DEF Good
  <1>1. Vouched(c, s.data[k], k)
    BY DEF Good
  <1>2. s.data[k] \in Calls
    BY <1>1 DEF Vouched, Session, Data
  <1> QED BY <1>1, <1>2 DEF Grows

LEMMA RulesStay ==
  ASSUME NEW c, NEW d, Grows(c, d), RulesVouched(c)
  PROVE  RulesVouched(d)
  <1>1. Rules \in Steps
    BY OnboardingAssumption DEF Rules, Steps
  <1> QED BY <1>1 DEF RulesVouched, Grows

\* What a step of one call, from y to x, may not do to its submission.
Follows(y, x) ==
  (x.kind = y.kind /\ x.step = y.step /\ x.verdict = y.verdict)
    \/ y.verdict = "none"

LEMMA OneCall ==
  ASSUME NEW c \in [Calls -> CallType], \A q \in Calls : Fine(c[q], c),
         NEW r \in Calls, NEW x \in CallType, Follows(c[r], x), Sound(x),
         NEW d, d = [c EXCEPT ![r] = x],
         x.own # NoSession => Good(x.own, c) \/ Good(x.own, d),
         x.passed => RulesVouched(c)
  PROVE  /\ d \in [Calls -> CallType]
         /\ Grows(c, d)
         /\ \A q \in Calls : Fine(d[q], d)
  <1>1. d \in [Calls -> CallType]
    OBVIOUS
  <1>2. Grows(c, d)
    BY DEF Grows, Vouched, Follows
  <1>3. ASSUME NEW q \in Calls
        PROVE  Fine(d[q], d)
    <2>1. CASE q = r
      <3>1. d[q] = x
        BY <2>1
      <3>2. x.own # NoSession => Good(x.own, d)
        BY <1>2, GoodStays DEF CallType
      <3>3. x.passed => RulesVouched(d)
        BY <1>2, RulesStay
      <3> QED BY <3>1, <3>2, <3>3 DEF Fine
    <2>2. CASE q # r
      <3>1. d[q] = c[q] /\ c[q] \in CallType
        BY <2>2
      <3>2. c[q].own # NoSession => Good(c[q].own, d)
        BY <1>2, <3>1, GoodStays DEF CallType, Fine
      <3>3. c[q].passed => RulesVouched(d)
        BY <1>2, RulesStay DEF Fine
      <3> QED BY <3>1, <3>2, <3>3 DEF Fine
    <2> QED BY <2>1, <2>2
  <1> QED BY <1>1, <1>2, <1>3

\* An accepted submission is all the copy needs to remain good.
LEMMA AcceptGood ==
  ASSUME NEW c, NEW s \in Session, NEW k \in Steps, NEW r \in Calls,
         Good(s, c), k = N => PriorSteps(s), Vouched(c, r, k)
  PROVE  Good(Accept(s, k, r), c)
  <1> DEFINE a == Accept(s, k, r)
  <1>0. k \in 1..N /\ N \in Nat /\ s.completed \subseteq 1..N
    BY OnboardingAssumption DEF Steps, Session
  <1>1. N \in a.completed => a.completed = Steps
    <2>1. CASE k = N
      BY <1>0, <2>1 DEF Accept, Reset, PriorSteps, Steps
    <2>2. CASE k # N
      <3> SUFFICES ASSUME N \in a.completed PROVE a.completed = Steps
        OBVIOUS
      <3>1. N \in s.completed /\ N \notin Reset(s, k)
        BY <2>2 DEF Accept
      <3>2. s.completed = Steps
        BY <3>1 DEF Good
      <3>3. N \in Reset(s, k)
        BY <1>0, <2>2, <3>2 DEF Reset, Steps
      <3> QED BY <3>1, <3>3
    <2> QED BY <2>1, <2>2
  <1>2. ASSUME NEW j \in Steps
        PROVE  /\ a.status[j] = "completed" => j \in a.completed
               /\ j \in a.completed => /\ a.status[j] \in {"completed", "failed"}
                                       /\ Vouched(c, a.data[j], j)
    <2>1. CASE j = k
      BY <2>1 DEF Accept, Session
    <2>2. CASE j # k
      <3>1. j \in a.completed <=> j \in s.completed /\ j \notin Reset(s, k)
        BY <2>2 DEF Accept
      <3>2. a.data[j] = s.data[j]
        BY <2>2 DEF Accept, Session
      <3>3. a.status[j] = IF j \in Reset(s, k) \/ s.status[j] = "pending"
                          THEN IF j = k + 1 THEN "in_progress" ELSE "pending"
                          ELSE s.status[j]
        BY <2>2 DEF Accept
      <3> QED BY <3>1, <3>2, <3>3 DEF Good
    <2> QED BY <2>1, <2>2
  <1> QED BY <1>1, <1>2 DEF Good

LEMMA RejectGood ==
  ASSUME NEW c, NEW s \in Session, NEW k \in Steps, Good(s, c)
  PROVE  Good(Reject(s, k), c)
  BY DEF Good, Reject, Session

-----------------------------------------------------------------------------
(***************************************************************************)
(* Every action keeps the invariant.  All but two of them are a step of    *)
(* one call, r, whose new local variables are x; OneStep says what then    *)
(* remains to be shown of x, the row, the key and the shop.                *)
(***************************************************************************)
TableType == [session : Session \cup {NoSession},
              status : {"in_progress", "completed"}]

LEMMA Typed ==
  ASSUME IInv, NEW r \in Calls
  PROVE  /\ call \in [Calls -> CallType] /\ call[r] \in CallType
         /\ call[r].own \in Session \cup {NoSession}
         /\ call[r].step \in Steps
         /\ call[r].passed \in BOOLEAN
         /\ Fine(call[r], call)
         /\ table \in TableType /\ table.session \in Session \cup {NoSession}
         /\ cache \in Session \cup {NoSession}
         /\ live \in BOOLEAN /\ turns \in BOOLEAN
         /\ accepted \in [Steps -> Data] /\ faults \in 0..MaxFaults
  BY DEF IInv, TypeOK, CallType, TableType

\* What remains of the invariant once the calls are known to be fine.
LEMMA Assembled ==
  ASSUME IInv,
         call' \in [Calls -> CallType], Grows(call, call'),
         \A q \in Calls : Fine(call'[q], call'),
         repaired' = repaired, table' \in TableType,
         cache' \in Session \cup {NoSession}, live' \in BOOLEAN,
         accepted' \in [Steps -> Data], turns' \in BOOLEAN,
         faults' \in 0..MaxFaults,
         table'.session # NoSession => Good(table'.session, call),
         cache' # NoSession => Good(cache', call),
         live' => RulesVouched(call)
  PROVE  IInv'
  <1>1. TypeOK'
    BY DEF IInv, TypeOK, CallType, TableType
  <1>2. table'.session # NoSession => Good(table'.session, call')
    BY GoodStays DEF TableType
  <1>3. cache' # NoSession => Good(cache', call')
    BY GoodStays
  <1>4. live' => RulesVouched(call')
    BY RulesStay
  <1> QED BY <1>1, <1>2, <1>3, <1>4 DEF IInv

\* A step of one call, r: its local variables become x.
Moves(r) ==
  \E x \in CallType :
    /\ call' = [call EXCEPT ![r] = x]
    /\ Follows(call[r], x)
    /\ Sound(x)
    /\ x.own # NoSession => Good(x.own, call) \/ Good(x.own, call')
    /\ x.passed => RulesVouched(call)

LEMMA OneStep ==
  ASSUME IInv, NEW r \in Calls, Moves(r),
         repaired' = repaired, table' \in TableType,
         cache' \in Session \cup {NoSession}, live' \in BOOLEAN,
         accepted' \in [Steps -> Data], turns' \in BOOLEAN,
         faults' \in 0..MaxFaults,
         table'.session # NoSession => Good(table'.session, call),
         cache' # NoSession => Good(cache', call),
         live' => RulesVouched(call)
  PROVE  IInv'
  <1>1. call \in [Calls -> CallType] /\ \A q \in Calls : Fine(call[q], call)
    BY DEF IInv, TypeOK, CallType
  <1>2. /\ call' \in [Calls -> CallType]
        /\ Grows(call, call')
        /\ \A q \in Calls : Fine(call'[q], call')
    BY <1>1, OneCall DEF Moves
  <1> QED BY <1>2, Assembled

\* A fault is counted up to the bound.
LEMMA FaultCounted ==
  ASSUME IInv, Fault
  PROVE  faults' \in 0..MaxFaults
  BY OnboardingAssumption DEF Fault, IInv, TypeOK

\* The row, the key and the shop, if a step leaves them alone.
LEMMA Kept ==
  ASSUME IInv
  PROVE  /\ table.session # NoSession => Good(table.session, call)
         /\ cache # NoSession => Good(cache, call)
         /\ live => RulesVouched(call)
  BY DEF IInv

LEMMA BeginKeeps ==
  ASSUME IInv, NEW r \in Calls, NEW kind \in Kinds, NEW k \in Steps,
         Begin(r, kind, k)
  PROVE  IInv'
  <1> DEFINE x == [Fresh EXCEPT !.at = First(kind), !.kind = kind, !.step = k,
                     !.own = IF kind = "create" THEN Initial ELSE NoSession]
  <1>1. First(kind) \in Points
    BY DEF First, Points
  <1>2. x \in CallType
    BY <1>1, InitialTyped DEF CallType
  <1>3. Follows(call[r], x)
    BY Typed DEF Begin, Follows, Fine, Sound
  <1>4. Sound(x)
    BY InitialTyped, OnboardingAssumption DEF Sound, Fresh, First
  <1>5. x.own # NoSession => Good(x.own, call)
    BY InitialGood DEF Fresh
  <1>6. ~x.passed
    BY DEF Fresh
  <1>7. call' = [call EXCEPT ![r] = x]
    BY DEF Begin
  <1>8. turns' \in BOOLEAN
    BY Typed DEF Begin
  <1> HIDE DEF x
  <1>9. Moves(r)
    BY <1>2, <1>3, <1>4, <1>5, <1>6, <1>7 DEF Moves
  <1> QED BY <1>8, <1>9, Typed, Kept, OneStep DEF Begin

\* Moving on to another point: what the point asks for must be there.
LEMMA GotoMoves ==
  ASSUME IInv, NEW r \in Calls, NEW p \in Points, Goto(r, p),
         p \notin {"idle", "read", "fill", "judge"},
         p = "load" => call[r].verdict = "none",
         p \in {"persist", "store"} => call[r].own # NoSession,
         p = "activate" => call[r].passed
  PROVE  Moves(r)
  <1> DEFINE x == [call[r] EXCEPT !.at = p]
  <1>1. call[r] \in CallType /\ Fine(call[r], call)
    BY Typed
  <1>2. x \in CallType
    BY <1>1 DEF CallType
  <1>3. call' = [call EXCEPT ![r] = x]
    BY DEF Goto
  <1>4. Follows(call[r], x) /\ Sound(x)
    BY <1>1 DEF Follows, Sound, CallType
  <1>5. x.own = call[r].own /\ x.passed = call[r].passed
    BY <1>1 DEF CallType
  <1> HIDE DEF x
  <1> QED BY <1>1, <1>2, <1>3, <1>4, <1>5 DEF Fine, Moves

LEMMA EndMoves ==
  ASSUME IInv, NEW r \in Calls, NEW how \in Ended, End(r, how)
  PROVE  Moves(r)
  <1> DEFINE x == [call[r] EXCEPT !.at = how, !.own = NoSession]
  <1>1. call[r] \in CallType /\ Fine(call[r], call)
    BY Typed
  <1>2. x \in CallType
    BY <1>1 DEF CallType, Points
  <1>3. call' = [call EXCEPT ![r] = x]
    BY DEF End
  <1>4. Follows(call[r], x) /\ Sound(x)
    BY <1>1 DEF Follows, Sound, CallType, Ended
  <1>5. x.own = NoSession /\ x.passed = call[r].passed
    BY <1>1 DEF CallType
  <1> HIDE DEF x
  <1> QED BY <1>1, <1>2, <1>3, <1>4, <1>5 DEF Fine, Moves

LEMMA ProceedMoves ==
  ASSUME IInv, NEW r \in Calls, NEW s \in Session, Good(s, call),
         call[r].verdict = "none", Proceed(r, s)
  PROVE  Moves(r)
  <1> DEFINE kind == call[r].kind
             point == After(kind, s)
             own == Taken(kind, s)
             x == [call[r] EXCEPT !.at = point, !.own = own]
  <1>1. call[r] \in CallType /\ Fine(call[r], call)
    BY Typed
  <1>2. CASE point = "answered"
    BY <1>2, EndMoves DEF Proceed, Ended
  <1>3. CASE point # "answered"
    <2>1. call' = [call EXCEPT ![r] = x]
      BY <1>3 DEF Proceed
    <2>2. point \in {"judge", "persist", "check"}
      BY <1>3 DEF After
    <2>3. point = "judge" => kind = "submit"
      BY DEF After
    <2>4. own \in Session /\ own # NoSession /\ Good(own, call)
      <3>1. CASE kind = "back"
        <4>1. s.step > 1
          BY <1>3, <3>1 DEF After
        <4> QED BY <3>1, <4>1, BackTyped, BackGood, OnboardingAssumption DEF Taken
      <3>2. CASE kind # "back"
        BY <3>2, OnboardingAssumption DEF Taken
      <3> QED BY <3>1, <3>2
    <2> HIDE DEF point, own
    <2>5. x \in CallType
      BY <1>1, <2>2, <2>4 DEF CallType, Points
    <2>6. Follows(call[r], x) /\ Sound(x)
      BY <1>1, <2>2, <2>3, <2>4 DEF Follows, Sound, CallType
    <2>7. x.own = own /\ x.passed = call[r].passed
      BY <1>1, <2>4 DEF CallType
    <2> HIDE DEF x
    <2> QED BY <1>1, <2>1, <2>4, <2>5, <2>6, <2>7 DEF Fine, Moves
  <1> QED BY <1>2, <1>3

LEMMA ReadingKeeps ==
  ASSUME IInv, NEW r \in Calls, Reading(r)
  PROVE  IInv'
  <1>0. Fine(call[r], call)
    BY Typed
  <1>1. CASE CacheHit(r)
    <2>1. cache \in Session /\ Good(cache, call) /\ call[r].verdict = "none"
      BY <1>0, <1>1, Typed, Kept DEF CacheHit, Fine, Sound
    <2>2. Moves(r)
      BY <1>1, <2>1, ProceedMoves DEF CacheHit
    <2> QED BY <1>1, <2>2, Typed, Kept, OneStep DEF CacheHit
  <1>2. CASE CacheMiss(r)
    <2>1. Moves(r)
      BY <1>0, <1>2, GotoMoves DEF CacheMiss, Points, Fine, Sound
    <2> QED BY <1>2, <2>1, Typed, Kept, OneStep DEF CacheMiss
  <1>3. CASE Load(r)
    <2>1. CASE table.session = NoSession
      <3>1. Moves(r)
        BY <1>3, <2>1, EndMoves DEF Load, Ended
      <3> QED BY <1>3, <3>1, Typed, Kept, OneStep DEF Load
    <2>2. CASE table.session # NoSession
      <3> DEFINE x == [call[r] EXCEPT !.at = "fill", !.own = table.session]
      <3>1. table.session \in Session /\ Good(table.session, call)
        BY <2>2, Typed, Kept
      <3>2. x \in CallType
        BY <3>1, Typed DEF CallType, Points
      <3>3. call' = [call EXCEPT ![r] = x]
        BY <1>3, <2>2 DEF Load
      <3>4. Follows(call[r], x) /\ Sound(x)
        BY <1>0, <1>3, <2>2, Typed DEF Load, Fine, Follows, Sound, CallType
      <3>5. x.own = table.session /\ x.passed = call[r].passed
        BY Typed DEF CallType
      <3> HIDE DEF x
      <3>6. Moves(r)
        BY <1>0, <3>1, <3>2, <3>3, <3>4, <3>5 DEF Fine, Moves
      <3> QED BY <1>3, <3>6, Typed, Kept, OneStep DEF Load
    <2> QED BY <2>1, <2>2
  <1>4. CASE LoadRejected(r)
    <2>1. Moves(r)
      BY <1>4, EndMoves DEF LoadRejected, Ended
    <2> QED BY <1>4, <2>1, Typed, Kept, OneStep DEF LoadRejected
  <1>5. CASE Fill(r)
    <2>1. /\ call[r].own \in Session /\ Good(call[r].own, call)
          /\ call[r].verdict = "none"
      BY <1>0, <1>5, Typed DEF Fill, Fine, Sound
    <2>2. Moves(r)
      BY <1>5, <2>1, ProceedMoves DEF Fill
    <2> QED BY <1>5, <2>1, <2>2, Typed, Kept, OneStep DEF Fill
  <1>6. CASE ReadFails(r)
    <2>1. Moves(r)
      BY <1>6, EndMoves DEF ReadFails, Ended
    <2>2. faults' \in 0..MaxFaults
      BY <1>6, FaultCounted DEF ReadFails
    <2> QED BY <1>6, <2>1, <2>2, Typed, Kept, OneStep DEF ReadFails
  <1> QED BY <1>1, <1>2, <1>3, <1>4, <1>5, <1>6 DEF Reading

LEMMA JudgeKeeps ==
  ASSUME IInv, NEW r \in Calls, Judge(r)
  PROVE  IInv'
  <1> DEFINE s == call[r].own
             k == call[r].step
  <1>1. PICK valid \in Valid(s, k) :
          call' = [call EXCEPT
            ![r].at = "persist",
            ![r].verdict = IF valid THEN "valid" ELSE "invalid",
            ![r].own = IF valid THEN Accept(@, k, r) ELSE Reject(@, k)]
    BY DEF Judge
  <1>2. call[r] \in CallType /\ Fine(call[r], call) /\ k \in Steps
    BY Typed
  <1>3. call[r].at = "judge" /\ call[r].kind = "submit" /\ call[r].verdict = "none"
    BY <1>2 DEF Judge, Fine, Sound
  <1>4. s \in Session /\ Good(s, call)
    BY <1>2, <1>3, Typed DEF Fine, Sound
  <1>5. ASSUME NEW verdict \in {"valid", "invalid"}, NEW own \in Session,
               call' = [call EXCEPT ![r].at = "persist", ![r].verdict = verdict,
                                    ![r].own = own],
               Good(own, call) \/ Good(own, call')
        PROVE  Moves(r)
    <2> DEFINE x == [call[r] EXCEPT !.at = "persist", !.verdict = verdict,
                                    !.own = own]
    <2>1. x \in CallType
      BY <1>2 DEF CallType, Points
    <2>2. call' = [call EXCEPT ![r] = x]
      BY <1>5
    <2>3. Follows(call[r], x) /\ Sound(x)
      BY <1>2, <1>3, OnboardingAssumption DEF Follows, Sound, CallType
    <2>4. x.own = own /\ x.passed = call[r].passed
      BY <1>2 DEF CallType
    <2> HIDE DEF x
    <2> QED BY <1>2, <1>5, <2>1, <2>2, <2>3, <2>4 DEF Fine, Moves
  <1>6. CASE valid
    <2>1. call' = [call EXCEPT ![r].at = "persist", ![r].verdict = "valid",
                               ![r].own = Accept(s, k, r)]
      BY <1>1, <1>6
    <2>2. Accept(s, k, r) \in Session
      BY <1>2, <1>4, AcceptTyped
    <2>3. k = N => PriorSteps(s)
      BY <1>1, <1>6 DEF Valid
    <2>4. Vouched(call', r, k)
      BY <1>2, <1>3, <2>1, Typed, OnboardingAssumption DEF Vouched, CallType
    <2>5. Grows(call, call')
      BY <1>3, <2>1, Typed DEF Grows, Vouched, CallType
    <2>6. Good(s, call')
      BY <1>4, <2>5, GoodStays
    <2>7. Good(Accept(s, k, r), call')
      BY <1>2, <1>4, <2>3, <2>4, <2>6, AcceptGood
    <2>8. Moves(r)
      BY <1>5, <2>1, <2>2, <2>7
    <2> QED BY <2>8, Typed, Kept, OneStep DEF Judge
  <1>7. CASE ~valid
    <2>1. call' = [call EXCEPT ![r].at = "persist", ![r].verdict = "invalid",
                               ![r].own = Reject(s, k)]
      BY <1>1, <1>7
    <2>2. Reject(s, k) \in Session /\ Good(Reject(s, k), call)
      BY <1>2, <1>4, RejectTyped, RejectGood
    <2>3. Moves(r)
      BY <1>5, <2>1, <2>2
    <2> QED BY <2>3, Typed, Kept, OneStep DEF Judge
  <1> QED BY <1>6, <1>7

LEMMA WritingKeeps ==
  ASSUME IInv, NEW r \in Calls, Writing(r)
  PROVE  IInv'
  <1>0. Fine(call[r], call)
    BY Typed
  <1>1. CASE Judge(r)
    BY <1>1, JudgeKeeps
  <1>2. CASE Persist(r)
    <2>1. call[r].own \in Session /\ Good(call[r].own, call)
      BY <1>0, <1>2, Typed DEF Persist, Fine, Sound
    <2>2. Moves(r)
      BY <1>2, <2>1, GotoMoves, OnboardingAssumption DEF Persist, Points
    <2>3. table' \in TableType /\ table'.session = call[r].own
      BY <1>2, <2>1 DEF Persist, Written, TableType
    <2> QED BY <1>2, <2>1, <2>2, <2>3, Typed, Kept, OneStep DEF Persist
  <1>3. CASE PersistFails(r)
    <2>1. call[r].own \in Session /\ Good(call[r].own, call)
      BY <1>0, <1>3, Typed DEF PersistFails, Fine, Sound
    <2>2. table' = table \/ table' = Written(r)
      BY <1>3 DEF PersistFails
    <2>3. table' \in TableType /\ (table'.session # NoSession => Good(table'.session, call))
      BY <2>1, <2>2, Typed, Kept DEF Written, TableType
    <2>4. faults' \in 0..MaxFaults
      BY <1>3, Typed, FaultCounted DEF PersistFails
    <2>5. CASE End(r, "threw")
      <3>1. Moves(r)
        BY <2>5, EndMoves DEF Ended
      <3> QED BY <1>3, <2>3, <2>4, <3>1, Typed, Kept, OneStep DEF PersistFails
    <2>6. CASE UNCHANGED call
      <3>1. Grows(call, call') /\ \A q \in Calls : Fine(call'[q], call')
        BY <2>6 DEF Grows, IInv
      <3>2. call' \in [Calls -> CallType]
        BY <2>6, Typed
      <3> QED BY <1>3, <2>3, <2>4, <3>1, <3>2, Typed, Kept, Assembled DEF PersistFails
    <2> QED BY <1>3, <2>5, <2>6 DEF PersistFails
  <1>4. CASE Store(r)
    <2>1. call[r].own \in Session /\ Good(call[r].own, call)
      BY <1>0, <1>4, Typed DEF Store, Fine, Sound
    <2>2. Moves(r)
      BY <1>4, EndMoves DEF Store, Ended
    <2>3. accepted' \in [Steps -> Data]
      BY <1>4, Typed DEF Store, Data
    <2> QED BY <1>4, <2>1, <2>2, <2>3, Typed, Kept, OneStep DEF Store
  <1>5. CASE StoreFails(r)
    <2>1. call[r].own \in Session /\ Good(call[r].own, call)
      BY <1>0, <1>5, Typed DEF StoreFails, Fine, Sound
    <2>2. Moves(r)
      BY <1>5, EndMoves DEF StoreFails, Ended
    <2>3. cache' \in Session \cup {NoSession} /\ (cache' # NoSession => Good(cache', call))
      BY <1>5, <2>1, Typed, Kept DEF StoreFails
    <2>4. faults' \in 0..MaxFaults
      BY <1>5, FaultCounted DEF StoreFails
    <2> QED BY <1>5, <2>2, <2>3, <2>4, Typed, Kept, OneStep DEF StoreFails
  <1> QED BY <1>1, <1>2, <1>3, <1>4, <1>5 DEF Writing

\* What the checks look for in the row: a step shown as completed holds a
\* submission found valid.
LEMMA RulesThere ==
  ASSUME IInv, RulesConfigured
  PROVE  RulesVouched(call)
  <1>1. Rules \in Steps
    BY OnboardingAssumption DEF Rules, Steps
  <1>2. table.session \in Session /\ Good(table.session, call)
    BY OnboardingAssumption DEF RulesConfigured, IInv, TypeOK
  <1>3. Rules \in table.session.completed
    BY <1>1, <1>2 DEF Good, RulesConfigured
  <1>4. Vouched(call, table.session.data[Rules], Rules)
    BY <1>1, <1>2, <1>3 DEF Good
  <1>5. table.session.data[Rules] \in Calls
    BY <1>1, <1>2, <1>4 DEF Session, Data, Vouched
  <1> QED BY <1>4, <1>5 DEF RulesVouched

LEMMA InspectMoves ==
  ASSUME IInv, NEW r \in Calls, NEW p \in {"simulate", "report"}, Inspect(r, p)
  PROVE  Moves(r)
  <1>1. PICK others \in BOOLEAN :
          call' = [call EXCEPT
            ![r].at = p,
            ![r].passed = others /\ RulesConfigured
                          /\ (call[r].at = "simulate" => call[r].passed)]
    BY DEF Inspect
  <1> DEFINE passed == others /\ RulesConfigured
                       /\ (call[r].at = "simulate" => call[r].passed)
             x == [call[r] EXCEPT !.at = p, !.passed = passed]
  <1>2. call[r] \in CallType /\ Fine(call[r], call)
    BY Typed
  <1>3. passed \in BOOLEAN /\ (passed => RulesVouched(call))
    BY RulesThere
  <1>4. call' = [call EXCEPT ![r] = x]
    BY <1>1
  <1> HIDE DEF passed
  <1>5. x \in CallType
    BY <1>2, <1>3 DEF CallType, Points
  <1>6. Follows(call[r], x) /\ Sound(x)
    BY <1>2 DEF Follows, Sound, CallType
  <1>7. x.own = call[r].own /\ x.passed = passed
    BY <1>2 DEF CallType
  <1> HIDE DEF x
  <1> QED BY <1>2, <1>3, <1>4, <1>5, <1>6, <1>7 DEF Fine, Moves

LEMMA ConcludeMoves ==
  ASSUME IInv, NEW r \in Calls, Conclude(r)
  PROVE  Moves(r)
  <1>1. CASE call[r].kind = "complete"
    BY <1>1, GotoMoves DEF Conclude, Points
  <1>2. CASE call[r].kind # "complete"
    BY <1>2, EndMoves DEF Conclude, Ended
  <1> QED BY <1>1, <1>2

LEMMA ValidatingKeeps ==
  ASSUME IInv, NEW r \in Calls, Validating(r)
  PROVE  IInv'
  <1>0. Fine(call[r], call)
    BY Typed
  <1>1. CASE Check(r)
    <2>1. Moves(r)
      BY <1>1, InspectMoves DEF Check
    <2> QED BY <1>1, <2>1, Typed, Kept, OneStep DEF Check, Inspect
  <1>2. CASE Simulate(r)
    <2>1. Moves(r)
      BY <1>2, InspectMoves DEF Simulate
    <2> QED BY <1>2, <2>1, Typed, Kept, OneStep DEF Simulate, Inspect
  <1>3. CASE Report(r)
    <2>1. CASE call[r].passed
      <3>1. Moves(r)
        BY <1>3, <2>1, GotoMoves DEF Report, Points
      <3> QED BY <1>3, <3>1, Typed, Kept, OneStep DEF Report
    <2>2. CASE ~call[r].passed
      <3>1. Moves(r)
        BY <1>3, <2>2, ConcludeMoves DEF Report
      <3> QED BY <1>3, <3>1, Typed, Kept, OneStep DEF Report
    <2> QED BY <2>1, <2>2
  <1>4. CASE Activate(r)
    <2>1. RulesVouched(call)
      BY <1>0, <1>4 DEF Activate, Fine, Sound
    <2>2. Moves(r)
      BY <1>4, ConcludeMoves DEF Activate
    <2> QED BY <1>4, <2>1, <2>2, Typed, Kept, OneStep DEF Activate
  <1>5. CASE Mark(r)
    <2>1. Moves(r)
      BY <1>5, EndMoves DEF Mark, Ended
    <2>2. table' \in TableType /\ table'.session = table.session
      BY <1>5, Typed DEF Mark, TableType
    <2> QED BY <1>5, <2>1, <2>2, Typed, Kept, OneStep DEF Mark
  <1>6. CASE PipelineFails(r)
    <2>1. Moves(r)
      BY <1>6, EndMoves DEF PipelineFails, Ended
    <2>2. table' \in TableType /\ table'.session = table.session
      BY <1>6, Typed DEF PipelineFails, TableType
    <2>3. live' \in BOOLEAN
      BY <1>6, Typed DEF PipelineFails
    <2>4. live' => RulesVouched(call)
      BY <1>0, <1>6, Kept DEF PipelineFails, Fine, Sound
    <2>5. faults' \in 0..MaxFaults
      BY <1>6, FaultCounted DEF PipelineFails
    <2> QED BY <1>6, <2>1, <2>2, <2>3, <2>4, <2>5, Typed, Kept, OneStep
            DEF PipelineFails
  <1> QED BY <1>1, <1>2, <1>3, <1>4, <1>5, <1>6 DEF Validating

LEMMA ExpireKeeps == ASSUME IInv, Expire PROVE IInv'
  <1>1. Grows(call, call') /\ \A q \in Calls : Fine(call'[q], call')
    BY DEF Expire, Grows, IInv
  <1>2. call' \in [Calls -> CallType]
    BY DEF Expire, IInv, TypeOK, CallType
  <1>3. /\ table \in TableType /\ live \in BOOLEAN /\ turns \in BOOLEAN
        /\ accepted \in [Steps -> Data] /\ faults \in 0..MaxFaults
    BY DEF IInv, TypeOK, TableType
  <1> QED BY <1>1, <1>2, <1>3, Kept, Assembled DEF Expire

LEMMA CrashKeeps == ASSUME IInv, Crash PROVE IInv'
  <1>0. call \in [Calls -> CallType]
    BY DEF IInv, TypeOK, CallType
  <1>1. call' \in [Calls -> CallType]
    <2>1. ASSUME NEW old \in CallType
          PROVE  [old EXCEPT !.at = "crashed", !.own = NoSession] \in CallType
      BY <2>1 DEF CallType, Points, Ended
    <2>2. \A q \in Calls : [call[q] EXCEPT !.at = "crashed", !.own = NoSession] \in CallType
      BY <1>0, <2>1, Zenon
    <2>3. call' = [q \in Calls |->
            IF UnderWay(q) THEN [call[q] EXCEPT !.at = "crashed", !.own = NoSession]
            ELSE call[q]]
      BY DEF Crash
    <2>4. \A q \in Calls : call[q] \in CallType
      BY <1>0
    <2> QED BY <2>2, <2>3, <2>4, Zenon
  <1>2. \A q \in Calls : call'[q] = call[q]
          \/ /\ call'[q].own = NoSession /\ call'[q].at = "crashed"
             /\ call'[q].kind = call[q].kind /\ call'[q].step = call[q].step
             /\ call'[q].verdict = call[q].verdict
             /\ call'[q].passed = call[q].passed
    <2> TAKE q \in Calls
    <2>1. call'[q] = IF UnderWay(q) THEN [call[q] EXCEPT !.at = "crashed", !.own = NoSession]
                     ELSE call[q]
      BY DEF Crash
    <2>2. call[q] \in CallType
      BY <1>0
    <2>3. CASE UnderWay(q)
      BY <2>1, <2>2, <2>3 DEF CallType
    <2> QED BY <2>1, <2>3
  <1>3. Grows(call, call')
    BY <1>2 DEF Grows, Vouched
  <1>4. ASSUME NEW q \in Calls
        PROVE  Fine(call'[q], call')
    <2>1. Fine(call[q], call) /\ call[q] \in CallType
      BY <1>0 DEF IInv
    <2>2. call[q].passed => RulesVouched(call')
      BY <1>3, <2>1, RulesStay DEF Fine
    <2>3. CASE call'[q] = call[q]
      <3>1. call[q].own # NoSession => Good(call[q].own, call')
        BY <1>3, <2>1, GoodStays DEF Fine, CallType
      <3> QED BY <2>1, <2>2, <2>3, <3>1 DEF Fine
    <2>4. CASE call'[q] # call[q]
      BY <1>2, <2>2, <2>4 DEF Fine, Sound
    <2> QED BY <2>3, <2>4
  <1>5. faults' \in 0..MaxFaults
    BY FaultCounted DEF Crash
  <1>6. /\ table \in TableType /\ cache \in Session \cup {NoSession}
        /\ live \in BOOLEAN /\ turns \in BOOLEAN /\ accepted \in [Steps -> Data]
    BY DEF IInv, TypeOK, TableType
  <1> QED BY <1>1, <1>3, <1>4, <1>5, <1>6, Kept, Assembled DEF Crash

LEMMA InvNext == IInv /\ [Next]_vars => IInv'
  <1> SUFFICES ASSUME IInv, [Next]_vars PROVE IInv'
    OBVIOUS
  <1>1. ASSUME NEW r \in Calls, NEW kind \in Kinds, NEW k \in Steps,
               Begin(r, kind, k)
        PROVE  IInv'
    BY <1>1, BeginKeeps
  <1>2. ASSUME NEW r \in Calls, Reading(r)
        PROVE  IInv'
    BY <1>2, ReadingKeeps
  <1>3. ASSUME NEW r \in Calls, Writing(r)
        PROVE  IInv'
    BY <1>3, WritingKeeps
  <1>4. ASSUME NEW r \in Calls, Validating(r)
        PROVE  IInv'
    BY <1>4, ValidatingKeeps
  <1>5. CASE Expire
    BY <1>5, ExpireKeeps
  <1>6. CASE Crash
    BY <1>6, CrashKeeps
  <1>7. CASE UNCHANGED vars
    <2>1. Grows(call, call') /\ \A q \in Calls : Fine(call'[q], call')
      BY <1>7 DEF vars, Grows, IInv
    <2>2. /\ call' \in [Calls -> CallType] /\ table \in TableType
          /\ cache \in Session \cup {NoSession}
          /\ live \in BOOLEAN /\ turns \in BOOLEAN
          /\ accepted \in [Steps -> Data] /\ faults \in 0..MaxFaults
      BY <1>7 DEF vars, IInv, TypeOK, CallType, TableType
    <2> QED BY <1>7, <2>1, <2>2, Kept, Assembled DEF vars
  <1> QED BY <1>1, <1>2, <1>3, <1>4, <1>5, <1>6, <1>7 DEF Next

(***************************************************************************)
(* Of every reachable state, for any numbers of steps, calls and faults.   *)
(***************************************************************************)
THEOREM InvAlways == Spec => []IInv
  BY InvInit, InvNext, PTL DEF Spec

-----------------------------------------------------------------------------
\* What the invariant says of a copy.
LEMMA CopiesGood ==
  ASSUME IInv, NEW s \in Copies
  PROVE  s \in Session /\ Good(s, call)
  <1>1. CASE s = table.session \/ s = cache
    BY <1>1 DEF Copies, IInv, TypeOK
  <1>2. CASE \E r \in Calls : s = call[r].own
    BY <1>2, Typed DEF Copies, IInv, Fine
  <1> QED BY <1>1, <1>2 DEF Copies

\* Every variable keeps its type.
THEOREM TypeCorrect == Spec => []TypeOK
  <1>1. IInv => TypeOK
    BY DEF IInv
  <1> QED BY <1>1, InvAlways, PTL

(***************************************************************************)
(* However the calls interleave, fail and overwrite each other, no copy of *)
(* the session has "validation" complete while another step is open.       *)
(***************************************************************************)
THEOREM EndIsLast == Spec => []ValidationIsLast
  <1>1. IInv => ValidationIsLast
    BY CopiesGood DEF ValidationIsLast, Good
  <1> QED BY <1>1, InvAlways, PTL

(***************************************************************************)
(* In every copy completedSteps and the statuses of the steps agree, and a *)
(* completed step holds what a call submitted for it and was told is valid.*)
(***************************************************************************)
THEOREM CopiesAgree == Spec => []StepsAgree
  <1>1. IInv => StepsAgree
    BY CopiesGood DEF StepsAgree, Good, Submitted, Vouched
  <1> QED BY <1>1, InvAlways, PTL

(***************************************************************************)
(* A shop is live only if its rules were once submitted and found valid.   *)
(***************************************************************************)
THEOREM ShopHasRules == Spec => []LiveShopHasRules
  <1>1. IInv => LiveShopHasRules
    BY DEF IInv, LiveShopHasRules, RulesVouched, Submitted, Vouched
  <1> QED BY <1>1, InvAlways, PTL

-----------------------------------------------------------------------------
(***************************************************************************)
(* Calls that take turns.  What they leave in the row and in the key is    *)
(* told by the call under way, if there is one: it may be about to replace *)
(* a step it submits, and those after it, but nothing else.                *)
(***************************************************************************)
Turn(r) == \A q \in Calls : UnderWay(q) => q = r

\* The copy s has, for step k, the data d that was accepted.
Bears(s, k, d) == k \in s.completed /\ s.data[k] = d

\* The call is writing a submission found valid.
Revises(x) == x.kind = "submit" /\ x.verdict = "valid" /\ x.at \in {"persist", "store"}

Carries(x, s, k, d) == Bears(s, k, d) \/ (Revises(x) /\ s = x.own)

OwnCarries(x, k, d) ==
  \/ Bears(x.own, k, d)
  \/ Revises(x) /\ (k = x.step \/ (x.step < k /\ k \notin x.own.completed))

Held(x, old, key, k, d) ==
  /\ old # NoSession
  /\ Carries(x, old, k, d)
  /\ key # NoSession => Carries(x, key, k, d)
  /\ x.own # NoSession => OwnCarries(x, k, d)

\* A submission of step k or of an earlier one that will never be answered.
Gone(x, k) == x.kind = "submit" /\ x.step <= k /\ x.at \in {"threw", "crashed"}

Stay ==
  \A k \in Steps : accepted[k] # NoData =>
    \/ \E q \in Calls : Gone(call[q], k)
    \/ \E r \in Calls : Turn(r) /\ Held(call[r], table.session, cache, k, accepted[k])

Alone == \A p, q \in Calls : UnderWay(p) /\ UnderWay(q) => p = q

InStep ==
  /\ \A r \in Calls : call[r].at \in {"fill", "store"} => table.session = call[r].own
  /\ cache # NoSession
       /\ (\A r \in Calls : call[r].at \notin {"persist", "store", "threw", "crashed"})
     => cache = table.session

\* What holds of a call's local variables, x being those of call r.
Orderly(x, r) ==
  /\ x.own # NoSession => x.at \notin Ended \cup {"idle"}
  /\ x.verdict # "none" => x.kind = "submit"
  /\ Revises(x) => Bears(x.own, x.step, r)

\* Nobody does anything before the session has been created.
Beginning ==
  ~Created => /\ \A k \in Steps : accepted[k] = NoData
              /\ \A r \in Calls : call[r].at = "idle" \/ call[r].kind = "create"

TInv ==
  /\ \A r \in Calls : Orderly(call[r], r)
  /\ Beginning
  /\ turns => Alone /\ InStep /\ Stay

\* At first no call is under way, the key is empty and nothing was accepted.
LEMMA InitTurns == Init => TInv
  <1> SUFFICES ASSUME Init PROVE TInv
    OBVIOUS
  <1>1. \A r \in Calls : call[r] = Fresh
    BY DEF Init
  <1>2. \A r \in Calls : Orderly(call[r], r) /\ ~UnderWay(r) /\ call[r].at = "idle"
    <2>1. \A r \in Calls : /\ call[r].at = "idle" /\ call[r].kind = "get"
                           /\ call[r].own = NoSession /\ call[r].verdict = "none"
      <3>1. /\ Fresh.at = "idle" /\ Fresh.kind = "get"
            /\ Fresh.own = NoSession /\ Fresh.verdict = "none"
        BY DEF Fresh
      <3> QED BY <1>1, <3>1
    <2> QED BY <2>1 DEF Orderly, Revises, UnderWay
  <1>3. cache = NoSession /\ \A k \in Steps : accepted[k] = NoData
    BY DEF Init
  <1> QED BY <1>2, <1>3 DEF TInv, Beginning, Alone, InStep, Stay

\* Calls at rest carry the same.
LEMMA AtRest ==
  ASSUME NEW x, NEW y, x.own = NoSession, ~Revises(x), ~Revises(y),
         NEW old, NEW key, NEW k, NEW d, Held(y, old, key, k, d)
  PROVE  Held(x, old, key, k, d)
  BY DEF Held, Carries

\* What a step of the call r, whose local variables become x, owes the others.
RowRight(x) == x.at \in {"fill", "store"} => table'.session = x.own

StoresRight(r, x) ==
  (/\ call[r].at \notin {"persist", "store"} /\ cache # NoSession
       => cache = table.session
   /\ cache' # NoSession
   /\ x.at \notin {"persist", "store", "threw", "crashed"})
  => cache' = table'.session

HoldsOn(r, x, k) ==
  (/\ accepted'[k] # NoData
   /\ accepted[k] # NoData => Held(call[r], table.session, cache, k, accepted[k]))
  => Gone(x, k) \/ Held(x, table'.session, cache', k, accepted'[k])

Proper(r, x) ==
  RowRight(x) /\ StoresRight(r, x) /\ \A k \in Steps : HoldsOn(r, x, k)

\* A step of the call whose turn it is: what remains to be shown of its local
\* variables, which become x, and of the row and the key.
LEMMA OneTurn ==
  ASSUME IInv, TInv, NEW r \in Calls, UnderWay(r),
         NEW x \in CallType, call' = [call EXCEPT ![r] = x],
         turns' = turns, Orderly(x, r), x.kind = call[r].kind, x.at # "idle",
         accepted' = accepted \/ x.kind = "submit",
         turns => Proper(r, x)
  PROVE  TInv'
  <1>1. call \in [Calls -> CallType]
    BY Typed
  <1>2. call'[r] = x /\ \A q \in Calls : q # r => call'[q] = call[q]
    BY <1>1
  <1>3. \A q \in Calls : Orderly(call'[q], q)
    BY <1>2 DEF TInv
  <1>4. Beginning'
    <2> SUFFICES ASSUME ~Created'
                 PROVE  /\ \A k \in Steps : accepted'[k] = NoData
                        /\ \A q \in Calls : call'[q].at = "idle" \/ call'[q].kind = "create"
      BY DEF Beginning
    <2>1. ~Created
      <3> SUFFICES ASSUME NEW q \in Calls, call[q].kind = "create", call[q].at = "answered"
                   PROVE  FALSE
        BY DEF Created
      <3>1. q # r
        BY DEF UnderWay, Ended
      <3> QED BY <1>2, <3>1 DEF Created
    <2>2. call[r].kind = "create"
      BY <2>1 DEF TInv, Beginning, UnderWay
    <2>3. accepted' = accepted
      BY <2>2
    <2> QED BY <1>2, <2>1, <2>2, <2>3 DEF TInv, Beginning
  <1>5. ASSUME turns PROVE Alone' /\ InStep' /\ Stay'
    <2>1. \A q \in Calls : UnderWay(q) => q = r
      BY <1>5 DEF TInv, Alone
    <2>2. \A q \in Calls : q # r => ~UnderWay(q)'
      BY <1>2, <2>1 DEF UnderWay
    <2>3. Alone'
      BY <2>2 DEF Alone
    <2>4. InStep'
      <3>1. \A q \in Calls : call'[q].at \in {"fill", "store"} => q = r
        BY <2>2 DEF UnderWay, Ended
      <3>2. ASSUME cache' # NoSession,
                   \A q \in Calls : call'[q].at \notin {"persist", "store", "threw", "crashed"}
            PROVE  cache' = table'.session
        <4>1. ASSUME call[r].at \notin {"persist", "store"}, cache # NoSession
              PROVE  cache = table.session
          <5>1. \A q \in Calls : call[q].at \notin {"persist", "store", "threw", "crashed"}
            BY <1>2, <3>2, <4>1 DEF UnderWay, Ended
          <5> QED BY <1>5, <4>1, <5>1 DEF TInv, InStep
        <4> QED BY <1>2, <1>5, <3>2, <4>1 DEF Proper, StoresRight
      <3> QED BY <1>2, <1>5, <3>1, <3>2 DEF InStep, Proper, RowRight
    <2>5. ASSUME NEW k \in Steps, accepted'[k] # NoData
          PROVE  \/ \E q \in Calls : Gone(call'[q], k)
                 \/ Held(x, table'.session, cache', k, accepted'[k])
      <3>1. CASE accepted[k] # NoData /\ \E q \in Calls : Gone(call[q], k)
        <4>1. PICK q \in Calls : Gone(call[q], k)
          BY <3>1
        <4>2. q # r
          BY <4>1 DEF Gone, UnderWay, Ended
        <4> QED BY <1>2, <4>1, <4>2
      <3>2. CASE accepted[k] # NoData
                   /\ \E q \in Calls : Turn(q)
                        /\ Held(call[q], table.session, cache, k, accepted[k])
        <4>1. Held(call[r], table.session, cache, k, accepted[k])
          BY <3>2 DEF Turn
        <4> QED BY <1>2, <1>5, <2>5, <4>1 DEF Proper, HoldsOn
      <3>3. CASE accepted[k] = NoData
        BY <1>2, <1>5, <2>5, <3>3 DEF Proper, HoldsOn
      <3> QED BY <1>5, <3>1, <3>2, <3>3 DEF TInv, Stay
    <2>6. Turn(r)'
      BY <2>2 DEF Turn
    <2>7. Stay'
      BY <1>2, <2>5, <2>6 DEF Stay
    <2> QED BY <2>3, <2>4, <2>7
  <1> QED BY <1>3, <1>4, <1>5 DEF TInv

\* A step that leaves the row's session, the key and the history alone, and
\* neither begins nor ends a write.
LEMMA PlainTurn ==
  ASSUME IInv, TInv, NEW r \in Calls,
         call[r].at \notin {"persist", "store", "fill"} \cup Ended \cup {"idle"},
         NEW x \in CallType, call' = [call EXCEPT ![r] = x],
         x.kind = call[r].kind, x.verdict = call[r].verdict, x.step = call[r].step,
         x.at \notin {"persist", "store", "fill", "idle"},
         \/ x.own = NoSession
         \/ x.own = call[r].own /\ x.at \notin Ended,
         turns' = turns, table'.session = table.session, cache' = cache,
         accepted' = accepted
  PROVE  TInv'
  <1>1. UnderWay(r) /\ Orderly(call[r], r)
    BY DEF UnderWay, TInv
  <1>2. ~Revises(call[r]) /\ ~Revises(x)
    BY DEF Revises
  <1>3. Orderly(x, r)
    BY <1>1, <1>2 DEF Orderly
  <1>4. \A k \in Steps :
          Held(call[r], table.session, cache, k, accepted[k])
            => Held(x, table.session, cache, k, accepted[k])
    BY <1>2 DEF Held, Carries, OwnCarries
  <1>5. accepted' = accepted \/ x.kind = "submit"
    OBVIOUS
  <1>6. turns => Proper(r, x)
    BY <1>4 DEF Proper, RowRight, StoresRight, HoldsOn
  <1> QED BY <1>1, <1>3, <1>5, <1>6, OneTurn

\* The end of a call, or its going on, as a plain step.
LEMMA PlainEnd ==
  ASSUME IInv, TInv, NEW r \in Calls,
         call[r].at \notin {"persist", "store", "fill"} \cup Ended \cup {"idle"},
         NEW how \in Ended, End(r, how),
         turns' = turns, table'.session = table.session, cache' = cache,
         accepted' = accepted
  PROVE  TInv'
  <1> DEFINE x == [call[r] EXCEPT !.at = how, !.own = NoSession]
  <1>1. x \in CallType /\ call' = [call EXCEPT ![r] = x]
    BY Typed DEF End, CallType, Points
  <1>2. /\ x.kind = call[r].kind /\ x.verdict = call[r].verdict /\ x.step = call[r].step
        /\ x.own = NoSession /\ x.at = how
    BY Typed DEF CallType
  <1> HIDE DEF x
  <1>3. x.at \notin {"persist", "store", "fill", "idle"}
    BY <1>2 DEF Ended
  <1> QED BY <1>1, <1>2, <1>3, PlainTurn

\* A step that touches neither store leaves the turn where it is.
LEMMA PlainGoto ==
  ASSUME IInv, TInv, NEW r \in Calls,
         call[r].at \notin {"persist", "store", "fill"} \cup Ended \cup {"idle"},
         NEW p \in Points \ ({"persist", "store", "fill", "idle"} \cup Ended), Goto(r, p),
         turns' = turns, table'.session = table.session, cache' = cache,
         accepted' = accepted
  PROVE  TInv'
  <1> DEFINE x == [call[r] EXCEPT !.at = p]
  <1>1. x \in CallType /\ call' = [call EXCEPT ![r] = x]
    BY Typed DEF Goto, CallType
  <1>2. /\ x.kind = call[r].kind /\ x.verdict = call[r].verdict /\ x.step = call[r].step
        /\ x.own = call[r].own /\ x.at = p
    BY Typed DEF CallType
  <1> HIDE DEF x
  <1> QED BY <1>1, <1>2, PlainTurn

\* The checks and their report leave the session in both stores as it is.
LEMMA ValidatingTurns ==
  ASSUME IInv, TInv, NEW r \in Calls, Validating(r)
  PROVE  TInv'
  <1>1. call[r].at \in {"check", "simulate", "report", "activate", "mark"}
    BY DEF Validating, Check, Simulate, Report, Activate, Mark, PipelineFails
  <1>2. call[r].at \notin {"persist", "store", "fill"} \cup Ended \cup {"idle"}
    BY <1>1 DEF Ended
  <1>3. turns' = turns /\ cache' = cache /\ accepted' = accepted
    BY DEF Validating, Check, Simulate, Report, Activate, Mark, PipelineFails, Inspect
  <1>4. table'.session = table.session
    BY Typed DEF Validating, Check, Simulate, Report, Activate, Mark, PipelineFails, Inspect,
                 TableType
  <1>5. CASE \E p \in {"simulate", "report"} : Inspect(r, p)
    <2>1. PICK p \in {"simulate", "report"}, passed \in BOOLEAN :
            call' = [call EXCEPT ![r].at = p, ![r].passed = passed]
      <3>1. PICK p \in {"simulate", "report"} : Inspect(r, p)
        BY <1>5
      <3>2. RulesConfigured \in BOOLEAN
        BY DEF RulesConfigured
      <3>3. \A others \in BOOLEAN :
              (others /\ RulesConfigured /\ (call[r].at = "simulate" => call[r].passed))
                \in BOOLEAN
        OBVIOUS
      <3> QED BY <3>1, <3>3 DEF Inspect
    <2> DEFINE x == [call[r] EXCEPT !.at = p, !.passed = passed]
    <2>2. x \in CallType /\ call' = [call EXCEPT ![r] = x]
      BY <2>1, Typed DEF CallType, Points
    <2>3. /\ x.kind = call[r].kind /\ x.verdict = call[r].verdict /\ x.step = call[r].step
          /\ x.own = call[r].own /\ x.at = p
      BY Typed DEF CallType
    <2> HIDE DEF x
    <2>4. x.at \notin {"persist", "store", "fill", "idle"} \cup Ended
      BY <2>3 DEF Ended
    <2> QED BY <1>2, <1>3, <1>4, <2>2, <2>3, <2>4, PlainTurn
  <1>6. CASE \E how \in {"threw", "answered"} : End(r, how)
    BY <1>2, <1>3, <1>4, <1>6, PlainEnd DEF Ended
  <1>7. CASE \E p \in {"activate", "mark"} : Goto(r, p)
    <2>1. \A p \in {"activate", "mark"} :
            p \in Points \ ({"persist", "store", "fill", "idle"} \cup Ended)
      BY DEF Points, Ended
    <2> QED BY <1>2, <1>3, <1>4, <1>7, <2>1, PlainGoto
  <1> QED BY <1>5, <1>6, <1>7
          DEF Validating, Check, Simulate, Report, Activate, Mark, PipelineFails, Conclude

\* Going back does not touch what a session holds.
LEMMA TakenBears ==
  ASSUME NEW s \in Session, NEW kind, NEW k, NEW d
  PROVE  /\ Bears(Taken(kind, s), k, d) <=> Bears(s, k, d)
         /\ s.step > 1 \/ kind # "back" => Taken(kind, s) \in Session
  <1>1. s.step > 1 => [s EXCEPT !.step = @ - 1] \in Session
    BY BackTyped
  <1> QED BY <1>1 DEF Taken, Bears, Session

\* A call reads the session s, which the key then holds.
LEMMA ProceedTurn ==
  ASSUME IInv, TInv, NEW r \in Calls, NEW s \in Session, Proceed(r, s),
         call[r].at \in {"read", "fill"}, cache' = s,
         turns' = turns, table' = table, accepted' = accepted,
         turns => /\ cache = s \/ table.session = s
                  /\ \A k \in Steps :
                       Held(call[r], table.session, cache, k, accepted[k])
                         => Bears(s, k, accepted[k])
  PROVE  TInv'
  <1>1. call[r] \in CallType /\ call[r].verdict = "none" /\ UnderWay(r)
    BY Typed DEF Fine, Sound, UnderWay, Ended
  <1>2. PICK x \in CallType :
          /\ call' = [call EXCEPT ![r] = x]
          /\ x.kind = call[r].kind /\ x.verdict = "none"
          /\ \/ x.at = "answered" /\ x.own = NoSession
             \/ /\ x.at \in {"judge", "persist", "check"}
                /\ \A k, d : Bears(x.own, k, d) <=> Bears(s, k, d)
    <2> DEFINE kind == call[r].kind
               point == After(kind, s)
               own == Taken(kind, s)
    <2>1. CASE point = "answered"
      <3> DEFINE x == [call[r] EXCEPT !.at = "answered", !.own = NoSession]
      <3>1. x \in CallType /\ call' = [call EXCEPT ![r] = x]
        BY <1>1, <2>1 DEF Proceed, End, CallType, Points, Ended
      <3>2. x.kind = call[r].kind /\ x.verdict = "none" /\ x.at = "answered" /\ x.own = NoSession
        BY <1>1 DEF CallType
      <3> HIDE DEF x
      <3> QED BY <3>1, <3>2
    <2>2. CASE point # "answered"
      <3> DEFINE x == [call[r] EXCEPT !.at = point, !.own = own]
      <3>1. call' = [call EXCEPT ![r] = x]
        BY <2>2 DEF Proceed
      <3>2. point \in {"judge", "persist", "check"} /\ (s.step > 1 \/ kind # "back")
        BY <2>2 DEF After
      <3>3. own \in Session
        BY <3>2, TakenBears
      <3>4. \A k, d : Bears(own, k, d) <=> Bears(s, k, d)
        BY TakenBears
      <3> HIDE DEF point, own
      <3>5. x \in CallType
        BY <1>1, <3>2, <3>3 DEF CallType, Points
      <3>6. x.kind = call[r].kind /\ x.verdict = "none" /\ x.at = point /\ x.own = own
        BY <1>1 DEF CallType
      <3> HIDE DEF x
      <3> QED BY <3>1, <3>2, <3>4, <3>5, <3>6
    <2> QED BY <2>1, <2>2
  <1>3. ~Revises(x) /\ ~Revises(call[r]) /\ Orderly(x, r) /\ x.at # "idle"
    BY <1>1, <1>2 DEF Revises, Orderly, Ended
  <1>4. \A k \in Steps :
          turns /\ Held(call[r], table.session, cache, k, accepted[k])
            => Held(x, table'.session, cache', k, accepted'[k])
    <2> SUFFICES ASSUME NEW k \in Steps, turns,
                        Held(call[r], table.session, cache, k, accepted[k])
                 PROVE  Held(x, table.session, s, k, accepted[k])
      OBVIOUS
    <2>1. Bears(s, k, accepted[k]) /\ Bears(table.session, k, accepted[k])
      BY <1>3 DEF Held, Carries
    <2> QED BY <1>2, <2>1 DEF Held, Carries, OwnCarries
  <1>5. s # NoSession
    BY OnboardingAssumption
  <1>6. turns => Proper(r, x)
    BY <1>2, <1>4, <1>5 DEF Proper, RowRight, StoresRight, HoldsOn
  <1>7. accepted' = accepted \/ x.kind = "submit"
    OBVIOUS
  <1> QED BY <1>1, <1>2, <1>3, <1>6, <1>7, OneTurn

\* Reading, and filling the cache, bring nothing new.
LEMMA ReadingTurns ==
  ASSUME IInv, TInv, NEW r \in Calls, Reading(r)
  PROVE  TInv'
  <1>0. Fine(call[r], call) /\ call[r] \in CallType
    BY Typed
  <1>1. CASE CacheHit(r)
    <2>1. cache \in Session /\ cache # NoSession /\ ~Revises(call[r])
      BY <1>1, Typed DEF CacheHit, Revises
    <2>2. \A k \in Steps : Held(call[r], table.session, cache, k, accepted[k])
                             => Bears(cache, k, accepted[k])
      BY <2>1 DEF Held, Carries
    <2> QED BY <1>1, <2>1, <2>2, ProceedTurn DEF CacheHit
  <1>2. CASE CacheMiss(r)
    <2>1. "load" \in Points \ ({"persist", "store", "fill", "idle"} \cup Ended)
      BY DEF Points, Ended
    <2>2. call[r].at \notin {"persist", "store", "fill"} \cup Ended \cup {"idle"}
      BY <1>2 DEF CacheMiss, Ended
    <2> QED BY <1>2, <2>1, <2>2, PlainGoto DEF CacheMiss
  <1>3. CASE Load(r)
    <2>1. call[r].at = "load" /\ ~Revises(call[r]) /\ UnderWay(r) /\ call[r].verdict = "none"
      BY <1>0, <1>3 DEF Load, Revises, UnderWay, Ended, Fine, Sound
    <2>2. CASE table.session = NoSession
      BY <1>3, <2>1, <2>2, PlainEnd DEF Load, Ended
    <2>3. CASE table.session # NoSession
      <3> DEFINE x == [call[r] EXCEPT !.at = "fill", !.own = table.session]
      <3>1. x \in CallType /\ call' = [call EXCEPT ![r] = x]
        BY <1>3, <2>3, Typed DEF Load, CallType, Points
      <3>2. /\ x.kind = call[r].kind /\ x.verdict = "none" /\ x.at = "fill"
            /\ x.own = table.session
        BY <1>0, <2>1 DEF CallType
      <3> HIDE DEF x
      <3>3. ~Revises(x) /\ Orderly(x, r)
        BY <3>2 DEF Revises, Orderly, Ended
      <3>4. UNCHANGED <<table, cache, accepted, turns>>
        BY <1>3 DEF Load
      <3>5. \A k \in Steps : Held(call[r], table.session, cache, k, accepted[k])
                               => Held(x, table.session, cache, k, accepted[k])
        BY <2>1, <3>2, <3>3 DEF Held, Carries, OwnCarries
      <3>6. turns => Proper(r, x)
        BY <2>1, <3>2, <3>4, <3>5 DEF Proper, RowRight, StoresRight, HoldsOn
      <3> QED BY <2>1, <3>1, <3>2, <3>3, <3>4, <3>6, OneTurn
    <2> QED BY <2>2, <2>3
  <1>4. CASE LoadRejected(r)
    <2>1. call[r].at \notin {"persist", "store", "fill"} \cup Ended \cup {"idle"}
      BY <1>4 DEF LoadRejected, Ended
    <2> QED BY <1>4, <2>1, PlainEnd DEF LoadRejected, Ended
  <1>5. CASE Fill(r)
    <2>1. call[r].own \in Session /\ ~Revises(call[r]) /\ call[r].at = "fill"
      BY <1>0, <1>5, Typed DEF Fill, Fine, Sound, Revises
    <2>2. turns => table.session = call[r].own
      BY <2>1 DEF TInv, InStep
    <2>3. \A k \in Steps : Held(call[r], table.session, cache, k, accepted[k])
                             => Bears(call[r].own, k, accepted[k])
      BY <2>1, OnboardingAssumption DEF Held, OwnCarries
    <2> QED BY <1>5, <2>1, <2>2, <2>3, ProceedTurn DEF Fill
  <1>6. CASE ReadFails(r)
    <2>1. call[r].at \notin {"persist", "store", "fill"} \cup Ended \cup {"idle"}
      BY <1>6 DEF ReadFails, Ended
    <2> QED BY <1>6, <2>1, PlainEnd DEF ReadFails, Ended
  <1> QED BY <1>1, <1>2, <1>3, <1>4, <1>5, <1>6 DEF Reading
\* The validator has answered.
LEMMA JudgeTurns ==
  ASSUME IInv, TInv, NEW r \in Calls, Judge(r)
  PROVE  TInv'
  <1> DEFINE y == call[r]
             k0 == call[r].step
  <1>1. /\ y \in CallType /\ Fine(y, call) /\ y.at = "judge" /\ y.kind = "submit"
        /\ y.verdict = "none" /\ y.own # NoSession /\ UnderWay(r)
    BY Typed DEF Judge, Fine, Sound, UnderWay, Ended
  <1>2. y.own \in Session /\ k0 \in Steps /\ ~Revises(y)
    BY <1>1 DEF CallType, Revises
  <1>3. PICK valid \in BOOLEAN :
          call' = [call EXCEPT
            ![r].at = "persist",
            ![r].verdict = IF valid THEN "valid" ELSE "invalid",
            ![r].own = IF valid THEN Accept(@, k0, r) ELSE Reject(@, k0)]
    BY DEF Judge, Valid, PriorSteps
  <1> DEFINE own == IF valid THEN Accept(y.own, k0, r) ELSE Reject(y.own, k0)
             verdict == IF valid THEN "valid" ELSE "invalid"
             x == [y EXCEPT !.at = "persist", !.verdict = verdict, !.own = own]
  <1>4. own \in Session
    BY <1>2, AcceptTyped, RejectTyped
  <1>5. verdict \in {"valid", "invalid"} /\ (verdict = "valid" <=> valid)
    OBVIOUS
  <1>6. Bears(Accept(y.own, k0, r), k0, r)
    BY <1>2 DEF Bears, Accept, Session
  <1>7. ASSUME NEW k \in Steps, NEW d, Bears(y.own, k, d)
        PROVE  \/ Bears(own, k, d)
               \/ valid /\ (k = k0 \/ (k0 < k /\ k \notin own.completed))
    <2>1. CASE valid
      BY <1>2, <1>7, <2>1 DEF Bears, Accept, Reset, Session, Steps
    <2>2. CASE ~valid
      BY <1>2, <1>7, <2>2 DEF Bears, Reject, Session
    <2> QED BY <2>1, <2>2
  <1>8. valid => Bears(own, k0, r)
    BY <1>6
  <1>9. call' = [call EXCEPT ![r] = x]
    BY <1>3
  <1> HIDE DEF own, verdict
  <1>10. x \in CallType
    BY <1>1, <1>4, <1>5 DEF CallType, Points
  <1>11. /\ x.at = "persist" /\ x.verdict = verdict /\ x.own = own
         /\ x.kind = "submit" /\ x.step = k0
    BY <1>1 DEF CallType
  <1> HIDE DEF x
  <1>12. Revises(x) <=> valid
    BY <1>5, <1>11 DEF Revises
  <1>13. Orderly(x, r)
    BY <1>8, <1>11, <1>12 DEF Orderly, Ended
  <1>14. UNCHANGED <<table, cache, accepted, turns>>
    BY DEF Judge
  <1>15. \A k \in Steps :
           Held(y, table.session, cache, k, accepted[k])
             => Held(x, table.session, cache, k, accepted[k])
    <2> SUFFICES ASSUME NEW k \in Steps, Held(y, table.session, cache, k, accepted[k])
                 PROVE  Held(x, table.session, cache, k, accepted[k])
      OBVIOUS
    <2>1. Bears(y.own, k, accepted[k])
      BY <1>1, <1>2 DEF Held, OwnCarries
    <2>2. OwnCarries(x, k, accepted[k])
      BY <1>7, <1>11, <1>12, <2>1 DEF OwnCarries
    <2> QED BY <1>2, <2>2 DEF Held, Carries
  <1>16. turns => Proper(r, x)
    BY <1>11, <1>14, <1>15 DEF Proper, RowRight, StoresRight, HoldsOn
  <1>17. x.kind = call[r].kind /\ x.at # "idle"
    BY <1>1, <1>11
  <1> QED BY <1>1, <1>9, <1>10, <1>13, <1>14, <1>16, <1>17, OneTurn

\* A write, or the filling of the key, throws.  The row and the key may have
\* the call's copy all the same.
LEMMA ThrowTurns ==
  ASSUME IInv, TInv, NEW r \in Calls, End(r, "threw"),
         call[r].at \in {"persist", "store", "fill"},
         table'.session \in {table.session, call[r].own},
         cache' \in {cache, call[r].own},
         turns' = turns, accepted' = accepted
  PROVE  TInv'
  <1> DEFINE y == call[r]
             x == [y EXCEPT !.at = "threw", !.own = NoSession]
  <1>1. y \in CallType /\ y.own # NoSession /\ UnderWay(r)
    BY Typed DEF Fine, Sound, UnderWay, Ended
  <1>2. x \in CallType /\ call' = [call EXCEPT ![r] = x]
    BY <1>1 DEF End, CallType, Points, Ended
  <1>3. /\ x.kind = y.kind /\ x.verdict = y.verdict /\ x.step = y.step
        /\ x.own = NoSession /\ x.at = "threw"
    BY <1>1 DEF CallType
  <1> HIDE DEF x
  <1>4. ~Revises(x) /\ Orderly(x, r)
    BY <1>3 DEF Revises, Orderly, TInv
  <1>5. ASSUME NEW k \in Steps, accepted'[k] # NoData, Held(y, table.session, cache, k, accepted[k])
        PROVE  Gone(x, k) \/ Held(x, table'.session, cache', k, accepted'[k])
    <2>1. CASE Bears(y.own, k, accepted[k])
      BY <1>1, <1>3, <1>4, <1>5, <2>1 DEF Held, Carries
    <2>2. CASE Revises(y) /\ (k = y.step \/ y.step < k)
      <3>1. y.step <= k
        BY <1>1, <2>2 DEF CallType, Steps
      <3> QED BY <1>3, <2>2, <3>1 DEF Gone, Revises
    <2> QED BY <1>1, <1>5, <2>1, <2>2 DEF Held, OwnCarries
  <1>6. turns => Proper(r, x)
    BY <1>3, <1>5 DEF Proper, RowRight, StoresRight, HoldsOn
  <1> QED BY <1>1, <1>2, <1>3, <1>4, <1>6, OneTurn

\* The row gets the call's copy, and the call goes on to the key or tries again.
LEMMA PersistTurns ==
  ASSUME IInv, TInv, NEW r \in Calls, call[r].at = "persist",
         NEW p \in {"persist", "store"}, call' = [call EXCEPT ![r].at = p],
         table'.session = call[r].own \/ (p = "persist" /\ table'.session = table.session),
         UNCHANGED <<cache, accepted, turns>>
  PROVE  TInv'
  <1> DEFINE y == call[r]
             x == [y EXCEPT !.at = p]
  <1>1. y \in CallType /\ y.own # NoSession /\ UnderWay(r) /\ Orderly(y, r)
    BY Typed DEF Fine, Sound, UnderWay, Ended, TInv
  <1>2. x \in CallType /\ call' = [call EXCEPT ![r] = x]
    BY <1>1 DEF CallType, Points
  <1>3. /\ x.kind = y.kind /\ x.verdict = y.verdict /\ x.step = y.step
        /\ x.own = y.own /\ x.at = p
    BY <1>1 DEF CallType
  <1> HIDE DEF x
  <1>4. Revises(x) <=> Revises(y)
    BY <1>3 DEF Revises
  <1>5. Orderly(x, r)
    BY <1>1, <1>3, <1>4 DEF Orderly, Ended
  <1>6. \A k \in Steps :
          Held(y, table.session, cache, k, accepted[k])
            => Held(x, table'.session, cache, k, accepted[k])
    BY <1>1, <1>3, <1>4 DEF Held, Carries, OwnCarries
  <1>7. turns => Proper(r, x)
    BY <1>3, <1>6 DEF Proper, RowRight, StoresRight, HoldsOn
  <1>8. x.at # "idle"
    BY <1>3
  <1> QED BY <1>1, <1>2, <1>3, <1>5, <1>7, <1>8, OneTurn

\* The key gets it as well, and the call is answered.
LEMMA StoreTurns ==
  ASSUME IInv, TInv, NEW r \in Calls, Store(r)
  PROVE  TInv'
  <1> DEFINE y == call[r]
             x == [y EXCEPT !.at = "answered", !.own = NoSession]
  <1>1. y \in CallType /\ y.own # NoSession /\ UnderWay(r) /\ Orderly(y, r) /\ y.at = "store"
    BY Typed DEF Store, Fine, Sound, UnderWay, Ended, TInv
  <1>2. x \in CallType /\ call' = [call EXCEPT ![r] = x]
    BY <1>1 DEF Store, End, CallType, Points, Ended
  <1>3. /\ x.kind = y.kind /\ x.verdict = y.verdict
        /\ x.own = NoSession /\ x.at = "answered"
    BY <1>1 DEF CallType
  <1> HIDE DEF x
  <1>4. ~Revises(x) /\ Orderly(x, r)
    BY <1>1, <1>3 DEF Revises, Orderly
  <1>5. cache' = y.own /\ table' = table /\ turns' = turns
    BY DEF Store
  <1>6. turns => table.session = y.own
    BY <1>1 DEF TInv, InStep
  <1>7. ASSUME NEW k \in Steps, accepted'[k] # NoData,
               accepted[k] # NoData => Held(y, table.session, cache, k, accepted[k])
        PROVE  Bears(y.own, k, accepted'[k])
    <2>1. CASE y.verdict = "valid"
      <3>1. Revises(y) /\ Bears(y.own, y.step, r)
        BY <1>1, <2>1 DEF Orderly, Revises
      <3>2. accepted'[k] = IF k = y.step THEN r
                           ELSE IF k \in y.own.completed THEN accepted[k] ELSE NoData
        BY <2>1 DEF Store
      <3> QED BY <1>1, <1>7, <3>1, <3>2 DEF Held, OwnCarries
    <2>2. CASE y.verdict # "valid"
      <3>1. accepted' = accepted /\ ~Revises(y)
        BY <2>2 DEF Store, Revises
      <3> QED BY <1>1, <1>7, <3>1 DEF Held, OwnCarries
    <2> QED BY <2>1, <2>2
  <1>8. turns => Proper(r, x)
    BY <1>1, <1>3, <1>4, <1>5, <1>6, <1>7
       DEF Proper, RowRight, StoresRight, HoldsOn, Held, Carries
  <1>9. accepted' = accepted \/ x.kind = "submit"
    BY <1>1, <1>3 DEF Store, Orderly
  <1>10. x.at # "idle"
    BY <1>3
  <1> QED BY <1>1, <1>2, <1>3, <1>4, <1>5, <1>8, <1>9, <1>10, OneTurn

\* The row is written before the key: between the two the call has the turn.
LEMMA WritingTurns ==
  ASSUME IInv, TInv, NEW r \in Calls, Writing(r)
  PROVE  TInv'
  <1>0. Written(r).session = call[r].own
    BY DEF Written
  <1>1. CASE Judge(r)
    BY <1>1, JudgeTurns
  <1>2. CASE Persist(r)
    BY <1>0, <1>2, PersistTurns DEF Persist, Goto
  <1>3. CASE PersistFails(r)
    <2>1. /\ call[r].at = "persist" /\ UNCHANGED <<cache, accepted, turns>>
          /\ table'.session \in {table.session, call[r].own}
      BY <1>0, <1>3 DEF PersistFails
    <2>2. CASE End(r, "threw")
      BY <2>1, <2>2, ThrowTurns
    <2>3. CASE UNCHANGED call
      <3>1. call' = [call EXCEPT ![r].at = "persist"]
        BY <2>1, <2>3, Typed DEF CallType
      <3> QED BY <2>1, <3>1, PersistTurns
    <2> QED BY <1>3, <2>2, <2>3 DEF PersistFails
  <1>4. CASE Store(r)
    BY <1>4, StoreTurns
  <1>5. CASE StoreFails(r)
    BY <1>5, ThrowTurns DEF StoreFails
  <1> QED BY <1>1, <1>2, <1>3, <1>4, <1>5 DEF Writing
\* A call begins, and its turn with it if nobody else is under way.
LEMMA BeginTurns ==
  ASSUME IInv, TInv, NEW r \in Calls, NEW kind \in Kinds, NEW k0 \in Steps,
         Begin(r, kind, k0)
  PROVE  TInv'
  <1>1. PICK x :
          /\ call' = [call EXCEPT ![r] = x]
          /\ x.at \in {"persist", "check", "read"} /\ x.kind = kind /\ x.verdict = "none"
          /\ x.own # NoSession => kind = "create" /\ x.at = "persist"
    <2> DEFINE x == [Fresh EXCEPT !.at = First(kind), !.kind = kind, !.step = k0,
                       !.own = IF kind = "create" THEN Initial ELSE NoSession]
    <2>1. call' = [call EXCEPT ![r] = x]
      BY DEF Begin
    <2>2. x.at = First(kind) /\ x.kind = kind /\ x.verdict = "none"
      BY DEF Fresh
    <2>3. x.own = IF kind = "create" THEN Initial ELSE NoSession
      BY DEF Fresh
    <2> HIDE DEF x
    <2> QED BY <2>1, <2>2, <2>3 DEF First
  <1>2. call[r].at = "idle" /\ ~UnderWay(r) /\ ~Revises(x)
    BY <1>1 DEF Begin, UnderWay, Revises
  <1>3. call'[r] = x /\ \A q \in Calls : q # r => call'[q] = call[q]
    BY <1>1, Typed
  <1>4. UNCHANGED <<table, cache, accepted>>
    BY DEF Begin
  <1>5. \A q \in Calls : Orderly(call'[q], q)
    <2>1. Orderly(x, r)
      BY <1>1, <1>2 DEF Orderly, Ended
    <2> QED BY <1>3, <2>1 DEF TInv
  <1>6. Created' <=> Created
    BY <1>1, <1>2, <1>3 DEF Created
  <1>7. kind = "create" <=> ~Created
    BY DEF Begin, Created
  <1>8. Beginning'
    BY <1>1, <1>3, <1>4, <1>6, <1>7 DEF TInv, Beginning
  <1>9. ASSUME turns' PROVE Alone' /\ InStep' /\ Stay'
    <2>1. turns /\ \A q \in Calls : ~UnderWay(q)
      BY <1>9 DEF Begin
    <2>2. \A q \in Calls : q # r => ~UnderWay(q)'
      BY <1>3, <2>1 DEF UnderWay
    <2>3. Alone'
      BY <2>2 DEF Alone
    <2>4. InStep'
      <3>1. \A q \in Calls : call'[q].at \notin {"fill", "store"}
        BY <1>1, <1>3, <2>2 DEF UnderWay, Ended
      <3>2. ASSUME \A q \in Calls : call'[q].at \notin {"persist", "store", "threw", "crashed"}
            PROVE  \A q \in Calls : call[q].at \notin {"persist", "store", "threw", "crashed"}
        BY <1>2, <1>3, <3>2
      <3> QED BY <1>4, <2>1, <3>1, <3>2 DEF TInv, InStep
    <2>5. ASSUME NEW k \in Steps, accepted[k] # NoData
          PROVE  \/ \E q \in Calls : Gone(call'[q], k)
                 \/ Held(x, table.session, cache, k, accepted[k])
      <3>1. CASE \E q \in Calls : Gone(call[q], k)
        <4>1. PICK q \in Calls : Gone(call[q], k)
          BY <3>1
        <4>2. q # r
          BY <1>2, <4>1 DEF Gone
        <4> QED BY <1>3, <4>1, <4>2
      <3>2. CASE \E q \in Calls : Held(call[q], table.session, cache, k, accepted[k])
        <4>1. PICK q \in Calls : Held(call[q], table.session, cache, k, accepted[k])
          BY <3>2
        <4>2. ~Revises(call[q])
          BY <2>1 DEF UnderWay, Revises, Ended
        <4>3. x.own = NoSession
          BY <1>1, <1>7, <2>5 DEF TInv, Beginning
        <4> QED BY <1>2, <4>1, <4>2, <4>3, AtRest
      <3> QED BY <2>1, <2>5, <3>1, <3>2 DEF TInv, Stay
    <2>6. Turn(r)'
      BY <2>2 DEF Turn
    <2>7. Stay'
      BY <1>3, <1>4, <2>5, <2>6 DEF Stay
    <2> QED BY <2>3, <2>4, <2>7
  <1> QED BY <1>5, <1>8, <1>9 DEF TInv

\* What the key no longer holds, the row does.
LEMMA ExpireTurns == ASSUME IInv, TInv, Expire PROVE TInv'
  <1>1. cache' = NoSession /\ UNCHANGED <<table, call, accepted, turns>>
    BY DEF Expire
  <1>2. \A r \in Calls : Orderly(call'[r], r)
    BY <1>1 DEF TInv
  <1>3. Beginning'
    BY <1>1 DEF TInv, Beginning, Created
  <1>4. ASSUME turns PROVE Alone' /\ InStep' /\ Stay'
    <2>1. Alone' /\ InStep'
      BY <1>1, <1>4 DEF TInv, Alone, InStep, UnderWay
    <2>2. \A r \in Calls, k \in Steps :
            Held(call[r], table.session, cache, k, accepted[k])
              => Held(call[r], table.session, NoSession, k, accepted[k])
      BY DEF Held
    <2>3. \A r \in Calls : Turn(r)' <=> Turn(r)
      BY <1>1 DEF Turn, UnderWay
    <2> QED BY <1>1, <1>4, <2>1, <2>2, <2>3 DEF TInv, Stay
  <1> QED BY <1>1, <1>2, <1>3, <1>4 DEF TInv

\* The call that dies may have replaced what it was to replace, or not.
LEMMA CrashTurns == ASSUME IInv, TInv, Crash PROVE TInv'
  <1>1. UNCHANGED <<table, cache, accepted, turns>>
    BY DEF Crash
  <1>2. \A q \in Calls : ~UnderWay(q) => call'[q] = call[q]
    BY DEF Crash
  <1>3. ASSUME NEW q \in Calls, UnderWay(q)
        PROVE  /\ call'[q].at = "crashed" /\ call'[q].own = NoSession
               /\ call'[q].kind = call[q].kind /\ call'[q].step = call[q].step
               /\ call'[q].verdict = call[q].verdict
    <2>1. call'[q] = [call[q] EXCEPT !.at = "crashed", !.own = NoSession]
      BY <1>3 DEF Crash
    <2> QED BY <2>1, Typed DEF CallType
  <1>4. \A q \in Calls : ~UnderWay(q)'
    BY <1>2, <1>3 DEF UnderWay, Ended
  <1>5. \A q \in Calls : Orderly(call'[q], q)
    <2> SUFFICES ASSUME NEW q \in Calls PROVE Orderly(call'[q], q)
      OBVIOUS
    <2>1. CASE UnderWay(q)
      BY <1>3, <2>1 DEF TInv, Orderly, Revises
    <2>2. CASE ~UnderWay(q)
      BY <1>2, <2>2 DEF TInv
    <2> QED BY <2>1, <2>2
  <1>6. Created' <=> Created
    BY <1>2, <1>3 DEF Created, UnderWay, Ended
  <1>7. Beginning'
    BY <1>1, <1>2, <1>3, <1>6 DEF TInv, Beginning, UnderWay
  <1>8. ASSUME turns PROVE Alone' /\ InStep' /\ Stay'
    <2>1. Alone'
      BY <1>4 DEF Alone
    <2>2. \E q \in Calls : call'[q].at = "crashed"
      BY <1>3 DEF Crash
    <2>3. \A q \in Calls : call'[q].at \notin {"fill", "store"}
      BY <1>4 DEF UnderWay, Ended
    <2>4. InStep'
      BY <2>2, <2>3 DEF InStep
    <2>5. ASSUME NEW k \in Steps, accepted[k] # NoData
          PROVE  \/ \E q \in Calls : Gone(call'[q], k)
                 \/ \E q \in Calls :
                      Held(call'[q], table.session, cache, k, accepted[k])
      <3>1. CASE \E q \in Calls : Gone(call[q], k)
        <4>1. PICK q \in Calls : Gone(call[q], k)
          BY <3>1
        <4>2. ~UnderWay(q)
          BY <4>1 DEF Gone, UnderWay, Ended
        <4> QED BY <1>2, <4>1, <4>2
      <3>2. CASE \E q \in Calls : Held(call[q], table.session, cache, k, accepted[k])
        <4>1. PICK q \in Calls : Held(call[q], table.session, cache, k, accepted[k])
          BY <3>2
        <4>2. CASE ~UnderWay(q)
          BY <1>2, <4>1, <4>2
        <4>3. CASE UnderWay(q) /\ ~Revises(call[q])
          <5>1. ~Revises(call'[q]) /\ call'[q].own = NoSession
            BY <1>3, <4>3 DEF Revises
          <5> QED BY <4>1, <4>3, <5>1, AtRest
        <4>4. CASE UnderWay(q) /\ Revises(call[q])
          <5>1. call[q].own # NoSession /\ call[q] \in CallType
            BY <4>4, Typed DEF Revises, Fine, Sound
          <5>2. CASE Bears(call[q].own, k, accepted[k])
            <6>1. ~Revises(call'[q]) /\ call'[q].own = NoSession
              BY <1>3, <4>4 DEF Revises
            <6> QED BY <4>1, <5>2, <6>1 DEF Held, Carries
          <5>3. CASE k = call[q].step \/ call[q].step < k
            <6>1. call[q].step <= k
              BY <5>1, <5>3 DEF CallType, Steps
            <6> QED BY <1>3, <4>4, <6>1 DEF Gone, Revises
          <5> QED BY <4>1, <5>1, <5>2, <5>3 DEF Held, OwnCarries
        <4> QED BY <4>2, <4>3, <4>4
      <3> QED BY <1>8, <2>5, <3>1, <3>2 DEF TInv, Stay
    <2>6. \A q \in Calls : Turn(q)'
      BY <1>4 DEF Turn
    <2> QED BY <1>1, <2>1, <2>4, <2>5, <2>6 DEF Stay
  <1> QED BY <1>1, <1>5, <1>7, <1>8 DEF TInv

LEMMA TurnsNext == IInv /\ TInv /\ [Next]_vars => TInv'
  <1> SUFFICES ASSUME IInv, TInv, [Next]_vars PROVE TInv'
    OBVIOUS
  <1>1. ASSUME NEW r \in Calls, NEW kind \in Kinds, NEW k \in Steps, Begin(r, kind, k)
        PROVE  TInv'
    BY <1>1, BeginTurns
  <1>2. ASSUME NEW r \in Calls, Reading(r) PROVE TInv'
    BY <1>2, ReadingTurns
  <1>3. ASSUME NEW r \in Calls, Writing(r) PROVE TInv'
    BY <1>3, WritingTurns
  <1>4. ASSUME NEW r \in Calls, Validating(r) PROVE TInv'
    BY <1>4, ValidatingTurns
  <1>5. CASE Expire
    BY <1>5, ExpireTurns
  <1>6. CASE Crash
    BY <1>6, CrashTurns
  <1>7. CASE UNCHANGED vars
    <2>1. UNCHANGED <<table, cache, call, accepted, turns>>
      BY <1>7 DEF vars
    <2>2. /\ \A r \in Calls : Orderly(call'[r], r)
          /\ Beginning' /\ (turns => Alone' /\ InStep' /\ Stay')
      BY <2>1 DEF TInv, Beginning, Created, Alone, InStep, Stay, Turn, UnderWay
    <2> QED BY <2>1, <2>2 DEF TInv
  <1> QED BY <1>1, <1>2, <1>3, <1>4, <1>5, <1>6, <1>7 DEF Next

(***************************************************************************)
(* As long as calls take turns, what a submission was answered with is     *)
(* what the next reader finds, whichever statements fail and processes     *)
(* die, unless a submission nobody was answered replaced it.  A reader     *)
(* that has no key to read is promised nothing where the SELECT of the     *)
(* session does not bind, as in the source; where it does, the expiry of   *)
(* keys makes no difference.                                               *)
(***************************************************************************)
THEOREM StepsStay == Spec => []AcceptedStepsStay
  <1>1. IInv /\ TInv => AcceptedStepsStay
    <2> SUFFICES ASSUME IInv, TInv, turns, Readable,
                        NEW k \in Steps, accepted[k] # NoData
                 PROVE  Found(k) \/ Replaced(k)
      BY DEF AcceptedStepsStay
    <2>1. CASE \E r \in Calls : Gone(call[r], k)
      BY <2>1 DEF Gone, Replaced, Unanswered
    <2>2. CASE \E r \in Calls : Held(call[r], table.session, cache, k, accepted[k])
      <3>1. PICK r \in Calls : Held(call[r], table.session, cache, k, accepted[k])
        BY <2>2
      <3>2. View # NoSession /\ Carries(call[r], View, k, accepted[k])
        BY <3>1 DEF Held, View
      <3>3. CASE Bears(View, k, accepted[k])
        BY <3>2, <3>3 DEF Bears, Found
      <3>4. CASE Revises(call[r]) /\ View = call[r].own
        <4>1. CASE Bears(call[r].own, k, accepted[k])
          BY <3>2, <3>4, <4>1 DEF Bears, Found
        <4>2. CASE k = call[r].step \/ call[r].step < k
          <5>1. call[r].step <= k
            BY <4>2, Typed DEF Steps
          <5> QED BY <3>4, <5>1 DEF Revises, Replaced, Unanswered
        <4> QED BY <3>1, <3>2, <3>4, <4>1, <4>2 DEF Held, OwnCarries
      <3> QED BY <3>2, <3>3, <3>4 DEF Carries
    <2> QED BY <2>1, <2>2 DEF TInv, Stay
  <1> QED BY <1>1, InvInit, InvNext, InitTurns, TurnsNext, PTL DEF Spec

(***************************************************************************)
(* The row and the key agree whenever nobody is at work, unless calls      *)
(* overlapped or one of them failed.                                       *)
(***************************************************************************)
THEOREM StoresInStep == Spec => []StoresAgree
  <1>1. TInv => StoresAgree
    BY DEF TInv, InStep, StoresAgree, Unanswered
  <1> QED BY <1>1, InvInit, InvNext, InitTurns, TurnsNext, PTL DEF Spec
=============================================================================
