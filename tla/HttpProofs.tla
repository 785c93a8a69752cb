------------------------------ MODULE HttpProofs ------------------------------
(***************************************************************************)
(* What the program's two HTTP surfaces promise, for any number of         *)
(* requests, calls, keys, sessions and grants: the webhook that authorizes *)
(* signing (Authorization) and the management calls that callers retry     *)
(* (Idempotency).  Both take only Budget's steps on the ledger, so what is *)
(* proved there holds beside them.                                         *)
(***************************************************************************)
EXTENDS Authorization, Idempotency, AccountingProofs

-----------------------------------------------------------------------------
(***************************************************************************)
(* The webhook.                                                            *)
(*                                                                         *)
(* What makes its properties inductive is one fact about the read without  *)
(* the lock: of a session that existed then, it still tells the truth, for *)
(* sessions never change hands.  Everything else it says may be out of     *)
(* date.                                                                   *)
(***************************************************************************)
SessionRows == [status : {"absent", "active", "revoked"},
                key : Keys \cup {NoAuth},
                binding : {RequestOf[r].binding : r \in Requests} \cup {NoAuth}]

AuthTypeOK ==
    /\ apiKeys \in [Keys -> {"absent", "live", "revoked"}]
    /\ session \in [States -> SessionRows]
    /\ pc \in [Requests -> {"new", "decide", "create", "touch", "done"}]
    /\ snapshot = [r \in Requests |-> snapshot[r]]
    /\ answer = [r \in Requests |-> answer[r]]

\* The session that q asks for is s, but for its status.
SameSession(q, s) ==
    /\ session[q.state].status # "absent"
    /\ session[q.state].key = s.key
    /\ session[q.state].binding = s.binding

SnapshotStands ==
    \A r \in Requests :
        snapshot[r].key # "absent" /\ snapshot[r].session.status # "absent"
            => SameSession(RequestOf[r], snapshot[r].session)

AuthInv == AuthTypeOK /\ SnapshotStands /\ AllowedMatchSession

-----------------------------------------------------------------------------
\* Every request names a session and a fee, readable or not.
LEMMA RequestsAreTyped ==
    \A r \in Requests : RequestOf[r].state \in States /\ RequestOf[r].fee \in Amounts \cup {Unparsed}
BY RequestsAssumption

\* What an allowed request was told.
LEMMA AllowedMeans ==
    ASSUME NEW r, NEW s, NEW t, Decision(r, s, t) = "allowed"
    PROVE  /\ s.key = "live" /\ s.grant = "active" /\ s.allocation = "active"
           /\ InWindow(RequestOf[r].key, t)
           /\ ~(s.balance <= 0) /\ RequestOf[r].fee # Unparsed /\ ~(s.balance < RequestOf[r].fee)
           /\ s.session.status = "absent" => RequestOf[r].auth = NoAuth
           /\ ~SessionRefuses(RequestOf[r], s.session)
           /\ ~(t >= s.lagUntil)
BY DEF Decision

\* A session that does not refuse a request is active and has its key, its
\* binding and its token.
LEMMA NotRefusedMeans ==
    ASSUME NEW q, NEW s, s.status # "absent", ~SessionRefuses(q, s)
    PROVE  /\ s.key = q.key /\ s.binding = q.binding /\ s.status = "active"
           /\ q.auth \in {NoAuth, q.state}
BY DEF SessionRefuses

\* What a request reads in its snapshot is what the rows hold at that moment.
LEMMA SnapshotMeans ==
    ASSUME NEW r \in Requests, AuthTypeOK, Snapshot(r).key # "absent"
    PROVE  LET q == RequestOf[r]
               a == KeyAllocation[q.key]
           IN  /\ q.key \in Keys /\ Snapshot(r).key = apiKeys[q.key]
               /\ Snapshot(r).grant = grantStatus[GrantOf[a]]
               /\ Snapshot(r).allocation = status[a]
               /\ Snapshot(r).balance = balance[Available(a)]
               /\ Snapshot(r).session = session[q.state]
               /\ Snapshot(r).lagUntil = lagUntil
BY DEF Snapshot, NoSnapshot

-----------------------------------------------------------------------------
\* The webhook starts in order.
LEMMA AuthInvInit == AuthInit => AuthInv
<1> SUFFICES ASSUME AuthInit PROVE AuthInv
  OBVIOUS
<1>1. \A s \in States : session[s] = NoSession
  BY DEF AuthInit
<1>2. NoSession \in SessionRows
  BY DEF NoSession, SessionRows
<1>3. AuthTypeOK
  BY <1>2 DEF AuthInit, RequestInit, AuthTypeOK
<1>4. \A r \in Requests : snapshot[r].key = "absent" /\ answer[r] # "allowed"
  BY DEF AuthInit, RequestInit, NoSnapshot
<1> QED
  BY <1>3, <1>4 DEF AuthInv, SnapshotStands, AllowedMatchSession

\* Sessions and keys are what they were, but for statuses that are withdrawn.
SessionsStand ==
    \A s \in States : session[s].status # "absent" =>
        /\ session'[s].status # "absent"
        /\ session'[s].key = session[s].key /\ session'[s].binding = session[s].binding

\* A step that changes no request keeps the invariant, if sessions stand.
LEMMA BystanderKeeps ==
    ASSUME AuthInv, AuthTypeOK', SessionsStand, UNCHANGED <<snapshot, answer>>
    PROVE  AuthInv'
BY RequestsAreTyped DEF AuthInv, SnapshotStands, AllowedMatchSession, SessionsStand, SameSession

\* Reading the snapshot keeps the invariant.
LEMMA ReadKeeps ==
    ASSUME AuthInv, NEW r \in Requests, Read(r)
    PROVE  AuthInv'
<1>1. AuthTypeOK'
  BY DEF AuthInv, AuthTypeOK, Read, tables
<1>2. SnapshotStands'
  BY SnapshotMeans DEF AuthInv, AuthTypeOK, SnapshotStands, SameSession, Read, tables
<1>3. AllowedMatchSession'
  BY DEF AuthInv, AllowedMatchSession, Read, tables
<1> QED
  BY <1>1, <1>2, <1>3 DEF AuthInv

\* A request that ends allowed on a snapshot that stands has its session.
LEMMA FinishKeeps ==
    ASSUME AuthInv, NEW r \in Requests, NEW s, NEW d,
           d = "allowed" => /\ ~SessionRefuses(RequestOf[r], s.session)
                            /\ s.session.status # "absent"
                            /\ SameSession(RequestOf[r], s.session),
           Finish(r, d, s), UNCHANGED <<session, apiKeys>>
    PROVE  AllowedMatchSession' /\ pc' \in [Requests -> {"new", "decide", "create", "touch", "done"}]
           /\ answer' = [x \in Requests |-> answer'[x]]
<1>1. pc' \in [Requests -> {"new", "decide", "create", "touch", "done"}]
  BY DEF AuthInv, AuthTypeOK, Finish
<1>2. answer' = [x \in Requests |-> answer'[x]] /\ \A x \in Requests : answer'[x] = IF x = r THEN d ELSE answer[x]
  BY DEF AuthInv, AuthTypeOK, Finish
<1>3. d = "allowed" => /\ session[RequestOf[r].state].key = RequestOf[r].key
                       /\ session[RequestOf[r].state].binding = RequestOf[r].binding
                       /\ session[RequestOf[r].state].status # "absent"
                       /\ RequestOf[r].auth \in {NoAuth, RequestOf[r].state}
  BY NotRefusedMeans DEF SameSession
<1> QED
  BY <1>1, <1>2, <1>3 DEF AuthInv, AllowedMatchSession

\* Deciding on the snapshot keeps the invariant.
LEMMA DecideKeeps ==
    ASSUME AuthInv, NEW r \in Requests, Decide(r)
    PROVE  AuthInv'
<1> DEFINE s == snapshot[r]
           d == Decision(r, s, now)
<1>1. /\ snapshot' = [snapshot EXCEPT ![r] = NoSnapshot]
      /\ UNCHANGED <<session, apiKeys>>
      /\ \/ d = "allowed" /\ s.session.status = "absent"
            /\ pc' = [pc EXCEPT ![r] = "create"] /\ UNCHANGED <<answer, time>>
         \/ ~(d = "allowed" /\ s.session.status = "absent") /\ Finish(r, d, s)
  BY DEF Decide, tables
<1>2. SnapshotStands' /\ snapshot' = [x \in Requests |-> snapshot'[x]]
  BY <1>1 DEF AuthInv, AuthTypeOK, SnapshotStands, SameSession, NoSnapshot
<1>3. CASE d = "allowed" /\ pc' = [pc EXCEPT ![r] = "create"] /\ UNCHANGED <<answer, time>>
  BY <1>1, <1>2, <1>3 DEF AuthInv, AuthTypeOK, AllowedMatchSession
<1>4. CASE ~(d = "allowed" /\ s.session.status = "absent") /\ Finish(r, d, s)
  <2>1. d = "allowed" => /\ ~SessionRefuses(RequestOf[r], s.session) /\ s.session.status # "absent"
                         /\ SameSession(RequestOf[r], s.session)
    BY <1>4, AllowedMeans DEF AuthInv, SnapshotStands
  <2> HIDE DEF s, d
  <2>2. AllowedMatchSession' /\ pc' \in [Requests -> {"new", "decide", "create", "touch", "done"}]
        /\ answer' = [x \in Requests |-> answer'[x]]
    BY <1>1, <1>4, <2>1, FinishKeeps
  <2> QED
    BY <1>1, <1>2, <2>2 DEF AuthInv, AuthTypeOK
<1> QED
  BY <1>1, <1>3, <1>4

\* A session inserted keeps the invariant, and replaces none.
LEMMA CreateSessionKeeps ==
    ASSUME AuthInv, NEW r \in Requests, CreateSession(r)
    PROVE  AuthInv' /\ SessionsStand
<1> DEFINE q == RequestOf[r]
           s == Snapshot(r)
           d == Decision(r, s, now)
<1>1. /\ UNCHANGED <<apiKeys, snapshot>>
      /\ \/ /\ d = "allowed" /\ s.session.status = "absent"
            /\ session' = [session EXCEPT ![q.state] =
                              [status |-> "active", key |-> q.key, binding |-> q.binding]]
            /\ answer' = [answer EXCEPT ![r] = d]
            /\ pc' = [pc EXCEPT ![r] = "done"]
         \/ /\ ~(d = "allowed" /\ s.session.status = "absent")
            /\ Finish(r, d, s) /\ UNCHANGED session
  BY DEF CreateSession
<1>2. d = "allowed" => /\ s.key = "live" /\ ~SessionRefuses(q, s.session)
                       /\ s.session.status = "absent" => q.auth = NoAuth
  BY AllowedMeans
<1>3. d = "allowed" => q.key \in Keys /\ s.session = session[q.state]
  BY <1>2, SnapshotMeans DEF AuthInv
<1>4. CASE /\ d = "allowed" /\ s.session.status = "absent"
           /\ session' = [session EXCEPT ![q.state] =
                             [status |-> "active", key |-> q.key, binding |-> q.binding]]
           /\ answer' = [answer EXCEPT ![r] = d]
           /\ pc' = [pc EXCEPT ![r] = "done"]
  <2>1. [status |-> "active", key |-> q.key, binding |-> q.binding] \in SessionRows
    BY <1>3, <1>4 DEF SessionRows
  <2>2. AuthTypeOK'
    BY <1>1, <1>4, <2>1 DEF AuthInv, AuthTypeOK
  <2>3. session[q.state].status = "absent"
    BY <1>3, <1>4
  <2>4. SessionsStand
    BY <1>4, <2>3 DEF SessionsStand, AuthInv, AuthTypeOK
  <2>5. SnapshotStands'
    BY <1>1, <2>4, RequestsAreTyped DEF AuthInv, SnapshotStands, SameSession, SessionsStand
  <2>6. /\ q.state \in States
        /\ session'[q.state] = [status |-> "active", key |-> q.key, binding |-> q.binding]
        /\ \A x \in Requests \ {r} : answer'[x] = answer[x]
    BY <1>4, RequestsAreTyped DEF AuthInv, AuthTypeOK
  <2>7. AllowedMatchSession'
    <3> SUFFICES ASSUME NEW x \in Requests, answer'[x] = "allowed"
                 PROVE  /\ session'[RequestOf[x].state].status # "absent"
                        /\ session'[RequestOf[x].state].key = RequestOf[x].key
                        /\ session'[RequestOf[x].state].binding = RequestOf[x].binding
                        /\ RequestOf[x].auth \in {NoAuth, RequestOf[x].state}
      BY DEF AllowedMatchSession
    <3>1. CASE x = r
      BY <1>2, <1>4, <2>6, <3>1
    <3>2. CASE x # r
      BY <2>4, <2>6, <3>2, RequestsAreTyped DEF AuthInv, AllowedMatchSession, SessionsStand
    <3> QED
      BY <3>1, <3>2
  <2> QED
    BY <2>2, <2>4, <2>5, <2>7 DEF AuthInv
<1>5. CASE /\ ~(d = "allowed" /\ s.session.status = "absent")
           /\ Finish(r, d, s) /\ UNCHANGED session
  <2>1. d = "allowed" => /\ ~SessionRefuses(RequestOf[r], s.session) /\ s.session.status # "absent"
                         /\ SameSession(RequestOf[r], s.session)
    BY <1>2, <1>3, <1>5 DEF SameSession
  <2> HIDE DEF s, d
  <2>2. AllowedMatchSession' /\ pc' \in [Requests -> {"new", "decide", "create", "touch", "done"}]
        /\ answer' = [x \in Requests |-> answer'[x]]
    BY <1>1, <1>5, <2>1, FinishKeeps
  <2> QED
    BY <1>1, <1>5, <2>2 DEF AuthInv, AuthTypeOK, SnapshotStands, SameSession, SessionsStand
<1> QED
  BY <1>1, <1>4, <1>5

\* A session touched, or a request that fails, keeps the invariant.
LEMMA TouchKeeps ==
    ASSUME AuthInv, NEW r \in Requests, Touch(r) \/ Fail(r)
    PROVE  AuthInv'
<1>1. UNCHANGED <<session, apiKeys>> /\ pc' = [pc EXCEPT ![r] = "done"]
  BY DEF Touch, Fail, tables
<1>2. AuthTypeOK'
  BY <1>1 DEF AuthInv, AuthTypeOK, Touch, Fail
<1>3. SnapshotStands'
  BY <1>1 DEF AuthInv, AuthTypeOK, SnapshotStands, SameSession, Touch, Fail, NoSnapshot
<1>4. AllowedMatchSession'
  BY <1>1 DEF AuthInv, AuthTypeOK, AllowedMatchSession, Touch, Fail
<1> QED
  BY <1>2, <1>3, <1>4 DEF AuthInv

\* Management of keys and sessions.
LEMMA ManagementKeeps ==
    ASSUME AuthInv,
           \/ \E k \in Keys : CreateKey(k) \/ RevokeKey(k)
           \/ \E s \in States : RevokeSession(s)
    PROVE  AuthInv'
<1>1. UNCHANGED requestVars
  BY DEF CreateKey, RevokeKey, RevokeSession
<1>2. AuthTypeOK' /\ SessionsStand
  <2>1. CASE \E k \in Keys : CreateKey(k) \/ RevokeKey(k)
    BY <2>1, <1>1 DEF AuthInv, AuthTypeOK, SessionsStand, CreateKey, RevokeKey, requestVars
  <2>2. ASSUME NEW s \in States, RevokeSession(s)
        PROVE  AuthTypeOK' /\ SessionsStand
    <3>1. session[s] \in SessionRows /\ [session[s] EXCEPT !.status = "revoked"] \in SessionRows
      BY DEF AuthInv, AuthTypeOK, SessionRows
    <3>2. session' = [session EXCEPT ![s] = [session[s] EXCEPT !.status = "revoked"]]
      BY <2>2 DEF RevokeSession
    <3>3. session' \in [States -> SessionRows]
      BY <3>1, <3>2 DEF AuthInv, AuthTypeOK
    <3>4. AuthTypeOK'
      BY <1>1, <2>2, <3>3 DEF AuthInv, AuthTypeOK, RevokeSession, requestVars
    <3>5. SessionsStand
      BY <3>1, <3>2 DEF AuthInv, AuthTypeOK, SessionsStand, SessionRows
    <3> QED
      BY <3>4, <3>5
  <2> QED
    BY <2>1, <2>2
<1> QED
  BY <1>1, <1>2, BystanderKeeps DEF requestVars

\* Every step beside the webhook, and of it, keeps the invariant.
LEMMA AuthInvNext == AuthInv /\ [AuthNext]_authVars => AuthInv'
<1> SUFFICES ASSUME AuthInv, [AuthNext]_authVars PROVE AuthInv'
  OBVIOUS
<1>1. ASSUME NEW r \in Requests, Read(r) \/ Decide(r) \/ CreateSession(r) \/ Touch(r) \/ Fail(r)
      PROVE  AuthInv'
  BY <1>1, ReadKeeps, DecideKeeps, CreateSessionKeeps, TouchKeeps
<1>2. ASSUME \/ \E k \in Keys : CreateKey(k) \/ RevokeKey(k)
             \/ \E s \in States : RevokeSession(s)
      PROVE  AuthInv'
  BY <1>2, ManagementKeeps
<1>3. CASE Spend \/ PublishLag \/ Tick \/ UNCHANGED authVars
  <2>1. UNCHANGED <<tables, requestVars>>
    BY <1>3 DEF Spend, PublishLag, Tick, authVars
  <2> QED
    BY <2>1 DEF AuthInv, AuthTypeOK, SnapshotStands, AllowedMatchSession, SameSession, tables, requestVars
<1> QED
  BY <1>1, <1>2, <1>3 DEF AuthNext

\* What is left of the read without the lock, and the sessions of those it allowed.
THEOREM AuthInvariant == AuthSpec => []AuthInv
BY AuthInvInit, AuthInvNext, PTL DEF AuthSpec

\* Every request that was allowed has the session of its state id, with the key and the
\* binding it asked for, however many requests race for it.
THEOREM AllowedHaveTheirSession == AuthSpec => []AllowedMatchSession
<1>1. AuthInv => AllowedMatchSession
  BY DEF AuthInv
<1> QED
  BY <1>1, AuthInvariant, PTL

-----------------------------------------------------------------------------
\* Every step of the webhook is one of the budgets, or leaves them alone.
LEMMA BudgetStepOfAuth == AuthInv /\ [AuthNext]_authVars => [Next]_vars
<1> SUFFICES ASSUME AuthInv, [AuthNext]_authVars PROVE [Next]_vars
  OBVIOUS
<1>1. CASE Spend
  BY <1>1, KeyAllocationAssumption DEF Spend, Next, Usage
<1>2. CASE UNCHANGED vars
  BY <1>2
<1>3. ASSUME NEW r \in Requests, Read(r) \/ Decide(r) \/ CreateSession(r) \/ Touch(r) \/ Fail(r)
      PROVE  UNCHANGED vars
  BY <1>3 DEF Read, Decide, CreateSession, Touch, Fail
<1>4. ASSUME \/ \E k \in Keys : CreateKey(k) \/ RevokeKey(k)
             \/ \E s \in States : RevokeSession(s)
             \/ PublishLag \/ Tick
      PROVE  UNCHANGED vars
  BY <1>4 DEF CreateKey, RevokeKey, RevokeSession, PublishLag, Tick
<1> QED
  BY <1>1, <1>2, <1>3, <1>4 DEF AuthNext, authVars

\* The webhook beside management and usage takes only Budget's steps on the ledger.
THEOREM AuthorizationKeepsBudget == AuthSpec => Spec
<1>1. AuthInit => Init
  BY DEF AuthInit
<1> QED
  BY <1>1, AuthInvariant, BudgetStepOfAuth, PTL DEF AuthSpec, Spec

\* The budgets keep their types beside the webhook.
LEMMA BudgetBesideWebhook == AuthSpec => []TypeOK
BY AuthorizationKeepsBudget, TypeCorrect, PTL

\* Activity is never in the future, nor is the time of a touch.
Times ==
    /\ now \in Nat /\ lagUntil \in Nat
    /\ seen \in [States -> Nat] /\ used \in [Keys -> Nat] /\ time \in [Requests -> Nat]
    /\ \A s \in States : seen[s] <= now
    /\ \A k \in Keys : used[k] <= now
    /\ \A r \in Requests : time[r] <= now

\* No step takes a session's last activity back.
LEMMA TimesStep ==
    Times /\ [AuthNext]_authVars => Times' /\ ActivityForward
<1> SUFFICES ASSUME Times, [AuthNext]_authVars PROVE Times' /\ ActivityForward
  OBVIOUS
<1> USE RequestsAreTyped, TouchAgeAssumption DEF Times, ActivityForward
<1>1. CASE \/ \E k \in Keys : CreateKey(k) \/ RevokeKey(k)
           \/ \E s \in States : RevokeSession(s)
           \/ Spend \/ UNCHANGED authVars
  BY <1>1 DEF CreateKey, RevokeKey, RevokeSession, Spend, authVars, tables, requestVars
<1>2. CASE PublishLag \/ Tick
  BY <1>2 DEF PublishLag, Tick, tables, requestVars
<1>3. ASSUME NEW r \in Requests, Read(r)
      PROVE  Times' /\ ActivityForward
  BY <1>3 DEF Read, tables
<1>4. ASSUME NEW r \in Requests, Decide(r)
      PROVE  Times' /\ ActivityForward
  <2>1. UNCHANGED <<now, lagUntil, seen, used>> /\ \/ UNCHANGED time
                                                   \/ time' = [time EXCEPT ![r] = now]
                                                   \/ time' = [time EXCEPT ![r] = 0]
    BY <1>4 DEF Decide, Finish, tables
  <2> QED
    BY <2>1
<1>5. ASSUME NEW r \in Requests, CreateSession(r)
      PROVE  Times' /\ ActivityForward
  <2>1. UNCHANGED <<now, lagUntil>>
    BY <1>5 DEF CreateSession
  <2>2. \/ UNCHANGED <<seen, used>> /\ \/ time' = [time EXCEPT ![r] = now]
                                       \/ time' = [time EXCEPT ![r] = 0]
        \/ /\ UNCHANGED time
           /\ seen' = [seen EXCEPT ![RequestOf[r].state] = now]
           /\ used' = [used EXCEPT ![RequestOf[r].key] = now]
    BY <1>5 DEF CreateSession, Finish
  <2> QED
    BY <2>1, <2>2
<1>6. ASSUME NEW r \in Requests, Touch(r)
      PROVE  Times' /\ ActivityForward
  <2> DEFINE Touched(old) == IF old <= time[r] - TouchAge THEN time[r] ELSE old
  <2>1. /\ UNCHANGED <<now, lagUntil>>
        /\ time' = [time EXCEPT ![r] = 0]
        /\ \A s \in States : seen'[s] = seen[s] \/ seen'[s] = Touched(seen[s])
        /\ \A k \in Keys : used'[k] = used[k] \/ used'[k] = Touched(used[k])
        /\ seen' \in [States -> Nat] /\ used' \in [Keys -> Nat]
    BY <1>6 DEF Touch
  <2>2. \A n \in Nat : n <= now => Touched(n) \in Nat /\ n <= Touched(n) /\ Touched(n) <= now
    OBVIOUS
  <2> HIDE DEF Touched
  <2> QED
    BY <2>1, <2>2
<1>7. ASSUME NEW r \in Requests, Fail(r)
      PROVE  Times' /\ ActivityForward
  BY <1>7 DEF Fail, tables
<1> QED
  BY <1>1, <1>2, <1>3, <1>4, <1>5, <1>6, <1>7 DEF AuthNext

\* The times of a session and of a request are in order throughout.
LEMMA TimesHold == AuthSpec => []Times
<1>1. ASSUME AuthInit PROVE Times
  <2>1. now = 1 /\ lagUntil = 0 /\ time = [r \in Requests |-> 0]
    BY <1>1 DEF AuthInit, RequestInit
  <2>2. seen = [s \in States |-> 0] /\ used = [k \in Keys |-> 0]
    BY <1>1 DEF AuthInit
  <2> QED
    BY <2>1, <2>2 DEF Times
<1> QED
  BY <1>1, TimesStep, PTL DEF AuthSpec

\* Activity timestamps only move forward, though touches carry the time of a decision
\* that others have overtaken.
THEOREM ActivityOnlyForward == AuthSpec => ActivityMovesForward
<1>1. Times /\ [AuthNext]_authVars => [ActivityForward]_authVars
  BY TimesStep
<1> QED
  BY <1>1, TimesHold, PTL DEF AuthSpec, ActivityMovesForward

\* A step opens a session only for a request that was permitted.
LEMMA OpensPermittedStep ==
    AuthInv /\ Times /\ TypeOK /\ [AuthNext]_authVars => OpensPermitted
<1> SUFFICES ASSUME AuthInv, Times, TypeOK, [AuthNext]_authVars PROVE OpensPermitted
  OBVIOUS
<1>1. CASE UNCHANGED session
  BY <1>1 DEF OpensPermitted
<1>2. ASSUME NEW x \in States, RevokeSession(x)
      PROVE  OpensPermitted
  BY <1>2 DEF RevokeSession, OpensPermitted, AuthInv, AuthTypeOK
<1>3. ASSUME NEW r \in Requests, CreateSession(r), session' # session
      PROVE  OpensPermitted
  <2> DEFINE q == RequestOf[r]
             a == KeyAllocation[q.key]
             s == Snapshot(r)
  <2>1. /\ Decision(r, s, now) = "allowed"
        /\ session' = [session EXCEPT ![q.state] =
                          [status |-> "active", key |-> q.key, binding |-> q.binding]]
    BY <1>3 DEF CreateSession
  <2>2. /\ s.key = "live" /\ s.grant = "active" /\ s.allocation = "active"
        /\ InWindow(q.key, now)
        /\ ~(s.balance <= 0) /\ q.fee # Unparsed /\ ~(s.balance < q.fee)
        /\ ~(now >= s.lagUntil)
    BY <2>1, AllowedMeans
  <2>3. /\ q.key \in Keys /\ s.key = apiKeys[q.key]
        /\ s.grant = grantStatus[GrantOf[a]] /\ s.allocation = status[a]
        /\ s.balance = balance[Available(a)] /\ s.lagUntil = lagUntil
    BY <2>2, SnapshotMeans DEF AuthInv
  <2>4. q.fee \in Amounts /\ q.fee \in Nat
    BY <2>2, RequestsAreTyped, AmountsAssumption
  <2>5. balance[Available(a)] \in Int
    BY <2>3, KeyAllocationAssumption, AccountsDiffer DEF TypeOK
  <2>6. balance[Available(a)] > 0 /\ balance[Available(a)] >= q.fee
    BY <2>2, <2>3, <2>4, <2>5
  <2>7. apiKeys[q.key] = "live" /\ grantStatus[GrantOf[a]] = "active" /\ status[a] = "active"
        /\ InWindow(q.key, now) /\ ~(now >= lagUntil)
    BY <2>2, <2>3
  <2>8. Permitted(r)
    BY <2>4, <2>6, <2>7 DEF Permitted, Times
  <2> QED
    BY <2>1, <2>8, RequestsAreTyped DEF OpensPermitted, AuthInv, AuthTypeOK
<1>4. ASSUME NEW r \in Requests, Read(r) \/ Decide(r) \/ Touch(r) \/ Fail(r)
      PROVE  UNCHANGED session
  BY <1>4 DEF Read, Decide, Touch, Fail, tables
<1>5. ASSUME \/ \E k \in Keys : CreateKey(k) \/ RevokeKey(k)
             \/ Spend \/ PublishLag \/ Tick \/ UNCHANGED authVars
      PROVE  UNCHANGED session
  BY <1>5 DEF CreateKey, RevokeKey, Spend, PublishLag, Tick, authVars, tables
<1> QED
  BY <1>1, <1>2, <1>3, <1>4, <1>5 DEF AuthNext

\* A session is only opened when everything permits it at that moment, whatever the
\* read without the lock had said.
THEOREM OpenedOnlyWhenPermitted == AuthSpec => OpenedWhenPermitted
<1>1. AuthInv /\ Times /\ TypeOK /\ [AuthNext]_authVars => [OpensPermitted]_authVars
  BY OpensPermittedStep
<1> QED
  BY <1>1, AuthInvariant, TimesHold, BudgetBesideWebhook, PTL DEF AuthSpec, OpenedWhenPermitted

-----------------------------------------------------------------------------
\* A request that read a withdrawal has that snapshot in its hands or has ended.
LateAreLost ==
    \A r \in late :
        \/ pc[r] = "decide" /\ Withdrawn(snapshot[r])
        \/ pc[r] = "done"

\* No answer before a decision.
Unanswered == \A r \in Requests : pc[r] \in {"new", "decide", "create"} => answer[r] # "allowed"

LateInv == late \subseteq Requests /\ LateAreLost /\ Unanswered /\ WithdrawnIsDenied

\* What was read of a withdrawn grant, allocation or key is refused.
LEMMA WithdrawnIsRefused ==
    ASSUME NEW r, NEW s, NEW t, Withdrawn(s)
    PROVE  Decision(r, s, t) # "allowed"
<1> SUFFICES ASSUME Decision(r, s, t) = "allowed" PROVE FALSE
  OBVIOUS
<1>1. /\ s.key = "live" /\ s.grant = "active" /\ s.allocation = "active"
      /\ ~SessionRefuses(RequestOf[r], s.session)
  BY AllowedMeans
<1>2. s.session.status = "revoked"
  BY <1>1 DEF Withdrawn
<1> QED
  BY <1>1, <1>2, NotRefusedMeans

\* Every step keeps what is known of the requests that read something
\* withdrawn.
LEMMA LateStep ==
    AuthInv /\ LateInv /\ [AuthNext]_authVars => LateInv'
<1> SUFFICES ASSUME AuthInv, LateInv, [AuthNext]_authVars PROVE LateInv'
  OBVIOUS
<1> USE DEF AuthInv, AuthTypeOK, LateInv, LateAreLost, Unanswered, WithdrawnIsDenied
<1>1. CASE UNCHANGED requestVars
  BY <1>1 DEF requestVars
<1>2. ASSUME NEW r \in Requests, Read(r)
      PROVE  LateInv'
  <2>1. /\ pc[r] = "new" /\ pc' = [pc EXCEPT ![r] = "decide"] /\ UNCHANGED answer
        /\ snapshot' = [snapshot EXCEPT ![r] = Snapshot(r)]
        /\ late' = IF Withdrawn(Snapshot(r)) THEN late \cup {r} ELSE late
    BY <1>2 DEF Read
  <2>2. r \notin late
    BY <2>1
  <2> QED
    BY <2>1, <2>2
<1>3. ASSUME NEW r \in Requests, Decide(r)
      PROVE  LateInv'
  <2>1. /\ pc[r] = "decide" /\ UNCHANGED late
        /\ snapshot' = [snapshot EXCEPT ![r] = NoSnapshot]
    BY <1>3 DEF Decide
  <2>2. r \in late => Decision(r, snapshot[r], now) # "allowed"
    BY <2>1, WithdrawnIsRefused
  <2>3. \/ pc' = [pc EXCEPT ![r] = "create"] /\ UNCHANGED answer /\ r \notin late
        \/ /\ answer' = [answer EXCEPT ![r] = Decision(r, snapshot[r], now)]
           /\ pc' = [pc EXCEPT ![r] = "touch"] \/ pc' = [pc EXCEPT ![r] = "done"]
           /\ r \in late => pc' = [pc EXCEPT ![r] = "done"]
    BY <1>3, <2>2 DEF Decide, Finish
  <2> QED
    BY <2>1, <2>2, <2>3
<1>4. ASSUME NEW r \in Requests, CreateSession(r)
      PROVE  LateInv'
  <2>1. /\ pc[r] = "create" /\ UNCHANGED snapshot
        /\ late' = IF Withdrawn(Snapshot(r)) THEN late \cup {r} ELSE late
    BY <1>4 DEF CreateSession
  <2>2. r \notin late
    BY <2>1
  <2>3. Withdrawn(Snapshot(r)) => Decision(r, Snapshot(r), now) # "allowed"
    BY WithdrawnIsRefused
  <2>4. /\ answer' = [answer EXCEPT ![r] = Decision(r, Snapshot(r), now)]
        /\ pc' = [pc EXCEPT ![r] = "touch"] \/ pc' = [pc EXCEPT ![r] = "done"]
        /\ r \in late' => pc' = [pc EXCEPT ![r] = "done"]
    BY <1>4, <2>1, <2>2, <2>3 DEF CreateSession, Finish
  <2> QED
    BY <2>1, <2>2, <2>3, <2>4
<1>5. ASSUME NEW r \in Requests, Touch(r) \/ Fail(r)
      PROVE  LateInv'
  BY <1>5 DEF Touch, Fail
<1> QED
  BY <1>1, <1>2, <1>3, <1>4, <1>5
  DEF AuthNext, CreateKey, RevokeKey, RevokeSession, Spend, PublishLag, Tick, authVars

\* A request that reads a withdrawn permission, in any of its transactions, is not allowed.
THEOREM WithdrawnAreDenied == AuthSpec => []WithdrawnIsDenied
<1>1. AuthInit => LateInv
  BY DEF AuthInit, RequestInit, LateInv, LateAreLost, Unanswered, WithdrawnIsDenied
<1>2. LateInv => WithdrawnIsDenied
  BY DEF LateInv
<1> QED
  BY <1>1, <1>2, LateStep, AuthInvariant, PTL DEF AuthSpec

-----------------------------------------------------------------------------
(***************************************************************************)
(* The management calls.                                                   *)
(*                                                                         *)
(* The inductive invariant says what the rows of management_idempotency    *)
(* mean: a row is kept under the grant its call belongs to, no two rows of *)
(* a grant share a key, and a call with a key was committed once if it has *)
(* a row and never if it has none.                                         *)
(***************************************************************************)
\* A row belongs to a keyed call and to the grant of that call.
RowsFiled ==
    \A row \in responses :
        /\ row.call \in Calls
        /\ row.call.key # None
        /\ row.grant = Scope(row.call)
        /\ row.result \in Results

\* The primary key of management_idempotency.
RowsUnique ==
    \A r, s \in responses :
        r.grant = s.grant /\ r.call.key = s.call.key => r = s

IdemInv ==
    /\ performed \in [Calls -> Nat]
    /\ reply \in [Calls -> Results \cup {None, Failed}]
    /\ RowsFiled
    /\ RowsUnique
    /\ ExecutedOnce

-----------------------------------------------------------------------------
\* A step that neither commits a call nor stores a row keeps the invariant.
LEMMA KeepsRows ==
    ASSUME IdemInv,
           reply' \in [Calls -> Results \cup {None, Failed}],
           responses' = responses,
           performed' = performed
    PROVE  IdemInv'
BY DEF IdemInv, RowsFiled, RowsUnique, ExecutedOnce, Scope

\* Answering a call changes its reply to something of the right type.
LEMMA ReplyType ==
    ASSUME reply \in [Calls -> Results \cup {None, Failed}],
           NEW c \in Calls,
           NEW x \in Results \cup {None, Failed},
           reply' = [reply EXCEPT ![c] = x]
    PROVE  reply' \in [Calls -> Results \cup {None, Failed}]
OBVIOUS

\* Committing a call without a key leaves the rows alone.
LEMMA ExecuteUnkeyed ==
    ASSUME IdemInv, NEW c \in Calls, NEW result \in Results,
           Execute(c, result), c.key = None
    PROVE  IdemInv'
<1>1. responses' = responses
  BY DEF Execute, Stored
<1>2. reply' \in [Calls -> Results \cup {None, Failed}]
  <2>1. CASE reply' = reply
    BY <2>1 DEF IdemInv
  <2>2. CASE reply' = [reply EXCEPT ![c] = result]
    BY <2>2, ReplyType DEF IdemInv
  <2> QED
    BY <2>1, <2>2 DEF Execute
<1>3. performed' \in [Calls -> Nat]
  BY DEF Execute, IdemInv
<1>4. \A d \in Calls : d.key # None => performed'[d] = performed[d]
  BY DEF Execute, IdemInv
<1>5. ExecutedOnce'
  BY <1>1, <1>4 DEF IdemInv, ExecutedOnce
<1>6. RowsFiled' /\ RowsUnique'
  BY <1>1 DEF IdemInv, RowsFiled, RowsUnique, Scope
<1> QED
  BY <1>2, <1>3, <1>5, <1>6 DEF IdemInv

\* Committing a call with a key stores the first row under it.
LEMMA ExecuteKeyed ==
    ASSUME IdemInv, NEW c \in Calls, NEW result \in Results,
           Execute(c, result), c.key # None
    PROVE  IdemInv'
<1> DEFINE new == [grant |-> Scope(c), call |-> c, result |-> result]
<1>1. responses' = responses \cup {new}
  BY DEF Execute, Stored
<1>2. \A row \in responses : ~(row.grant = Scope(c) /\ row.call.key = c.key)
  BY DEF Execute, Found
<1>3. reply' \in [Calls -> Results \cup {None, Failed}]
  <2>1. CASE reply' = reply
    BY <2>1 DEF IdemInv
  <2>2. CASE reply' = [reply EXCEPT ![c] = result]
    BY <2>2, ReplyType DEF IdemInv
  <2> QED
    BY <2>1, <2>2 DEF Execute
<1>4. performed' = [performed EXCEPT ![c] = @ + 1]
  BY DEF Execute
<1>5. performed' \in [Calls -> Nat]
  BY <1>4 DEF IdemInv
<1>6. new.grant = Scope(c) /\ new.call = c
  OBVIOUS
<1>7. RowsFiled'
  BY <1>1, <1>6 DEF IdemInv, RowsFiled, Scope
<1> HIDE DEF new
<1>8. RowsUnique'
  BY <1>1, <1>2, <1>6 DEF IdemInv, RowsUnique
<1>9. ExecutedOnce'
  <2>1. ASSUME NEW d \in Calls, d.key # None, d # c
        PROVE  performed'[d] = IF \E row \in responses' : row.call = d THEN 1 ELSE 0
    <3>1. performed'[d] = performed[d]
      BY <1>4, <2>1 DEF IdemInv
    <3>2. (\E row \in responses' : row.call = d) <=> (\E row \in responses : row.call = d)
      BY <1>1, <1>6, <2>1
    <3> QED
      BY <3>1, <3>2, <2>1 DEF IdemInv, ExecutedOnce
  <2>2. performed'[c] = 1
    <3>1. ~ \E row \in responses : row.call = c
      BY <1>2 DEF IdemInv, RowsFiled
    <3>2. performed[c] = 0
      BY <3>1 DEF IdemInv, ExecutedOnce
    <3> QED
      BY <3>2, <1>4 DEF IdemInv
  <2>3. \E row \in responses' : row.call = c
    BY <1>1, <1>6
  <2> QED
    BY <2>1, <2>2, <2>3 DEF ExecutedOnce
<1> QED
  BY <1>3, <1>5, <1>7, <1>8, <1>9 DEF IdemInv

-----------------------------------------------------------------------------
\* The table of idempotency keys starts in order.
LEMMA IdemInvInit ==
    IdemInit => IdemInv
BY DEF IdemInit, IdemInv, RowsFiled, RowsUnique, ExecutedOnce

\* Every step of a request, and of the clock, keeps the invariant.
LEMMA IdemInvStep ==
    IdemInv /\ [IdemNext]_idemVars => IdemInv'
<1> SUFFICES ASSUME IdemInv, [IdemNext]_idemVars
             PROVE  IdemInv'
  OBVIOUS
<1>1. CASE LedgerMoves
  BY <1>1, KeepsRows DEF LedgerMoves, IdemInv
<1>2. ASSUME NEW c \in Calls, NEW result \in Results, Execute(c, result)
      PROVE  IdemInv'
  BY <1>2, ExecuteKeyed, ExecuteUnkeyed
<1>3. ASSUME NEW c \in Calls, Replay(c)
      PROVE  IdemInv'
  <2>1. PICK row \in Found(c) : row.call = c /\ reply' = [reply EXCEPT ![c] = row.result]
    BY <1>3 DEF Replay
  <2>2. row.result \in Results
    BY DEF Found, IdemInv, RowsFiled
  <2>3. reply' \in [Calls -> Results \cup {None, Failed}]
    BY <2>1, <2>2, ReplyType DEF IdemInv
  <2> QED
    BY <1>3, <2>3, KeepsRows DEF Replay
<1>4. ASSUME NEW c \in Calls, Conflict(c) \/ Refuse(c)
      PROVE  IdemInv'
  <2>1. reply' = [reply EXCEPT ![c] = Failed]
    BY <1>4 DEF Conflict, Refuse
  <2>2. reply' \in [Calls -> Results \cup {None, Failed}]
    BY <2>1, ReplyType DEF IdemInv
  <2> QED
    BY <1>4, <2>2, KeepsRows DEF Conflict, Refuse
<1>5. CASE UNCHANGED idemVars
  BY <1>5, KeepsRows DEF idemVars, IdemInv
<1> QED
  BY <1>1, <1>2, <1>3, <1>4, <1>5 DEF IdemNext

\* The invariant of the idempotency keys holds throughout.
LEMMA IdemInvHolds ==
    IdemSpec => []IdemInv
<1> QED
  BY IdemInvInit, IdemInvStep, PTL DEF IdemSpec

-----------------------------------------------------------------------------
\* What a call does to the ledger is a step of Budget or nothing.
LEMMA CallsAreBudgetSteps ==
    [IdemNext]_idemVars => [Next]_vars
<1> SUFFICES ASSUME [IdemNext]_idemVars
             PROVE  [Next]_vars
  OBVIOUS
<1>1. CASE LedgerMoves
  BY <1>1 DEF LedgerMoves, Next
<1>2. ASSUME NEW c \in Calls, NEW result \in Results, Execute(c, result)
      PROVE  [Next]_vars
  <2> DEFINE a == result.allocation
  <2>1. c.amount \in Amounts \cup {All}
    BY CallsAssumption
  <2>2. CASE c.op \in {"create_allocation", "create_key_for_grant"}
    <3>1. a \in Allocations /\ CreateAllocation(a, "active", c.amount)
      BY <1>2, <2>2 DEF Execute, Mutate
    <3> QED
      BY <2>1, <3>1 DEF Next, Management, AllocationStatuses
  <2>3. CASE c.op = "create_key"
    BY <1>2, <2>3 DEF Execute, Mutate
  <2>4. CASE c.op = "fund_allocation"
    <3>1. c.target \in Allocations /\ FundAllocation(c.target, c.amount)
      BY <1>2, <2>4, CallsAssumption DEF Execute, Mutate, OnAllocation
    <3> QED
      BY <2>1, <3>1 DEF Next, Management
  <2>5. CASE c.op = "fund_grant"
    <3>1. /\ c.target \in Grants /\ c.amount \in Amounts
          /\ FundGrant(c.target, c.amount)
      BY <1>2, <2>1, <2>5, CallsAssumption DEF Execute, Mutate, OnAllocation
    <3> QED
      BY <3>1 DEF Next, Management
  <2> QED
    BY <2>2, <2>3, <2>4, <2>5, CallsAssumption DEF Operations
<1>3. CASE \E c \in Calls : Replay(c) \/ Conflict(c) \/ Refuse(c)
  BY <1>3 DEF Replay, Conflict, Refuse
<1>4. CASE UNCHANGED idemVars
  BY <1>4 DEF idemVars
<1> QED
  BY <1>1, <1>2, <1>3, <1>4 DEF IdemNext

\* Allocations are never deleted.
LEMMA AllocationsStay ==
    ASSUME TypeOK, [Next]_vars, NEW a \in Allocations, status[a] # "absent"
    PROVE  status'[a] # "absent"
<1> USE DEF TypeOK
<1>1. ASSUME NEW b \in Allocations, NEW s \in AllocationStatuses,
             NEW r \in Amounts \cup {All}, CreateAllocation(b, s, r)
      PROVE  status'[a] # "absent"
  BY <1>1 DEF CreateAllocation
<1>2. ASSUME NEW b \in Allocations, NEW r \in Amounts \cup {All}, FundAllocation(b, r)
      PROVE  status'[a] # "absent"
  BY <1>2 DEF FundAllocation, StatusAfterFunding
<1>3. ASSUME NEW b \in Allocations, NEW s \in AllocationStatuses, SetAllocationStatus(b, s)
      PROVE  status'[a] # "absent"
  BY <1>3 DEF SetAllocationStatus
<1>4. ASSUME NEW b \in Allocations, Revoke(b)
      PROVE  status'[a] # "absent"
  BY <1>4 DEF Revoke
<1>5. ASSUME NEW b \in Allocations, NEW n \in Amounts, Charge(b, n)
      PROVE  status'[a] # "absent"
  BY <1>5 DEF Charge, StatusAfterCharge
<1>6. CASE UNCHANGED status
  BY <1>6
<1> QED
  BY <1>1, <1>2, <1>3, <1>4, <1>5, <1>6
     DEF Next, Management, Usage, CreateGrant, FundGrant, SetGrantStatus,
         allocationVars, vars

\* The grant a stored call is looked up in can always be found again.
RowsScoped == \A row \in responses : ScopeExists(row.call)

\* Every step keeps the scope of a stored call to be found.
LEMMA RowsScopedStep ==
    IdemInv /\ TypeOK /\ RowsScoped /\ [IdemNext]_idemVars => RowsScoped'
<1> SUFFICES ASSUME IdemInv, TypeOK, RowsScoped, [IdemNext]_idemVars
             PROVE  RowsScoped'
  OBVIOUS
<1>1. \A c \in Calls : ScopeExists(c) => ScopeExists(c)'
  BY CallsAreBudgetSteps, AllocationsStay, CallsAssumption DEF ScopeExists
<1>2. \A row \in responses' \ responses : row.call \in Calls /\ ScopeExists(row.call)
  BY DEF IdemNext, idemVars, LedgerMoves, Execute, Stored, Replay, Conflict, Refuse
<1> QED
  BY <1>1, <1>2 DEF IdemInv, RowsFiled, RowsScoped, ScopeExists

\* The scope of a stored call is to be found, throughout.
LEMMA RowsScopedHolds ==
    IdemSpec => []RowsScoped
<1>1. IdemInit => RowsScoped /\ Init
  BY DEF IdemInit, RowsScoped
<1>2. IdemSpec => []TypeOK
  BY <1>1, CallsAreBudgetSteps, TypeCorrect, PTL DEF IdemSpec, Spec
<1> QED
  BY <1>1, <1>2, IdemInvHolds, RowsScopedStep, PTL DEF IdemSpec

-----------------------------------------------------------------------------
\* A call with a key takes effect exactly once if an answer is stored for it
\* and never otherwise, however often it is repeated.
THEOREM CallsExecuteOnce ==
    IdemSpec => []ExecutedOnce
<1>1. IdemInv => ExecutedOnce
  BY DEF IdemInv
<1> QED
  BY <1>1, IdemInvHolds, PTL

\* Of all the calls of a grant and its allocations that carry one key, at most
\* one ever takes effect.
THEOREM KeysNameOneCall ==
    IdemSpec => []OneCallPerKey
<1>1. IdemInv => OneCallPerKey
  <2> SUFFICES ASSUME IdemInv, NEW c \in Calls, NEW d \in Calls,
                      c # d, c.key # None, c.key = d.key, Owner(c) = Owner(d),
                      performed[c] # 0, performed[d] # 0
               PROVE  FALSE
    BY DEF OneCallPerKey
  <2>1. PICK r \in responses : r.call = c
    BY DEF IdemInv, ExecutedOnce
  <2>2. PICK s \in responses : s.call = d
    BY DEF IdemInv, ExecutedOnce
  <2>3. r.grant = s.grant
    BY <2>1, <2>2 DEF IdemInv, RowsFiled, Scope, Owner
  <2> QED
    BY <2>1, <2>2, <2>3 DEF IdemInv, RowsUnique
<1> QED
  BY <1>1, IdemInvHolds, PTL

\* Repeated or not, calls only do to the ledger what Budget allows, so that all
\* its theorems hold of it.
THEOREM IdempotencyImplementsBudget ==
    IdemSpec => Spec
<1>1. IdemInit => Init
  BY DEF IdemInit
<1> QED
  BY <1>1, CallsAreBudgetSteps, PTL DEF IdemSpec, Spec

\* Once a call is committed, every later answer to it is the stored one and
\* none of its repeats takes effect again, whatever else happens.
THEOREM CommittedAnswersStand ==
    IdemSpec => RetriesAgree
<1>1. ASSUME IdemInv, RowsScoped, [IdemNext]_idemVars, NEW row \in responses
      PROVE  /\ reply'[row.call] \in {reply[row.call], row.result}
             /\ reply[row.call] = row.result => reply'[row.call] = row.result
             /\ performed'[row.call] = performed[row.call]
  <2>1. /\ row.call \in Calls /\ row.call.key # None /\ row \in Found(row.call)
        /\ ScopeExists(row.call)
    BY <1>1 DEF IdemInv, RowsFiled, RowsScoped, Found
  <2>2. \A other \in Found(row.call) : other = row
    BY <1>1, <2>1 DEF Found, IdemInv, RowsFiled, RowsUnique
  <2>3. CASE LedgerMoves \/ UNCHANGED idemVars
    BY <2>3 DEF LedgerMoves, idemVars
  <2>4. ASSUME NEW c \in Calls, NEW result \in Results, Execute(c, result)
        PROVE  /\ reply'[row.call] = reply[row.call]
               /\ performed'[row.call] = performed[row.call]
    <3>1. c # row.call
      BY <2>1, <2>4 DEF Execute
    <3> QED
      BY <1>1, <2>1, <2>4, <3>1 DEF Execute, IdemInv
  <2>5. ASSUME NEW c \in Calls, Replay(c)
        PROVE  /\ reply'[row.call] \in {reply[row.call], row.result}
               /\ reply[row.call] = row.result => reply'[row.call] = row.result
               /\ performed'[row.call] = performed[row.call]
    <3>1. PICK found \in Found(c) : reply' = [reply EXCEPT ![c] = found.result]
      BY <2>5 DEF Replay
    <3>2. c = row.call => found.result = row.result
      BY <2>2
    <3> QED
      BY <1>1, <2>1, <2>5, <3>1, <3>2 DEF Replay, IdemInv
  <2>6. ASSUME NEW c \in Calls, Conflict(c) \/ Refuse(c)
        PROVE  /\ reply'[row.call] = reply[row.call]
               /\ performed'[row.call] = performed[row.call]
    <3>1. c # row.call
      BY <2>1, <2>2, <2>6 DEF Conflict, Refuse
    <3> QED
      BY <1>1, <2>1, <2>6, <3>1 DEF Conflict, Refuse, IdemInv
  <2> QED
    BY <1>1, <2>3, <2>4, <2>5, <2>6 DEF IdemNext
<1>2. IdemInv /\ RowsScoped /\ [IdemNext]_idemVars => RetryStep
  BY <1>1 DEF RetryStep
<1> QED
  BY <1>2, IdemInvHolds, RowsScopedHolds, PTL DEF IdemSpec, RetriesAgree
=============================================================================
