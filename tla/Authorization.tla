---------------------------- MODULE Authorization ----------------------------
(***************************************************************************)
(* The webhook that lets a signer pay: Store.Authorize                     *)
(* (src/internal/store/auth.go), any number of requests at a time beside   *)
(* management and usage (Budget).                                          *)
(*                                                                         *)
(* A request reads everything in one SELECT without the write lock, makes  *)
(* up its mind later, and only then, if the payment session is new, takes  *)
(* the lock, reads and decides again and inserts the session.  Activity    *)
(* timestamps are touched in a third transaction that may be skipped or    *)
(* fail.  Permissions, balances, sessions and the clock move in between;   *)
(* the request may fail at any point, what it committed stays.             *)
(***************************************************************************)
EXTENDS Budget

CONSTANTS
    Keys,           \* API keys
    KeyAllocation,  \* api_keys.allocation_id, immutable
    Opens, Closes,  \* the time the allocation's and its grant's windows share
    States,         \* signer state ids; a session is known by its state id
    Requests,       \* webhook calls
    RequestOf,      \* what each asks: [key, state, binding, fee, auth]
    Unparsed,       \* a fee that does not parse
    NoAuth,         \* no auth_id in the request
    TouchAge,       \* a minute: older activity timestamps are touched
    MaxNow          \* bound: when the clock stops

ASSUME KeyAllocationAssumption == KeyAllocation \in [Keys -> Allocations]
ASSUME TouchAgeAssumption == TouchAge \in Nat \ {0}
ASSUME RequestsAssumption ==
    \A r \in Requests : /\ RequestOf[r].state \in States
                        /\ RequestOf[r].fee \in Amounts \cup {Unparsed}
ASSUME UnparsedFeeAssumption == Unparsed \notin Amounts

VARIABLES
    apiKeys,    \* api_keys: "absent", "live" or "revoked"
    session,    \* payment_sessions by state id: [status, key, binding]
    seen,       \* payment_sessions.last_seen_at_ms
    used,       \* api_keys.last_used_at_ms, 0 for NULL
    now,        \* the clock
    lagUntil,   \* kafka_lag: when what it says runs out, 0 for unavailable
    pc,         \* requests: how far each has come
    snapshot,   \* requests: the authorizationSnapshot waiting for its decision
    time,       \* requests: the clock of the decision, until the touch
    answer,     \* requests: the reason, "allowed", or "" while there is none
    late        \* history: requests that read a permission already withdrawn

tables == <<apiKeys, session, seen, used>>
requestVars == <<pc, snapshot, time, answer, late>>
authVars == <<vars, tables, now, lagUntil, requestVars>>

-----------------------------------------------------------------------------
NoSession == [status |-> "absent", key |-> NoAuth, binding |-> NoAuth]

NoSnapshot == [key |-> "absent"]

\* readAuthorization: one SELECT over all the tables.
Snapshot(r) ==
    LET q == RequestOf[r]
    IN  IF q.key \notin Keys \/ apiKeys[q.key] = "absent"
          THEN NoSnapshot
          ELSE LET a == KeyAllocation[q.key]
               IN  [key        |-> apiKeys[q.key],
                    grant      |-> grantStatus[GrantOf[a]],
                    allocation |-> status[a],
                    balance    |-> balance[Available(a)],
                    session    |-> session[q.state],
                    seen       |-> seen[q.state],
                    used       |-> used[q.key],
                    lagUntil   |-> lagUntil]

InWindow(k, t) == Opens[KeyAllocation[k]] <= t /\ t < Closes[KeyAllocation[k]]

\* Mutants of SessionRefuses: the binding is not compared; the status is not.
SessionRefusesRevoked(q, s) == s.status = "revoked"

SessionRefusesBinding(q, s) ==
    s.status # "absent" /\ (s.key # q.key \/ s.binding # q.binding)

SessionRefuses(q, s) ==
    IF s.status = "absent" THEN FALSE
    ELSE \/ s.key # q.key
         \/ s.binding # q.binding
         \/ s.status # "active"
         \/ q.auth \notin {NoAuth, q.state}

\* authorizationSnapshot.decide
Decision(r, s, t) ==
    LET q == RequestOf[r]
    IN  IF s.key # "live" THEN "invalid API key"
        ELSE IF \/ s.grant # "active"
                \/ s.allocation \notin {"active", "exhausted"}
                \/ ~InWindow(q.key, t)
          THEN "grant or allocation is inactive"
        ELSE IF s.allocation = "exhausted" \/ s.balance <= 0 THEN "allocation exhausted"
        ELSE IF q.fee = Unparsed THEN "invalid payment fee"
        ELSE IF s.balance < q.fee THEN "insufficient allocation balance"
        ELSE IF s.session.status = "absent" /\ q.auth # NoAuth THEN "unknown auth_id"
        ELSE IF SessionRefuses(q, s.session)
          THEN "session is revoked or binding does not match"
        ELSE IF t >= s.lagUntil THEN "kafka lag"
        ELSE "allowed"

\* Activity a touch would bring up to date.
Untouched(s, t) == s.seen <= t - TouchAge \/ s.used <= t - TouchAge

-----------------------------------------------------------------------------
(***************************************************************************)
(* A request                                                               *)
(***************************************************************************)
\* The permission it asks for is withdrawn for good.
Withdrawn(s) ==
    \/ s.key = "revoked"
    \/ s.key = "live" /\ (\/ s.grant = "closed"
                          \/ s.allocation = "revoked"
                          \/ s.session.status = "revoked")

Read(r) ==
    /\ pc[r] = "new"
    /\ snapshot' = [snapshot EXCEPT ![r] = Snapshot(r)]
    /\ late' = IF Withdrawn(Snapshot(r)) THEN late \cup {r} ELSE late
    /\ pc' = [pc EXCEPT ![r] = "decide"]
    /\ UNCHANGED <<vars, tables, now, lagUntil, time, answer>>

\* The request ends with d on snapshot s, by way of a touch if one is due.
Finish(r, d, s) ==
    LET touch == d = "allowed" /\ Untouched(s, now)
    IN  /\ answer' = [answer EXCEPT ![r] = d]
        /\ pc' = [pc EXCEPT ![r] = IF touch THEN "touch" ELSE "done"]
        /\ time' = [time EXCEPT ![r] = IF touch THEN now ELSE 0]

Decide(r) ==
    LET s == snapshot[r]
        d == Decision(r, s, now)
    IN  /\ pc[r] = "decide"
        /\ snapshot' = [snapshot EXCEPT ![r] = NoSnapshot]
        /\ IF d = "allowed" /\ s.session.status = "absent"
             THEN pc' = [pc EXCEPT ![r] = "create"] /\ UNCHANGED <<answer, time>>
             ELSE Finish(r, d, s)
        /\ UNCHANGED <<vars, tables, now, lagUntil, late>>

\* Mutant of CreateSession: what the lock-free read allowed is not decided again.
CreateSessionUnchecked(r) ==
    LET q == RequestOf[r]
    IN  /\ pc[r] = "create"
        /\ session[q.state].status = "absent"
        /\ session' = [session EXCEPT ![q.state] =
              [status |-> "active", key |-> q.key, binding |-> q.binding]]
        /\ seen' = [seen EXCEPT ![q.state] = now]
        /\ used' = [used EXCEPT ![q.key] = now]
        /\ answer' = [answer EXCEPT ![r] = "allowed"]
        /\ pc' = [pc EXCEPT ![r] = "done"]
        /\ UNCHANGED <<vars, apiKeys, now, lagUntil, snapshot, time, late>>

\* Under the write lock: everything is read and decided once more.
CreateSession(r) ==
    LET q == RequestOf[r]
        s == Snapshot(r)
        d == Decision(r, s, now)
    IN  /\ pc[r] = "create"
        /\ IF d = "allowed" /\ s.session.status = "absent"
             THEN /\ session' = [session EXCEPT ![q.state] =
                        [status |-> "active", key |-> q.key, binding |-> q.binding]]
                  /\ seen' = [seen EXCEPT ![q.state] = now]
                  /\ used' = [used EXCEPT ![q.key] = now]
                  /\ answer' = [answer EXCEPT ![r] = d]
                  /\ pc' = [pc EXCEPT ![r] = "done"]
                  /\ UNCHANGED time
             ELSE Finish(r, d, s) /\ UNCHANGED <<session, seen, used>>
        /\ late' = IF Withdrawn(s) THEN late \cup {r} ELSE late
        /\ UNCHANGED <<vars, apiKeys, now, lagUntil, snapshot>>

\* Mutant of Touch: the timestamps are overwritten.
TouchAlways(r) ==
    /\ pc[r] = "touch"
    /\ seen' = [seen EXCEPT ![RequestOf[r].state] = time[r]]
    /\ used' = [used EXCEPT ![RequestOf[r].key] = time[r]]
    /\ pc' = [pc EXCEPT ![r] = "done"]
    /\ time' = [time EXCEPT ![r] = 0]
    /\ UNCHANGED <<vars, apiKeys, session, now, lagUntil, snapshot, answer, late>>

\* touchAuthorization, with the time of the decision: a competing request may
\* have touched them meanwhile.
Touch(r) ==
    LET q == RequestOf[r]
        cutoff == time[r] - TouchAge
    IN  /\ pc[r] = "touch"
        /\ seen' = [seen EXCEPT ![q.state] = IF @ <= cutoff THEN time[r] ELSE @]
        /\ used' = [used EXCEPT ![q.key] = IF @ <= cutoff THEN time[r] ELSE @]
        /\ pc' = [pc EXCEPT ![r] = "done"]
        /\ time' = [time EXCEPT ![r] = 0]
        /\ UNCHANGED <<vars, apiKeys, session, now, lagUntil, snapshot, answer, late>>

\* The database or the connection fails: an error, unless it was the touch.
Fail(r) ==
    /\ pc[r] \in {"new", "decide", "create", "touch"}
    /\ pc' = [pc EXCEPT ![r] = "done"]
    /\ answer' = [answer EXCEPT ![r] = IF pc[r] = "touch" THEN @ ELSE "error"]
    /\ snapshot' = [snapshot EXCEPT ![r] = NoSnapshot]
    /\ time' = [time EXCEPT ![r] = 0]
    /\ UNCHANGED <<vars, tables, now, lagUntil, late>>

-----------------------------------------------------------------------------
(***************************************************************************)
(* Keys and sessions; the surroundings                                     *)
(***************************************************************************)
CreateKey(k) ==
    /\ apiKeys[k] = "absent"
    /\ status[KeyAllocation[k]] \in AllocationStatuses \ {"revoked"}
    /\ apiKeys' = [apiKeys EXCEPT ![k] = "live"]
    /\ UNCHANGED <<vars, session, seen, used, now, lagUntil, requestVars>>

RevokeKey(k) ==
    /\ apiKeys[k] # "absent"
    /\ apiKeys' = [apiKeys EXCEPT ![k] = "revoked"]
    /\ UNCHANGED <<vars, session, seen, used, now, lagUntil, requestVars>>

RevokeSession(s) ==
    /\ session[s].status # "absent"
    /\ session' = [session EXCEPT ![s].status = "revoked"]
    /\ UNCHANGED <<vars, apiKeys, seen, used, now, lagUntil, requestVars>>

\* Management of budgets, and usage of allocations that have sessions.
Spend ==
    /\ \/ Management
       \/ \E s \in States, n \in Amounts :
             session[s].key \in Keys /\ Charge(KeyAllocation[session[s].key], n)
    /\ UNCHANGED <<tables, now, lagUntil, requestVars>>

\* The monitor (KafkaLag) publishes evidence, or that it has none.
PublishLag ==
    /\ lagUntil' \in {0, now + 1}
    /\ UNCHANGED <<vars, tables, now, requestVars>>

Tick ==
    /\ now < MaxNow
    /\ now' = now + 1
    /\ UNCHANGED <<vars, tables, lagUntil, requestVars>>

-----------------------------------------------------------------------------
RequestInit ==
    /\ now = 1
    /\ lagUntil = 0
    /\ pc = [r \in Requests |-> "new"]
    /\ snapshot = [r \in Requests |-> NoSnapshot]
    /\ time = [r \in Requests |-> 0]
    /\ answer = [r \in Requests |-> ""]
    /\ late = {}

AuthInit ==
    /\ Init
    /\ apiKeys = [k \in Keys |-> "absent"]
    /\ session = [s \in States |-> NoSession]
    /\ seen = [s \in States |-> 0]
    /\ used = [k \in Keys |-> 0]
    /\ RequestInit

AuthNext ==
    \/ \E r \in Requests : Read(r) \/ Decide(r) \/ CreateSession(r) \/ Touch(r) \/ Fail(r)
    \/ \E k \in Keys : CreateKey(k) \/ RevokeKey(k)
    \/ \E s \in States : RevokeSession(s)
    \/ Spend
    \/ PublishLag
    \/ Tick

AuthSpec == AuthInit /\ [][AuthNext]_authVars

-----------------------------------------------------------------------------
(***************************************************************************)
(* Properties                                                              *)
(***************************************************************************)
\* A session is only ever opened for a key that is live, on a grant and an
\* allocation that are active and can pay, in their time, and with accounting
\* up to date, all at the moment it is opened, whatever an earlier read said.
Permitted(r) ==
    LET q == RequestOf[r]
        a == KeyAllocation[q.key]
    IN  /\ apiKeys[q.key] = "live"
        /\ grantStatus[GrantOf[a]] = "active" /\ status[a] = "active"
        /\ q.fee \in Amounts /\ balance[Available(a)] >= q.fee
        /\ balance[Available(a)] > 0
        /\ InWindow(q.key, now)
        /\ now < lagUntil

OpensPermitted ==
    \A s \in States :
        session[s].status = "absent" /\ session'[s].status # "absent"
            => \E r \in Requests : /\ RequestOf[r].state = s
                                   /\ RequestOf[r].key = session'[s].key
                                   /\ Permitted(r)

\* No session is opened without permission (authorizationSnapshot.decide, run again).
OpenedWhenPermitted == [][OpensPermitted]_authVars

\* Every request that was allowed got the session of its state id, and that
\* session still is what the request asked for: competing requests for one state
\* id share a session or one is refused, and no session changes hands.
AllowedMatchSession ==
    \A r \in Requests : answer[r] = "allowed" =>
        LET q == RequestOf[r]
        IN  /\ session[q.state].status # "absent"
            /\ session[q.state].key = q.key
            /\ session[q.state].binding = q.binding
            /\ q.auth \in {NoAuth, q.state}

\* What is withdrawn stays withdrawn: a request that reads a revoked key, session
\* or allocation or a closed grant is never allowed, in any of its transactions.
WithdrawnIsDenied == \A r \in late : answer[r] # "allowed"

\* Activity timestamps only move forward, though late requests touch them with
\* the time they decided at.
ActivityForward ==
    /\ \A s \in States : seen'[s] >= seen[s]
    /\ \A k \in Keys : used'[k] >= used[k]

\* last_seen_at_ms and last_used_at_ms never go back.
ActivityMovesForward == [][ActivityForward]_authVars
=============================================================================
