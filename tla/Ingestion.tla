------------------------------ MODULE Ingestion ------------------------------
(***************************************************************************)
(* The accounting worker: it reads each partition of the signing topic     *)
(* from the offset checkpointed in the database and commits, per record    *)
(* and in one transaction, an audit row, the charge and the next offset    *)
(* (Listener.Run in src/internal/kafka/listener.go, Store.Ingest in        *)
(* src/internal/store/ingest.go).                                          *)
(*                                                                         *)
(* The process can die at any point; the offset in its memory and the      *)
(* record in its hands die with it, the database does not.  Management     *)
(* runs all the while (Budget).  What an applied ticket does to the        *)
(* attribution of settlements, in the same transaction, is the subject of  *)
(* Attribution.                                                            *)
(***************************************************************************)
EXTENDS Budget, Sequences, Functions

CONSTANTS
    Partitions,         \* the topic's partitions, discovered when the worker starts
    Records,            \* raw payloads producers may append
    Sessions,           \* payment session ids
    SessionAllocation,  \* payment_sessions.allocation_id, immutable
    SessionBinding,     \* its state_id, app, payment_type and orchestrator, immutable
    Invalid,            \* a fee, count, hash or time that does not validate
    Missing,            \* computed_fee_usd left out
    MaxLog,             \* bound: records ever appended to the topic
    MaxCrashes          \* bound: crashes and stops of the worker

(***************************************************************************)
(* A record is what Ingest can tell apart in a payload:                    *)
(*   kind     "malformed" (no envelope, id, type or data), "other" (not a  *)
(*            signed ticket), "bad_data" (a ticket that does not decode)   *)
(*            or "ticket"                                                  *)
(*   id       the event id                                                 *)
(*   auth     the session it names                                         *)
(*   binding  the state, app, type and orchestrator it repeats             *)
(*   wei      its fee in wei; Invalid also stands for a bad ticket count,  *)
(*            request, timestamp or PM session                             *)
(*   usd      its fee in dollars                                           *)
(***************************************************************************)
ASSUME RecordsAssumption ==
    \A r \in Records :
        /\ r.kind \in {"malformed", "other", "bad_data", "ticket"}
        /\ r.kind = "ticket" => /\ r.wei \in Amounts \cup {Invalid}
                                /\ r.usd \in Amounts \cup {Invalid, Missing}
ASSUME FeesAssumption == Invalid \notin Amounts /\ Missing \notin Amounts /\ Invalid # Missing
ASSUME SessionsAssumption == SessionAllocation \in [Sessions -> Allocations]

VARIABLES
    log,            \* Kafka: the records of each partition, in offset order
    logStart,       \* Kafka: the first offset still retained
    sessions,       \* payment_sessions: the rows there are
    usage,          \* usage_events, by partition and offset
    checkpoint,     \* ingestion_checkpoints: next_position
    running,        \* worker: between Run's checks and its return
    next,           \* worker memory: the offset readPartition expects
    fetched,        \* worker memory: a record is read and not yet ingested
    crashes         \* how often the worker has gone down

kafkaVars == <<log, logStart>>
workerVars == <<running, next, fetched, crashes>>
ingestVars == <<vars, kafkaVars, sessions, usage, checkpoint, workerVars>>

-----------------------------------------------------------------------------
(***************************************************************************)
(* How a record is classified.  The checks are made in this order and the  *)
(* first that fails decides.                                               *)
(***************************************************************************)
Quarantines == {"envelope", "conflicting_id", "ticket_data", "unknown_session",
                "session_binding", "invalid_ticket", "missing_usd_fee"}
Outcomes == {"applied", "duplicate", "ignored"} \cup Quarantines

\* usage_events, without the columns nothing here reads.
UsageRow == [record : Records, outcome : Outcomes]

Rows == UNION {{usage[p][i] : i \in DOMAIN usage[p]} : p \in Partitions}

\* usage_events.event_id is set except on these outcomes.
HoldsId(row) == row.outcome \notin {"envelope", "duplicate", "conflicting_id"}

Holders(id) == {row \in Rows : HoldsId(row) /\ row.record.id = id}

\* An invalid fee in either currency fails the ticket; the allocation's
\* currency says which one is charged.
FeeInvalid(r) == r.wei = Invalid \/ r.usd = Invalid

FeeIn(r, currency) == IF currency = "usd" THEN r.usd ELSE r.wei

SessionCurrency(s) == CurrencyOf(SessionAllocation[s])

\* Mutant of TicketOutcome: a ticket is refused once its allocation is no longer active.
TicketOutcomeWhileActive(r) ==
    IF r.auth \notin sessions THEN "unknown_session"
    ELSE IF status[SessionAllocation[r.auth]] = "active" THEN "applied"
    ELSE "invalid_ticket"

TicketOutcome(r) ==
    IF r.auth \notin sessions THEN "unknown_session"
    ELSE IF r.binding # SessionBinding[r.auth] THEN "session_binding"
    ELSE IF FeeInvalid(r) THEN "invalid_ticket"
    ELSE IF FeeIn(r, SessionCurrency(r.auth)) = Missing THEN "missing_usd_fee"
    ELSE "applied"

\* Mutant of Outcome: an event id used by another payload is not noticed.
OutcomeByPayload(r) ==
    IF r.kind = "malformed" THEN "envelope"
    ELSE IF \E row \in Holders(r.id) : row.record = r THEN "duplicate"
    ELSE IF r.kind = "other" THEN "ignored"
    ELSE TicketOutcome(r)

Outcome(r) ==
    IF r.kind = "malformed" THEN "envelope"
    ELSE IF \E row \in Holders(r.id) : row.record = r THEN "duplicate"
    ELSE IF Holders(r.id) # {} THEN "conflicting_id"
    ELSE IF r.kind = "other" THEN "ignored"
    ELSE IF r.kind = "bad_data" THEN "ticket_data"
    ELSE TicketOutcome(r)

-----------------------------------------------------------------------------
(***************************************************************************)
(* The worker                                                              *)
(***************************************************************************)
\* Mutant of Retained: the end of the log is taken for an offset that was lost.
RetainedBeforeEnd(p) == checkpoint[p] \in logStart[p] .. Len(log[p]) - 1

\* The checkpoint is a retained offset or the end of the log.
Retained(p) == checkpoint[p] \in logStart[p] .. Len(log[p])

\* Every partition's checkpoint is validated before any reader starts.
Start ==
    /\ ~running
    /\ \A p \in Partitions : Retained(p)
    /\ running' = TRUE
    /\ next' = checkpoint
    /\ UNCHANGED <<vars, kafkaVars, sessions, usage, checkpoint, fetched, crashes>>

\* Mutant of Fetch: the offset is committed when the record is read.
FetchCommitting(p) ==
    /\ running
    /\ ~fetched[p]
    /\ next[p] \in logStart[p] .. Len(log[p]) - 1
    /\ fetched' = [fetched EXCEPT ![p] = TRUE]
    /\ checkpoint' = [checkpoint EXCEPT ![p] = next[p] + 1]
    /\ UNCHANGED <<vars, kafkaVars, sessions, usage, running, next, crashes>>

Fetch(p) ==
    /\ running
    /\ ~fetched[p]
    /\ next[p] \in logStart[p] .. Len(log[p]) - 1
    /\ fetched' = [fetched EXCEPT ![p] = TRUE]
    /\ UNCHANGED <<vars, kafkaVars, sessions, usage, checkpoint, running, next, crashes>>

\* What is forgotten when the process goes down.
Down ==
    /\ running' = FALSE
    /\ fetched' = [p \in Partitions |-> FALSE]
    /\ next' = [p \in Partitions |-> 0]
    /\ crashes' = crashes + 1
    /\ UNCHANGED <<vars, kafkaVars, sessions, usage, checkpoint>>

\* The offset was truncated away while the worker ran: the reader fails, and
\* its error stops every partition.
OutOfRange(p) ==
    /\ running
    /\ ~fetched[p]
    /\ next[p] < logStart[p]
    /\ Down

Crash ==
    /\ running
    /\ crashes < MaxCrashes
    /\ Down

\* Store.Ingest: one transaction.  Any other offset than the checkpoint is
\* an old one, accepted without effect, or a gap, which stops the worker.
Ingest(p) ==
    LET r == log[p][next[p] + 1]
        o == Outcome(r)
    IN  /\ running
        /\ fetched[p]
        /\ next[p] = checkpoint[p]
        /\ usage' = [usage EXCEPT ![p] = Append(@, [record |-> r, outcome |-> o])]
        /\ checkpoint' = [checkpoint EXCEPT ![p] = next[p] + 1]
        /\ IF o = "applied"
             THEN Charge(SessionAllocation[r.auth], FeeIn(r, SessionCurrency(r.auth)))
             ELSE UNCHANGED vars
        /\ next' = [next EXCEPT ![p] = @ + 1]
        /\ fetched' = [fetched EXCEPT ![p] = FALSE]
        /\ UNCHANGED <<kafkaVars, sessions, running, crashes>>

-----------------------------------------------------------------------------
(***************************************************************************)
(* The worker's surroundings                                               *)
(***************************************************************************)
\* A signer emits a ticket only for a session an authorization returned; any
\* other record may appear at any time, and any record may appear again.
Produce(p, r) ==
    /\ SumFunction([q \in Partitions |-> Len(log[q])]) < MaxLog
    /\ r.kind = "ticket" /\ r.auth \in Sessions => r.auth \in sessions
    /\ log' = [log EXCEPT ![p] = Append(@, r)]
    /\ UNCHANGED <<vars, logStart, sessions, usage, checkpoint, workerVars>>

\* The broker drops records by retention, read or not.
Truncate(p) ==
    /\ logStart[p] < Len(log[p])
    /\ logStart' = [logStart EXCEPT ![p] = @ + 1]
    /\ UNCHANGED <<vars, log, sessions, usage, checkpoint, workerVars>>

\* An authorization opens a session on an allocation that can pay.
OpenSession(s) ==
    LET a == SessionAllocation[s]
    IN  /\ s \notin sessions
        /\ status[a] = "active"
        /\ grantStatus[GrantOf[a]] = "active"
        /\ balance[Available(a)] > 0
        /\ sessions' = sessions \cup {s}
        /\ UNCHANGED <<vars, kafkaVars, usage, checkpoint, workerVars>>

Manage ==
    /\ Management
    /\ UNCHANGED <<kafkaVars, sessions, usage, checkpoint, workerVars>>

-----------------------------------------------------------------------------
IngestInit ==
    /\ Init
    /\ log = [p \in Partitions |-> <<>>]
    /\ logStart = [p \in Partitions |-> 0]
    /\ sessions = {}
    /\ usage = [p \in Partitions |-> <<>>]
    /\ checkpoint = [p \in Partitions |-> 0]
    /\ running = FALSE
    /\ next = [p \in Partitions |-> 0]
    /\ fetched = [p \in Partitions |-> FALSE]
    /\ crashes = 0

IngestNext ==
    \/ Manage
    \/ Start
    \/ Crash
    \/ \E s \in Sessions : OpenSession(s)
    \/ \E p \in Partitions :
          \/ Fetch(p)
          \/ OutOfRange(p)
          \/ Ingest(p)
          \/ Truncate(p)
          \/ \E r \in Records : Produce(p, r)

IngestSpec == IngestInit /\ [][IngestNext]_ingestVars

\* The process is restarted when it goes down and its readers run: each of its
\* own steps is taken if it stays possible.
Fairness ==
    /\ WF_ingestVars(Start)
    /\ \A p \in Partitions : WF_ingestVars(Fetch(p)) /\ WF_ingestVars(Ingest(p))

FairIngestSpec == IngestSpec /\ Fairness

-----------------------------------------------------------------------------
(***************************************************************************)
(* Properties                                                              *)
(***************************************************************************)
\* Every variable has its type, and a running worker's offset is the
\* checkpoint of the database.
IngestTypeOK ==
    /\ log \in [Partitions -> Seq(Records)]
    /\ logStart \in [Partitions -> Nat]
    /\ sessions \subseteq Sessions
    /\ usage \in [Partitions -> Seq(UsageRow)]
    /\ checkpoint \in [Partitions -> Nat]
    /\ running \in BOOLEAN
    /\ next \in [Partitions -> Nat]
    /\ fetched \in [Partitions -> BOOLEAN]
    /\ crashes \in Nat

\* Whatever was crashed, truncated or redelivered, the audit trail is exactly
\* the consumed prefix of the log: no record is skipped, none is counted at two
\* offsets, and the checkpoint is the number of rows committed.
AuditIsConsumedLog ==
    \A p \in Partitions :
        /\ checkpoint[p] = Len(usage[p])
        /\ checkpoint[p] <= Len(log[p])
        /\ \A i \in 1 .. checkpoint[p] : usage[p][i].record = log[p][i]

\* A record that could have been charged when its session was authorized.
Genuine(r) ==
    /\ r.kind = "ticket"
    /\ r.auth \in Sessions
    /\ r.binding = SessionBinding[r.auth]
    /\ ~FeeInvalid(r)
    /\ FeeIn(r, SessionCurrency(r.auth)) # Missing

\* A signed ticket is never lost: once consumed it has been charged, at this or
\* at an earlier delivery, unless another payload used its event id first; and
\* this is so whatever became of the allocation meanwhile.
GenuineTicketsCharged ==
    \A p \in Partitions : \A i \in DOMAIN usage[p] :
        LET r == usage[p][i].record
        IN  Genuine(r) =>
              /\ Holders(r.id) # {}
              /\ \A row \in Holders(r.id) : row.record = r => row.outcome = "applied"

\* The charges made, as ChargeOnce sees them.
BillOf(r) == [event |-> r.id,
              payer |-> SessionAllocation[r.auth],
              units |-> FeeIn(r, SessionCurrency(r.auth))]

Bills == {BillOf(row.record) : row \in {x \in Rows : x.outcome = "applied"}}

Charged == INSTANCE ChargeOnce
              WITH EventIds <- {r.id : r \in Records},
                   Payers <- Allocations,
                   Units <- Amounts,
                   bills <- Bills,
                   spent <- [a \in Allocations |-> balance[Spent(a)]]

\* The worker implements ChargeOnce: every charge is the first of its event,
\* and nothing but a charge moves what is spent.
ChargesOnce == Charged!Spec

\* As long as the broker keeps what the worker has not read, every record is
\* eventually consumed, across crashes.
EverythingConsumed ==
    \A p \in Partitions : \A n \in 1 .. MaxLog :
        [](\A q \in Partitions : logStart[q] <= checkpoint[q])
            => (Len(log[p]) >= n ~> checkpoint[p] >= n)
=============================================================================
