----------------------------- MODULE Attribution -----------------------------
(***************************************************************************)
(* Which payment session a redeemed ticket belongs to.  A settlement (from *)
(* the chain) carries a PM session id and a recipient; signed tickets      *)
(* (from Kafka) carry the same pair and the payment session.  The two      *)
(* arrive in any order, in transactions of different workers, and either   *)
(* one calls rematch for the pair (src/internal/store/ingest.go); a reorg  *)
(* orphans a settlement and may bring it back.                             *)
(*                                                                         *)
(* The actions are the attribution part of Store.Ingest for an applied     *)
(* ticket, of applySettlement and of Rewind.                               *)
(***************************************************************************)
EXTENDS Integers, FiniteSets

CONSTANTS
    Sessions,       \* payment session ids
    Settlements,    \* redemption logs: chain, contract, block hash, tx, index
    Tickets,        \* the (pm_session_id, orchestrator or recipient) pairs
    TicketOf,       \* the pair a redemption log carries
    NoSession       \* NULL in settlements.payment_session_id

ASSUME TicketOfAssumption == TicketOf \in [Settlements -> Tickets]
ASSUME SettlementsAssumption == IsFiniteSet(Settlements)
ASSUME NoSessionAssumption == NoSession \notin Sessions

VARIABLES
    signed,         \* signing_authorizations: <<payment session, pair>>
    state,          \* settlements.status, "absent" before the row exists
    match,          \* settlements.match_status
    session,        \* settlements.payment_session_id
    counts          \* metric_counts of kind "settlements", by status and match

attrVars == <<signed, state, match, session, counts>>

States == {"settled", "orphaned"}
Matches == {"matched", "unmatched", "ambiguous"}

-----------------------------------------------------------------------------
(***************************************************************************)
(* rematch                                                                 *)
(***************************************************************************)
\* SELECT DISTINCT payment_session_id for the pair.
Signers(rows, t) == {s \in Sessions : <<s, t>> \in rows}

Attributed(signers) ==
    IF signers = {} THEN "unmatched"
    ELSE IF \E s \in signers : signers = {s} THEN "matched"
    ELSE "ambiguous"

SignerOf(signers) ==
    IF Attributed(signers) = "matched" THEN CHOOSE s \in signers : TRUE ELSE NoSession

\* Mutant of Stale: orphaned settlements are left out.
StaleSettled(t, rows, m, s) ==
    {x \in Settlements : /\ rows[x] = "settled"
                         /\ TicketOf[x] = t
                         /\ match[x] # m \/ session[x] # s}

\* The rows UPDATE changes: those of the pair, whatever their status, that say
\* something else.
Stale(t, rows, m, s) ==
    {x \in Settlements : /\ rows[x] # "absent"
                         /\ TicketOf[x] = t
                         /\ match[x] # m \/ session[x] # s}

\* match and session after the pair's settlements are brought in line with its
\* signers; counts move with the rows whose match changes.  rows is the status
\* of the settlements and k the counts at that point of the transaction.
Rematch(t, signers, rows, k) ==
    LET m == Attributed(signers)
        s == SignerOf(signers)
        changed == Stale(t, rows, m, s)
    IN  /\ match' = [x \in Settlements |-> IF x \in changed THEN m ELSE match[x]]
        /\ session' = [x \in Settlements |-> IF x \in changed THEN s ELSE session[x]]
        /\ counts' = [b \in States \X Matches |->
              LET moved == {x \in changed : rows[x] = b[1] /\ match[x] # m}
              IN  IF b[2] = m THEN k[b] + Cardinality(moved)
                  ELSE k[b] - Cardinality({x \in moved : match[x] = b[2]})]

-----------------------------------------------------------------------------
\* Store.Ingest applies a ticket of session s for pair t.
Sign(s, t) ==
    /\ signed' = signed \cup {<<s, t>>}
    /\ Rematch(t, Signers(signed', t), state, counts)
    /\ UNCHANGED state

\* Mutant of Recount: the old status keeps the row.
RecountAdding(x, next) == [counts EXCEPT ![<<next, match[x]>>] = @ + 1]

\* updateSettlementMetrics: the row leaves its old status, if it has one.
Recount(x, next) ==
    [b \in States \X Matches |->
        IF b = <<next, match[x]>> THEN counts[b] + 1
        ELSE IF b = <<state[x], match[x]>> THEN counts[b] - 1
        ELSE counts[b]]

\* applySettlement: a new redemption log, or an orphaned one that is canonical
\* again.  One that is settled already is left alone.
Settle(x) ==
    LET rows == [state EXCEPT ![x] = "settled"]
    IN  /\ state[x] # "settled"
        /\ state' = rows
        /\ Rematch(TicketOf[x], Signers(signed, TicketOf[x]), rows, Recount(x, "settled"))
        /\ UNCHANGED signed

\* Mutant of Orphan: the attribution is forgotten with the block.
OrphanForgetting(x) ==
    /\ state[x] = "settled"
    /\ state' = [state EXCEPT ![x] = "orphaned"]
    /\ match' = [match EXCEPT ![x] = "unmatched"]
    /\ session' = [session EXCEPT ![x] = NoSession]
    /\ counts' = Recount(x, "orphaned")
    /\ UNCHANGED signed

\* Rewind: the log's block is no longer canonical.  Its attribution is kept.
Orphan(x) ==
    /\ state[x] = "settled"
    /\ state' = [state EXCEPT ![x] = "orphaned"]
    /\ counts' = Recount(x, "orphaned")
    /\ UNCHANGED <<signed, match, session>>

-----------------------------------------------------------------------------
AttrInit ==
    /\ signed = {}
    /\ state = [x \in Settlements |-> "absent"]
    /\ match = [x \in Settlements |-> "unmatched"]
    /\ session = [x \in Settlements |-> NoSession]
    /\ counts = [b \in States \X Matches |-> 0]

AttrNext ==
    \/ \E s \in Sessions, t \in Tickets : Sign(s, t)
    \/ \E x \in Settlements : Settle(x) \/ Orphan(x)

AttrSpec == AttrInit /\ [][AttrNext]_attrVars

-----------------------------------------------------------------------------
(***************************************************************************)
(* Properties                                                              *)
(***************************************************************************)
AttrTypeOK ==
    /\ signed \subseteq Sessions \X Tickets
    /\ state \in [Settlements -> States \cup {"absent"}]
    /\ match \in [Settlements -> Matches]
    /\ session \in [Settlements -> Sessions \cup {NoSession}]
    /\ counts \in [States \X Matches -> Int]

\* Attribution does not depend on who came first: every settlement, orphaned
\* ones too, says exactly what the signed tickets of its pair say now.
AttributionIsCurrent ==
    \A x \in Settlements : state[x] # "absent" =>
        /\ match[x] = Attributed(Signers(signed, TicketOf[x]))
        /\ session[x] = SignerOf(Signers(signed, TicketOf[x]))

\* The counts a scrape reads are those a scan would find, so none is negative.
SettlementCountsMatch ==
    \A b \in States \X Matches :
        counts[b] = Cardinality({x \in Settlements : <<state[x], match[x]>> = b})

\* A settlement whose pair was signed by two sessions stays ambiguous for good:
\* no later ticket, reorg or redelivery attributes it to one of them.
AmbiguityIsFinal ==
    [][\A x \in Settlements :
          state[x] # "absent" /\ match[x] = "ambiguous"
             => match'[x] = "ambiguous" /\ session'[x] = NoSession]_attrVars
=============================================================================
