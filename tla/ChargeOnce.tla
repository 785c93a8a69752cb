----------------------------- MODULE ChargeOnce -----------------------------
(***************************************************************************)
(* What accounting promises: an event that is charged is charged once,     *)
(* for one amount, to one allocation, and nothing else is ever spent.      *)
(* Ingestion implements it over a Kafka topic that redelivers, producers   *)
(* that repeat themselves and a process that can die anywhere.             *)
(***************************************************************************)
EXTENDS Integers, FiniteSetsExt

CONSTANTS
    EventIds,       \* ids of usage events
    Payers,         \* who is charged
    Units           \* amounts an event can cost

VARIABLES
    bills,          \* the charges made: [event, payer, units]
    spent           \* what each payer has been charged in all

chargeVars == <<bills, spent>>

Init ==
    /\ bills = {}
    /\ spent = [a \in Payers |-> 0]

Bill(e, a, n) ==
    /\ \A b \in bills : b.event # e
    /\ bills' = bills \cup {[event |-> e, payer |-> a, units |-> n]}
    /\ spent' = [spent EXCEPT ![a] = @ + n]

Next == \E e \in EventIds, a \in Payers, n \in Units : Bill(e, a, n)

Spec == Init /\ [][Next]_chargeVars
=============================================================================
