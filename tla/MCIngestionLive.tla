-------------------------- MODULE MCIngestionLive --------------------------
(***************************************************************************)
(* From an empty database: a ticket and a malformed record, two            *)
(* partitions, and a worker that goes down now and then.                   *)
(***************************************************************************)
EXTENDS Ingestion, TLC

CONSTANTS g1, a1, s1, b1

MCGrantOf == a1 :> g1
MCCurrency == g1 :> "eth"
MCSessionAllocation == s1 :> a1
MCSessionBinding == s1 :> b1

Ticket == [kind |-> "ticket", id |-> "e1", auth |-> s1, binding |-> b1,
           wei |-> 1, usd |-> Missing]

MCRecords == {Ticket, [Ticket EXCEPT !.kind = "malformed"]}
=============================================================================
