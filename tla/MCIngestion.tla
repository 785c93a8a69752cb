---------------------------- MODULE MCIngestion ----------------------------
(***************************************************************************)
(* One funded allocation with an open session, to begin with.  Two tickets *)
(* and a twin that reuses the first one's event id with another fee, a     *)
(* ticket nobody can pay, and a record that is no ticket.  Producers may   *)
(* append each of them anywhere and again, while management pauses,        *)
(* revokes and closes.                                                     *)
(***************************************************************************)
EXTENDS Ingestion, TLC

CONSTANTS g1, a1, s1, b1, unknown, p1, p2

\* No partition is special.
Symmetry == Permutations({p1, p2})

MCGrantOf == a1 :> g1
MCCurrency == g1 :> "usd"
MCSessionAllocation == s1 :> a1
MCSessionBinding == s1 :> b1

Ticket(id, auth, wei, usd) ==
    [kind |-> "ticket", id |-> id, auth |-> auth, binding |-> b1, wei |-> wei, usd |-> usd]

MCRecords ==
    {Ticket("e1", s1, 1, 2), Ticket("e1", s1, 1, 1), Ticket("e2", s1, 2, 1),
     Ticket("e3", unknown, 1, 1),
     [Ticket("e2", unknown, 1, 1) EXCEPT !.kind = "other"]}

-----------------------------------------------------------------------------
(***************************************************************************)
(* The state CreateGrant(g1, "active", 2), CreateAllocation(a1, "active",  *)
(* All) and OpenSession(s1) lead to.                                       *)
(***************************************************************************)
Provisioned ==
    /\ grantStatus = g1 :> "active"
    /\ totalUnits = g1 :> 2
    /\ status = a1 :> "active"
    /\ allocatedUnits = a1 :> 2
    /\ balance = FundingSource(g1) :> -2 @@ Unallocated(g1) :> 0
                   @@ Available(a1) :> 2 @@ Spent(a1) :> 0
    /\ sessions = {s1}

MCInit ==
    /\ Provisioned
    /\ log = [p \in Partitions |-> <<>>]
    /\ logStart = [p \in Partitions |-> 0]
    /\ usage = [p \in Partitions |-> <<>>]
    /\ checkpoint = [p \in Partitions |-> 0]
    /\ running = FALSE
    /\ next = [p \in Partitions |-> 0]
    /\ fetched = [p \in Partitions |-> FALSE]
    /\ crashes = 0

MCSpec == MCInit /\ [][IngestNext]_ingestVars
=============================================================================
