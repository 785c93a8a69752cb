------------------------ MODULE MCAuthorizationOpen ------------------------
(***************************************************************************)
(* An open session, used by two requests with the same key while the       *)
(* minutes pass: each may decide in one, and touch in another.             *)
(***************************************************************************)
EXTENDS Authorization, TLC

CONSTANTS g1, a1, k1, s1, b1, r1, r2

MCGrantOf == a1 :> g1
MCCurrency == g1 :> "eth"
MCKeyAllocation == k1 :> a1
MCOpens == a1 :> 1
MCCloses == a1 :> 3

Request(auth) == [key |-> k1, state |-> s1, binding |-> b1, fee |-> 1, auth |-> auth]
MCRequestOf == r1 :> Request(NoAuth) @@ r2 :> Request(s1)

\* The state CreateGrant(g1, "active", 1), CreateAllocation(a1, "active", All),
\* CreateKey(k1) and a first request a minute ago lead to.
OpenInit ==
    /\ grantStatus = g1 :> "active"
    /\ totalUnits = g1 :> 1
    /\ status = a1 :> "active"
    /\ allocatedUnits = a1 :> 1
    /\ balance = FundingSource(g1) :> -1 @@ Unallocated(g1) :> 0
                   @@ Available(a1) :> 1 @@ Spent(a1) :> 0
    /\ apiKeys = k1 :> "live"
    /\ session = s1 :> [status |-> "active", key |-> k1, binding |-> b1]
    /\ seen = s1 :> 0
    /\ used = k1 :> 0
    /\ RequestInit

OpenSpec == OpenInit /\ [][AuthNext]_authVars
=============================================================================
