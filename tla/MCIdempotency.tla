---------------------------- MODULE MCIdempotency ----------------------------
(***************************************************************************)
(* One grant and two keys, each used for a call on the grant and for one   *)
(* on an allocation of it; two calls carry "all", one has no key.          *)
(***************************************************************************)
EXTENDS Idempotency, TLC

CONSTANTS g1, a1, a2, k1, k2, x1

MCGrantOf == a1 :> g1 @@ a2 :> g1
MCCurrency == g1 :> "usd"

Call(key, op, target, amount) ==
    [key |-> key, op |-> op, target |-> target, amount |-> amount]

MCCalls == {Call(k1, "create_key_for_grant", g1, 1),
            Call(k1, "fund_allocation", a1, All),
            Call(k2, "fund_grant", g1, 1),
            Call(k2, "create_key", a1, 0),
            Call(None, "create_allocation", g1, All)}
=============================================================================
