--------------------------- MODULE MCAuthorization ---------------------------
(***************************************************************************)
(* From an empty database: one allocation with two keys, and a request     *)
(* with each of them for the session of the same state.  The windows open  *)
(* and close while they run.                                               *)
(***************************************************************************)
EXTENDS Authorization, TLC

CONSTANTS g1, a1, k1, k2, s1, b1, r1, r2

MCGrantOf == a1 :> g1
MCCurrency == g1 :> "usd"
MCKeyAllocation == k1 :> a1 @@ k2 :> a1
MCOpens == a1 :> 1
MCCloses == a1 :> 3

Request(key, auth) == [key |-> key, state |-> s1, binding |-> b1, fee |-> 1, auth |-> auth]
MCRequestOf == r1 :> Request(k1, NoAuth) @@ r2 :> Request(k2, NoAuth)
=============================================================================
