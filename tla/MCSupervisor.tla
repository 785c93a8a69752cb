---------------------------- MODULE MCSupervisor ----------------------------
(***************************************************************************)
(* Two processes that both want to do the accounting, one with the webhook *)
(* and one with the chain listener, three starts, and releases that know   *)
(* one migration or three.                                                 *)
(***************************************************************************)
EXTENDS Supervisor, TLC

CONSTANTS p, q, web, ingest, lag, onchain, accountingLock, chainLock

MCConfig == p :> {web, ingest, lag} @@ q :> {lag, onchain}
MCLockOrder == <<accountingLock, chainLock>>
MCLockOf == web :> NoLock @@ ingest :> accountingLock @@ lag :> accountingLock @@ onchain :> chainLock
=============================================================================
