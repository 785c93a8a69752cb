---------------------------- MODULE MCPagination ----------------------------
(***************************************************************************)
(* Three redemption logs, two of them of the same signed ticket pair (the  *)
(* same redemption in two forks), and three sessions of two allocations.   *)
(* Pages have one or two items.                                            *)
(***************************************************************************)
EXTENDS Pagination, TLC

CONSTANTS s1, s2, s3, x1, x2, x3, t1, t2, a, b

MCTicketOf == x1 :> t1 @@ x2 :> t1 @@ x3 :> t2
MCAllocationOf == s1 :> a @@ s2 :> a @@ s3 :> b

Symmetry == Permutations({s1, s2}) \cup Permutations({x1, x2})
=============================================================================
