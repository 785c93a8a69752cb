------------------------------ MODULE MCBudget ------------------------------
(***************************************************************************)
(* A dollar grant shared by two allocations, so that units one of them     *)
(* returns can be given to the other while late usage overdraws the first, *)
(* and an ether grant with one: the summaries are kept per currency.       *)
(***************************************************************************)
EXTENDS BudgetMetrics, TLC

CONSTANTS g1, g2, a1, a2, a3

MCGrantOf == a1 :> g1 @@ a2 :> g1 @@ a3 :> g2
MCCurrency == g1 :> "usd" @@ g2 :> "eth"

\* The two allocations that share a grant are interchangeable.
Symmetry == Permutations({a1, a2})
=============================================================================
