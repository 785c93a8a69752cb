---------------------------- MODULE BudgetMetrics ----------------------------
(***************************************************************************)
(* The metric summaries kept beside the budget.  A metrics scrape never    *)
(* scans the grants and allocations: it reads metric_counts,               *)
(* metric_amounts and metric_balances, which every transaction that moves  *)
(* a balance or a status adjusts by the difference it makes.  A summary    *)
(* that drifts is wrong for ever, and a decrement of a count that is not   *)
(* there rolls back the operation that tried it.                           *)
(*                                                                         *)
(* Each action is an action of Budget in the same transaction as the       *)
(* summary updates the code makes for it.                                  *)
(*                                                                         *)
(* The summaries came with migration 003, on databases that had been in    *)
(* use: an earlier release makes Budget's changes alone, and the migration *)
(* computes the summaries that the program only adjusts afterwards.  It    *)
(* can be undone, which drops them.                                        *)
(***************************************************************************)
EXTENDS Budget, FiniteSetsExt, Functions

VARIABLES
    counts,     \* metric_counts.value by <<kind, label1, label2>>
    amounts,    \* metric_amounts.amount_units by <<name, currency>>
    overdrawn,  \* metric_balances of type allocation_available: balance_units of the rows
    migrated    \* migration 003 is applied

metricVars == <<counts, amounts, overdrawn, migrated>>
allVars == <<vars, metricVars>>

CountKeys == ({"grants"} \X Currencies \X GrantStatuses)
               \cup ({"allocations"} \X Currencies \X AllocationStatuses)
               \cup ({"allocations_overdrawn"} \X Currencies \X {""})

AmountNames == {"grant_unallocated", "allocation_available", "allocation_spent",
                "allocation_overdraw"}

ASSUME FiniteTables == IsFiniteSet(Grants) /\ IsFiniteSet(Allocations)

-----------------------------------------------------------------------------
\* A row moves from one status to the other; a new row has no old status.
Inventory(kind, c, old, next) ==
    [counts EXCEPT
        ![<<kind, c, next>>] = IF old = next THEN @ ELSE @ + 1,
        ![<<kind, c, old>>]  = IF old = next THEN @ ELSE @ - 1]

NewInventory(kind, c, next) == [counts EXCEPT ![<<kind, c, next>>] = @ + 1]

Overdraw(n) == IF n < 0 THEN -n ELSE 0
BoolCount(b) == IF b THEN 1 ELSE 0

\* The pool of grant g moves by its delta.
PoolDelta(g, delta) == [amounts EXCEPT ![<<"grant_unallocated", Currency[g]>>] = @ + delta]

\* The available balance of a goes from old to new: its amount, its share of
\* the total debt, and its row in or out of the overdrawn set.
AvailableAmounts(m, a, old, new) ==
    [m EXCEPT ![<<"allocation_available", CurrencyOf(a)>>] = @ + (new - old),
              ![<<"allocation_overdraw", CurrencyOf(a)>>] = @ + (Overdraw(new) - Overdraw(old))]

\* Mutant of OverdrawnCount: a balance of zero is counted as a debt.
OverdrawnCountAtZero(k, a, old, new) ==
    [k EXCEPT ![<<"allocations_overdrawn", CurrencyOf(a), "">>] =
                  @ + (BoolCount(new <= 0) - BoolCount(old < 0))]

OverdrawnCount(k, a, old, new) ==
    [k EXCEPT ![<<"allocations_overdrawn", CurrencyOf(a), "">>] =
                  @ + (BoolCount(new < 0) - BoolCount(old < 0))]

WithRow(a, n) == [b \in DOMAIN overdrawn \cup {a} |-> IF b = a THEN n ELSE overdrawn[b]]

\* Mutant of OverdrawnRows: a debt that is paid stays in the table.
OverdrawnRowsKept(a, old, new) == IF new < 0 THEN WithRow(a, new) ELSE overdrawn

OverdrawnRows(a, old, new) ==
    IF new < 0 THEN WithRow(a, new)
    ELSE IF old < 0 THEN Restrict(overdrawn, DOMAIN overdrawn \ {a})
    ELSE overdrawn

SpentAmounts(m, a, delta) == [m EXCEPT ![<<"allocation_spent", CurrencyOf(a)>>] = @ + delta]

-----------------------------------------------------------------------------
\* The counts of grants; a transfer into the pool has no other summary.
MCreateGrant(g, initial, n) ==
    /\ CreateGrant(g, initial, n)
    /\ counts' = NewInventory("grants", Currency[g], initial)
    /\ amounts' = PoolDelta(g, n)
    /\ UNCHANGED overdrawn

MFundGrant(g, n) ==
    /\ FundGrant(g, n)
    /\ amounts' = PoolDelta(g, n)
    /\ UNCHANGED <<counts, overdrawn>>

MSetGrantStatus(g, next) ==
    /\ SetGrantStatus(g, next)
    /\ counts' = Inventory("grants", Currency[g], grantStatus[g], next)
    /\ UNCHANGED <<amounts, overdrawn>>

\* n units move between the pool of a's grant (which gives them) and a: the
\* row of a exists by then, so its balance is counted.
PoolToAllocation(a, n, k) ==
    LET old == balance[Available(a)]
        new == old + n
    IN  /\ counts' = OverdrawnCount(k, a, old, new)
        /\ amounts' = AvailableAmounts(PoolDelta(GrantOf[a], -n), a, old, new)
        /\ overdrawn' = OverdrawnRows(a, old, new)

MCreateAllocation(a, initial, requested) ==
    LET n == AllocationAmount(requested, balance[Unallocated(GrantOf[a])])
    IN  /\ CreateAllocation(a, initial, requested)
        /\ PoolToAllocation(a, n,
              NewInventory("allocations", CurrencyOf(a), InitialStatus(initial, n)))

MFundAllocation(a, requested) ==
    LET n == AllocationAmount(requested, balance[Unallocated(GrantOf[a])])
    IN  /\ FundAllocation(a, requested)
        /\ PoolToAllocation(a, n,
              Inventory("allocations", CurrencyOf(a), status[a],
                        StatusAfterFunding(status[a], balance[Available(a)] + n)))

MSetAllocationStatus(a, next) ==
    /\ SetAllocationStatus(a, next)
    /\ counts' = Inventory("allocations", CurrencyOf(a), status[a], next)
    /\ UNCHANGED <<amounts, overdrawn>>

MRevoke(a) ==
    /\ Revoke(a)
    /\ PoolToAllocation(a, -Returned(balance[Available(a)]),
          Inventory("allocations", CurrencyOf(a), status[a], "revoked"))

MCharge(a, n) ==
    LET old == balance[Available(a)]
        new == old - n
    IN  /\ Charge(a, n)
        /\ counts' = OverdrawnCount(
              Inventory("allocations", CurrencyOf(a), status[a], StatusAfterCharge(status[a], new)),
              a, old, new)
        /\ amounts' = SpentAmounts(AvailableAmounts(amounts, a, old, new), a, n)
        /\ overdrawn' = OverdrawnRows(a, old, new)

-----------------------------------------------------------------------------
(***************************************************************************)
(* Migration 003                                                           *)
(***************************************************************************)
In(c) == {a \in Allocations : status[a] # "absent" /\ CurrencyOf(a) = c}

Debtors(c) == {a \in In(c) : balance[Available(a)] < 0}

GrantsIn(c) == {g \in Grants : grantStatus[g] # "absent" /\ Currency[g] = c}

\* SELECT ..., count(*) ... GROUP BY.
CountedRows(k) ==
    CASE k[1] = "grants" -> Cardinality({g \in GrantsIn(k[2]) : grantStatus[g] = k[3]})
      [] k[1] = "allocations" -> Cardinality({a \in In(k[2]) : status[a] = k[3]})
      [] k[1] = "allocations_overdrawn" -> Cardinality(Debtors(k[2]))

\* The columns of account_balances that are added up, and the debts in them.
PoolUnits == [g \in Grants |-> balance[Unallocated(g)]]
AvailableUnits == [a \in Allocations |-> balance[Available(a)]]
SpentUnits == [a \in Allocations |-> balance[Spent(a)]]
Debts == [a \in Allocations |-> Overdraw(balance[Available(a)])]

\* Mutant of Backfilled: debts are taken from the overdrawn total.
BackfilledSigned(name, c) ==
    CASE name = "grant_unallocated" -> SumFunctionOnSet(PoolUnits, GrantsIn(c))
      [] name = "allocation_available" -> SumFunctionOnSet(AvailableUnits, In(c))
      [] name = "allocation_spent" -> SumFunctionOnSet(SpentUnits, In(c))
      [] name = "allocation_overdraw" -> SumFunctionOnSet(AvailableUnits, Debtors(c))

\* backfillMetricAmounts: a scan of account_balances.
Backfilled(name, c) ==
    CASE name = "grant_unallocated" -> SumFunctionOnSet(PoolUnits, GrantsIn(c))
      [] name = "allocation_available" -> SumFunctionOnSet(AvailableUnits, In(c))
      [] name = "allocation_spent" -> SumFunctionOnSet(SpentUnits, In(c))
      [] name = "allocation_overdraw" -> SumFunctionOnSet(Debts, Debtors(c))

Migrate ==
    /\ ~migrated
    /\ migrated' = TRUE
    /\ counts' = [k \in CountKeys |-> CountedRows(k)]
    /\ amounts' = [k \in AmountNames \X Currencies |-> Backfilled(k[1], k[2])]
    /\ overdrawn' = [a \in Debtors("usd") \cup Debtors("eth") |-> balance[Available(a)]]
    /\ UNCHANGED vars

NoCounts == [k \in CountKeys |-> 0]
NoAmounts == [k \in AmountNames \X Currencies |-> 0]

\* Down, as far as 003.
Rollback ==
    /\ migrated
    /\ migrated' = FALSE
    /\ counts' = NoCounts /\ amounts' = NoAmounts /\ overdrawn' = <<>>
    /\ UNCHANGED vars

\* The release before 003.
Unsummarised ==
    /\ ~migrated
    /\ Next
    /\ UNCHANGED metricVars

-----------------------------------------------------------------------------
MInit ==
    /\ Init
    /\ counts = NoCounts /\ amounts = NoAmounts /\ overdrawn = <<>>
    /\ migrated \in BOOLEAN

Summarised ==
    \/ \E g \in Grants, s \in GrantStatuses, n \in Amounts : MCreateGrant(g, s, n)
    \/ \E g \in Grants, n \in Amounts : MFundGrant(g, n)
    \/ \E g \in Grants, s \in GrantStatuses : MSetGrantStatus(g, s)
    \/ \E a \in Allocations, s \in AllocationStatuses, r \in Amounts \cup {All} :
          MCreateAllocation(a, s, r)
    \/ \E a \in Allocations, r \in Amounts \cup {All} : MFundAllocation(a, r)
    \/ \E a \in Allocations, s \in AllocationStatuses : MSetAllocationStatus(a, s)
    \/ \E a \in Allocations : MRevoke(a)
    \/ \E a \in Allocations, n \in Amounts : MCharge(a, n)

MNext ==
    \/ Unsummarised
    \/ migrated /\ UNCHANGED migrated /\ Summarised
    \/ Migrate
    \/ Rollback

MSpec == MInit /\ [][MNext]_allVars

-----------------------------------------------------------------------------
(***************************************************************************)
(* Properties                                                              *)
(***************************************************************************)
\* What a scan of the tables would find, row by row.
GrantCount(c, s) == Cardinality({g \in Grants : grantStatus[g] = s /\ Currency[g] = c})
AllocationCount(c, s) == Cardinality({a \in Allocations : status[a] = s /\ CurrencyOf(a) = c})
DebtorCount(c) == Cardinality({a \in Allocations : balance[Available(a)] < 0 /\ CurrencyOf(a) = c})

CountsMatch ==
    \A c \in Currencies :
        /\ \A s \in GrantStatuses : counts[<<"grants", c, s>>] = GrantCount(c, s)
        /\ \A s \in AllocationStatuses : counts[<<"allocations", c, s>>] = AllocationCount(c, s)
        /\ counts[<<"allocations_overdrawn", c, "">>] = DebtorCount(c)

GrantTotal(units, c) == SumFunctionOnSet(units, {g \in Grants : Currency[g] = c})
AllocationTotal(units, c) == SumFunctionOnSet(units, {a \in Allocations : CurrencyOf(a) = c})

AmountsMatch ==
    \A c \in Currencies :
        /\ amounts[<<"grant_unallocated", c>>] = GrantTotal(PoolUnits, c)
        /\ amounts[<<"allocation_available", c>>] = AllocationTotal(AvailableUnits, c)
        /\ amounts[<<"allocation_spent", c>>] = AllocationTotal(SpentUnits, c)
        /\ amounts[<<"allocation_overdraw", c>>] = AllocationTotal(Debts, c)

RowsMatch ==
    \A a \in Allocations :
        IF balance[Available(a)] < 0
          THEN a \in DOMAIN overdrawn /\ overdrawn[a] = balance[Available(a)]
          ELSE a \notin DOMAIN overdrawn

\* The summaries kept by differences are what a scan of the tables would find: grants
\* and allocations by status, allocations in debt and the rows the extrema are taken
\* over, and the sums over the accounts in each currency; also when the migration
\* computed them in the middle of the database's life.  No count is ever below zero, so
\* the CHECK on metric_counts never aborts an operation.
SummariesMatchTables == migrated => CountsMatch /\ AmountsMatch /\ RowsMatch
=============================================================================
