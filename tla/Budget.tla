------------------------------- MODULE Budget -------------------------------
(***************************************************************************)
(* Grants, allocations and the double-entry balances between them.         *)
(*                                                                         *)
(* Every action is one call of Store.Write (src/internal/store/store.go):  *)
(* an immediate SQLite transaction, so operations are atomic and totally   *)
(* ordered; an error inside one rolls it back and leaves the state alone.  *)
(* Guards are the early returns of the operation, in any order: an         *)
(* operation the guards refuse returns an error and changes nothing.       *)
(*                                                                         *)
(* Amounts are unbounded integers in the code (math/big), and integers     *)
(* here.  The ledger's entries are append-only and are not kept: an        *)
(* account's balance is what they add up to.                               *)
(***************************************************************************)
EXTENDS Integers

CONSTANTS
    Grants,         \* grant ids
    Allocations,    \* allocation ids
    GrantOf,        \* grant_allocations.grant_id: chosen at creation, never updated
    Currency,       \* grants.currency: immutable, inherited by the allocations
    Amounts,        \* amounts a request or a usage event carries, in minor units
    All,            \* the request amount "all"
    MaxFunding,     \* bound: units ever added to one grant
    MaxUsage        \* bound: units ever spent by one allocation

Currencies == {"usd", "eth"}

ASSUME CurrencyAssumption == Currency \in [Grants -> Currencies]
ASSUME GrantOfAssumption == GrantOf \in [Allocations -> Grants]
ASSUME AmountsAssumption == Amounts \subseteq Nat /\ All \notin Amounts

VARIABLES
    grantStatus,    \* grants.status, "absent" before the row exists
    totalUnits,     \* grants.total_units
    status,         \* grant_allocations.status, "absent" before the row exists
    allocatedUnits, \* grant_allocations.allocated_units
    balance         \* account_balances.balance_units, 0 before the row exists

grantVars == <<grantStatus, totalUnits>>
allocationVars == <<status, allocatedUnits>>
vars == <<grantStatus, totalUnits, status, allocatedUnits, balance>>

GrantStatuses == {"draft", "active", "paused", "closed"}
AllocationStatuses == {"active", "paused", "exhausted", "revoked"}

CurrencyOf(a) == Currency[GrantOf[a]]

(***************************************************************************)
(* Ledger accounts: an account type and its owner.                         *)
(***************************************************************************)
FundingSource(g) == <<"grant_funding_source", g>>
Unallocated(g)   == <<"grant_unallocated", g>>
Available(a)     == <<"allocation_available", a>>
Spent(a)         == <<"allocation_spent", a>>

Accounts == ({"grant_funding_source", "grant_unallocated"} \X Grants)
              \cup ({"allocation_available", "allocation_spent"} \X Allocations)

\* Two equal, opposite entries (TransferCurrency); zero units post nothing.
Transfer(debit, credit, n) ==
    [balance EXCEPT ![debit] = @ - n, ![credit] = @ + n]

-----------------------------------------------------------------------------
(***************************************************************************)
(* Grants                                                                  *)
(***************************************************************************)
CreateGrant(g, initial, n) ==
    /\ grantStatus[g] = "absent"
    /\ initial \in {"draft", "active", "paused"}
    /\ n <= MaxFunding
    /\ grantStatus' = [grantStatus EXCEPT ![g] = initial]
    /\ totalUnits' = [totalUnits EXCEPT ![g] = n]
    /\ balance' = Transfer(FundingSource(g), Unallocated(g), n)
    /\ UNCHANGED allocationVars

GrantOpen(g) == grantStatus[g] \in GrantStatuses \ {"closed"}

FundGrant(g, n) ==
    /\ n > 0
    /\ GrantOpen(g)
    /\ totalUnits[g] + n <= MaxFunding
    /\ totalUnits' = [totalUnits EXCEPT ![g] = @ + n]
    /\ balance' = Transfer(FundingSource(g), Unallocated(g), n)
    /\ UNCHANGED <<grantStatus, allocationVars>>

\* Mutant of SetGrantStatus: a closed grant can be reopened.
SetAnyGrantStatus(g, next) ==
    /\ grantStatus[g] # "absent"
    /\ grantStatus' = [grantStatus EXCEPT ![g] = next]
    /\ UNCHANGED <<totalUnits, allocationVars, balance>>

SetGrantStatus(g, next) ==
    /\ grantStatus[g] # "absent"
    /\ grantStatus[g] = "closed" => next = "closed"
    /\ grantStatus' = [grantStatus EXCEPT ![g] = next]
    /\ UNCHANGED <<totalUnits, allocationVars, balance>>

-----------------------------------------------------------------------------
(***************************************************************************)
(* Allocations                                                             *)
(***************************************************************************)
\* "all" takes whatever the grant has not yet allocated.
AllocationAmount(requested, available) ==
    IF requested = All THEN available ELSE requested

InitialStatus(requested, n) ==
    IF requested = "active" /\ n = 0 THEN "exhausted" ELSE requested

CreateAllocation(a, initial, requested) ==
    LET g == GrantOf[a]
        n == AllocationAmount(requested, balance[Unallocated(g)])
    IN  /\ status[a] = "absent"
        /\ initial \in {"active", "paused"}
        /\ GrantOpen(g)
        /\ n <= balance[Unallocated(g)]
        /\ status' = [status EXCEPT ![a] = InitialStatus(initial, n)]
        /\ allocatedUnits' = [allocatedUnits EXCEPT ![a] = n]
        /\ balance' = Transfer(Unallocated(g), Available(a), n)
        /\ UNCHANGED grantVars

\* Funding lifts exhaustion once the balance is positive; a pause stays.
StatusAfterFunding(old, available) ==
    IF old = "exhausted" /\ available > 0 THEN "active" ELSE old

FundAllocation(a, requested) ==
    LET g == GrantOf[a]
        n == AllocationAmount(requested, balance[Unallocated(g)])
    IN  /\ status[a] \in AllocationStatuses \ {"revoked"}
        /\ GrantOpen(g)
        /\ n > 0
        /\ n <= balance[Unallocated(g)]
        /\ balance' = Transfer(Unallocated(g), Available(a), n)
        /\ status' = [status EXCEPT ![a] =
                         StatusAfterFunding(@, balance[Available(a)] + n)]
        /\ allocatedUnits' = [allocatedUnits EXCEPT ![a] = @ + n]
        /\ UNCHANGED grantVars

\* PATCH status=active|paused.
SetAllocationStatus(a, next) ==
    /\ status[a] \in AllocationStatuses \ {"revoked"}
    /\ next \in {"active", "paused"}
    /\ next = "active" => balance[Available(a)] > 0
    /\ status' = [status EXCEPT ![a] = next]
    /\ UNCHANGED <<grantVars, allocatedUnits, balance>>

\* Mutant of Returned: a debt is taken from the pool.
ReturnedDebt(available) == available

\* What a revocation hands back: a positive balance, never a debt.
Returned(available) == IF available > 0 THEN available ELSE 0

\* Mutant of Revoke: allocated_units forgets a debt.
RevokeForgettingDebt(a) ==
    LET n == Returned(balance[Available(a)])
    IN  /\ status[a] \in AllocationStatuses \ {"revoked"}
        /\ status' = [status EXCEPT ![a] = "revoked"]
        /\ allocatedUnits' = [allocatedUnits EXCEPT ![a] = @ - balance[Available(a)]]
        /\ balance' = Transfer(Available(a), Unallocated(GrantOf[a]), n)
        /\ UNCHANGED grantVars

\* PATCH status=revoked; repeating it is accepted and changes nothing.
Revoke(a) ==
    LET n == Returned(balance[Available(a)])
    IN  /\ status[a] \in AllocationStatuses \ {"revoked"}
        /\ status' = [status EXCEPT ![a] = "revoked"]
        /\ allocatedUnits' = [allocatedUnits EXCEPT ![a] = @ - n]
        /\ balance' = Transfer(Available(a), Unallocated(GrantOf[a]), n)
        /\ UNCHANGED grantVars

-----------------------------------------------------------------------------
(***************************************************************************)
(* Usage: the financial part of Store.Ingest for an applied event.  The    *)
(* ticket is already signed, so the charge is posted whatever the          *)
(* allocation's status and balance have become.                            *)
(***************************************************************************)
\* Mutant of StatusAfterCharge: only a debt exhausts.
StatusAfterDebt(old, available) ==
    IF available < 0 /\ old = "active" THEN "exhausted" ELSE old

StatusAfterCharge(old, available) ==
    IF available <= 0 /\ old = "active" THEN "exhausted" ELSE old

Charge(a, n) ==
    /\ status[a] # "absent"
    /\ balance[Spent(a)] + n <= MaxUsage
    /\ balance' = Transfer(Available(a), Spent(a), n)
    /\ status' = [status EXCEPT ![a] =
                     StatusAfterCharge(@, balance[Available(a)] - n)]
    /\ UNCHANGED <<grantVars, allocatedUnits>>

-----------------------------------------------------------------------------
Init ==
    /\ grantStatus = [g \in Grants |-> "absent"]
    /\ totalUnits = [g \in Grants |-> 0]
    /\ status = [a \in Allocations |-> "absent"]
    /\ allocatedUnits = [a \in Allocations |-> 0]
    /\ balance = [x \in Accounts |-> 0]

Management ==
    \/ \E g \in Grants, s \in GrantStatuses, n \in Amounts : CreateGrant(g, s, n)
    \/ \E g \in Grants, n \in Amounts : FundGrant(g, n)
    \/ \E g \in Grants, s \in GrantStatuses : SetGrantStatus(g, s)
    \/ \E a \in Allocations, s \in AllocationStatuses, r \in Amounts \cup {All} :
          CreateAllocation(a, s, r)
    \/ \E a \in Allocations, r \in Amounts \cup {All} : FundAllocation(a, r)
    \/ \E a \in Allocations, s \in AllocationStatuses : SetAllocationStatus(a, s)
    \/ \E a \in Allocations : Revoke(a)

Usage == \E a \in Allocations, n \in Amounts : Charge(a, n)

Next == Management \/ Usage

Spec == Init /\ [][Next]_vars

-----------------------------------------------------------------------------
(***************************************************************************)
(* Properties                                                              *)
(***************************************************************************)
\* Every column holds a value of its type.
TypeOK ==
    /\ grantStatus \in [Grants -> GrantStatuses \cup {"absent"}]
    /\ totalUnits \in [Grants -> Nat]
    /\ status \in [Allocations -> AllocationStatuses \cup {"absent"}]
    /\ allocatedUnits \in [Allocations -> Int]
    /\ balance \in [Accounts -> Int]

\* A grant can only allocate what it was given: no interleaving of creation,
\* funding, "all" requests and revocations overdraws the pool, though usage
\* may overdraw an allocation after its units were returned.
PoolNeverOverdrawn ==
    \A g \in Grants : balance[Unallocated(g)] >= 0

\* allocated_units is kept by hand next to the ledger (set at creation, raised
\* by funding, lowered by revocation, untouched by usage) and yet always equals
\* what the allocation has spent plus what it still has, also when it is in
\* debt; in particular its CHECK(>= 0) never makes a revocation fail.
AllocatedIsAvailablePlusSpent ==
    \A a \in Allocations :
        /\ allocatedUnits[a] = balance[Available(a)] + balance[Spent(a)]
        /\ allocatedUnits[a] >= 0

\* The status an authorization reads agrees with the balance it reads: active
\* allocations have units left, exhausted ones do not, and a revoked one keeps
\* nothing its grant could have used.
StatusAgreesWithBalance ==
    \A a \in Allocations :
        /\ status[a] = "active" => balance[Available(a)] > 0
        /\ status[a] \in {"exhausted", "revoked"} => balance[Available(a)] <= 0

\* Revocation and closing are final, and after them nothing but usage that was
\* already signed touches the money: a revoked allocation never gets units nor
\* loses what it has spent, and a closed grant gets no funding, only what its
\* allocations return.
FinalStep ==
    /\ \A a \in Allocations : status[a] = "revoked" =>
          /\ status'[a] = "revoked"
          /\ allocatedUnits'[a] = allocatedUnits[a]
          /\ balance'[Available(a)] <= balance[Available(a)]
          /\ balance'[Spent(a)] >= balance[Spent(a)]
    /\ \A g \in Grants : grantStatus[g] = "closed" =>
          /\ grantStatus'[g] = "closed"
          /\ totalUnits'[g] = totalUnits[g]
          /\ balance'[Unallocated(g)] >= balance[Unallocated(g)]

Finality == [][FinalStep]_vars
=============================================================================
