-------------------------- MODULE AccountingProofs --------------------------
(***************************************************************************)
(* What the runs of Budget, BudgetMetrics and Ingestion check on small     *)
(* instances, for any grants, allocations and amounts, any topic, any      *)
(* producers and any number of crashes.                                    *)
(*                                                                         *)
(* The budget's properties are not inductive alone.  A new allocation      *)
(* starts with the units it takes only if nothing was posted to its        *)
(* accounts before the row existed, and a revocation leaves                *)
(* allocated_units = spent, which is a valid column only if nothing was    *)
(* ever un-spent: BudgetInv adds both.                                     *)
(*                                                                         *)
(* The summaries of BudgetMetrics are proved in two halves: what a count   *)
(* or a sum over the rows moves by when one row changes, and what the code *)
(* adds to the summary's key in the same transaction.  The migration needs *)
(* that a row which does not exist has no balance (RowsNeedGrants).        *)
(*                                                                         *)
(* Of the worker that charges the budgets there are three results: its     *)
(* audit trail is the consumed prefix of the log, it implements            *)
(* ChargeOnce, and it loses no genuine ticket.  The first is inductive     *)
(* once two facts about the worker's memory are added: while it runs its   *)
(* offset is the checkpoint, and a record in its hands is one the log has. *)
(***************************************************************************)
EXTENDS BudgetMetrics, Ingestion, FiniteSetTheorems, TLAPS

\* Accounts of a row that does not exist are empty.
AbsentIsEmpty ==
    \A a \in Allocations : status[a] = "absent" =>
        /\ allocatedUnits[a] = 0
        /\ balance[Available(a)] = 0
        /\ balance[Spent(a)] = 0

SpentIsNat == \A a \in Allocations : balance[Spent(a)] >= 0

BudgetInv ==
    /\ TypeOK
    /\ PoolNeverOverdrawn
    /\ AllocatedIsAvailablePlusSpent
    /\ StatusAgreesWithBalance
    /\ AbsentIsEmpty
    /\ SpentIsNat

-----------------------------------------------------------------------------
\* The four kinds of account are different accounts of the ledger, and so are
\* the accounts of different owners.
LEMMA AccountsDiffer ==
    /\ \A g \in Grants : FundingSource(g) \in Accounts /\ Unallocated(g) \in Accounts
    /\ \A a \in Allocations : Available(a) \in Accounts /\ Spent(a) \in Accounts
    /\ \A g, h \in Grants : /\ FundingSource(g) # Unallocated(h)
                            /\ Unallocated(g) = Unallocated(h) => g = h
    /\ \A g \in Grants, a \in Allocations :
          /\ Unallocated(g) # Available(a) /\ Unallocated(g) # Spent(a)
          /\ FundingSource(g) # Available(a) /\ FundingSource(g) # Spent(a)
    /\ \A a, b \in Allocations : /\ Available(a) # Spent(b)
                                 /\ Available(a) = Available(b) => a = b
                                 /\ Spent(a) = Spent(b) => a = b
BY DEF Accounts, FundingSource, Unallocated, Available, Spent

\* A transfer moves n units between two different accounts and nothing else.
LEMMA TransferMoves ==
    TypeOK => \A x, y \in Accounts, n \in Int : x # y =>
        /\ Transfer(x, y, n) \in [Accounts -> Int]
        /\ Transfer(x, y, n)[x] = balance[x] - n
        /\ Transfer(x, y, n)[y] = balance[y] + n
        /\ \A z \in Accounts \ {x, y} : Transfer(x, y, n)[z] = balance[z]
BY DEF Transfer, TypeOK

\* Every amount is a natural number.
LEMMA AmountsAreNat == \A n \in Amounts : n \in Nat
BY AmountsAssumption

-----------------------------------------------------------------------------
\* The state the store starts in is in order.
LEMMA BudgetInit == Init => BudgetInv
<1> SUFFICES ASSUME Init PROVE BudgetInv
  OBVIOUS
<1> USE DEF Init
<1>1. TypeOK
  BY DEF TypeOK, GrantStatuses, AllocationStatuses
<1>2. PoolNeverOverdrawn /\ AllocatedIsAvailablePlusSpent /\ AbsentIsEmpty /\ SpentIsNat
  BY AccountsDiffer DEF PoolNeverOverdrawn, AllocatedIsAvailablePlusSpent, AbsentIsEmpty, SpentIsNat
<1>3. StatusAgreesWithBalance
  BY DEF StatusAgreesWithBalance
<1> QED
  BY <1>1, <1>2, <1>3 DEF BudgetInv

-----------------------------------------------------------------------------
(***************************************************************************)
(* Every step preserves BudgetInv: one lemma per kind of transfer, then    *)
(* one step per action.                                                    *)
(***************************************************************************)
\* Funding enters a grant's pool; no allocation notices.
LEMMA PoolFundingPreserves ==
    ASSUME BudgetInv, NEW g \in Grants, NEW n \in Nat,
           balance' = Transfer(FundingSource(g), Unallocated(g), n),
           grantStatus' \in [Grants -> GrantStatuses \cup {"absent"}],
           totalUnits' \in [Grants -> Nat],
           UNCHANGED allocationVars
    PROVE  BudgetInv'
<1> USE DEF BudgetInv
<1>1. /\ balance' \in [Accounts -> Int]
      /\ balance'[Unallocated(g)] = balance[Unallocated(g)] + n
      /\ \A z \in Accounts \ {FundingSource(g), Unallocated(g)} : balance'[z] = balance[z]
  <2>1. FundingSource(g) \in Accounts /\ Unallocated(g) \in Accounts /\ n \in Int
    BY AccountsDiffer
  <2> QED
    BY <2>1, AccountsDiffer, TransferMoves
<1>2. \A a \in Allocations : /\ balance'[Available(a)] = balance[Available(a)]
                             /\ balance'[Spent(a)] = balance[Spent(a)]
  BY <1>1, AccountsDiffer
<1>3. \A h \in Grants : balance'[Unallocated(h)] >= balance[Unallocated(h)]
  <2> TAKE h \in Grants
  <2>1. CASE h = g
    BY <2>1, <1>1, AccountsDiffer DEF TypeOK
  <2>2. CASE h # g
    <3>1. Unallocated(h) \in Accounts \ {FundingSource(g), Unallocated(g)}
      BY <2>2, AccountsDiffer
    <3> QED
      BY <3>1, <1>1 DEF TypeOK
  <2> QED
    BY <2>1, <2>2
<1>4. TypeOK'
  BY <1>1 DEF TypeOK, allocationVars
<1>5. PoolNeverOverdrawn'
  BY <1>1, <1>3, AccountsDiffer DEF PoolNeverOverdrawn, TypeOK
<1>6. (AllocatedIsAvailablePlusSpent /\ AbsentIsEmpty /\ SpentIsNat)'
  BY <1>2 DEF AllocatedIsAvailablePlusSpent, AbsentIsEmpty, SpentIsNat, allocationVars
<1>7. StatusAgreesWithBalance'
  BY <1>2 DEF StatusAgreesWithBalance, allocationVars
<1> QED
  BY <1>4, <1>5, <1>6, <1>7

\* n units, possibly a negative number of them, move from a grant's pool to one
\* of its allocations, whose allocated_units follow; its new status agrees with
\* what it then has.  The pool covers n.
LEMMA PoolTransferPreserves ==
    ASSUME BudgetInv, NEW a \in Allocations, NEW n \in Int,
           n <= balance[Unallocated(GrantOf[a])],
           allocatedUnits[a] + n >= 0,
           balance' \in [Accounts -> Int],
           balance'[Unallocated(GrantOf[a])] = balance[Unallocated(GrantOf[a])] - n,
           balance'[Available(a)] = balance[Available(a)] + n,
           \A z \in Accounts \ {Unallocated(GrantOf[a]), Available(a)} : balance'[z] = balance[z],
           allocatedUnits' = [allocatedUnits EXCEPT ![a] = @ + n],
           NEW s \in AllocationStatuses,
           status' = [status EXCEPT ![a] = s],
           s = "active" => balance[Available(a)] + n > 0,
           s \in {"exhausted", "revoked"} => balance[Available(a)] + n <= 0,
           UNCHANGED grantVars
    PROVE  BudgetInv'
<1> USE DEF BudgetInv
<1>1. GrantOf[a] \in Grants
  BY GrantOfAssumption
<1>2. \A b \in Allocations : balance'[Spent(b)] = balance[Spent(b)]
  BY <1>1, AccountsDiffer
<1>3. \A b \in Allocations \ {a} : balance'[Available(b)] = balance[Available(b)]
  BY <1>1, AccountsDiffer
<1>4. \A g \in Grants \ {GrantOf[a]} : balance'[Unallocated(g)] = balance[Unallocated(g)]
  BY <1>1, AccountsDiffer
<1>5. TypeOK'
  BY DEF TypeOK, grantVars
<1>6. PoolNeverOverdrawn'
  <2> SUFFICES ASSUME NEW g \in Grants PROVE balance'[Unallocated(g)] >= 0
    BY DEF PoolNeverOverdrawn, Unallocated
  <2>1. CASE g = GrantOf[a]
    BY <2>1, <1>1, AccountsDiffer DEF TypeOK
  <2>2. CASE g # GrantOf[a]
    BY <2>2, <1>4 DEF PoolNeverOverdrawn
  <2> QED
    BY <2>1, <2>2
<1>7. /\ balance[Available(a)] \in Int
      /\ balance[Spent(a)] \in Int
      /\ allocatedUnits[a] \in Int
  BY AccountsDiffer DEF TypeOK
<1>8. /\ \A b \in Allocations \ {a} : allocatedUnits'[b] = allocatedUnits[b] /\ status'[b] = status[b]
      /\ allocatedUnits'[a] = allocatedUnits[a] + n
      /\ status'[a] = s
  BY DEF TypeOK
<1>9. AllocatedIsAvailablePlusSpent'
  <2> SUFFICES ASSUME NEW b \in Allocations
               PROVE  /\ allocatedUnits'[b] = balance'[Available(b)] + balance'[Spent(b)]
                      /\ allocatedUnits'[b] >= 0
    BY DEF AllocatedIsAvailablePlusSpent, Available, Spent
  <2>1. CASE b = a
    BY <2>1, <1>2, <1>7, <1>8 DEF AllocatedIsAvailablePlusSpent
  <2>2. CASE b # a
    BY <2>2, <1>2, <1>3, <1>8 DEF AllocatedIsAvailablePlusSpent
  <2> QED
    BY <2>1, <2>2
<1>10. (AbsentIsEmpty /\ StatusAgreesWithBalance)'
  BY <1>2, <1>3, <1>8 DEF AbsentIsEmpty, StatusAgreesWithBalance, AllocationStatuses
<1>11. SpentIsNat'
  BY <1>2 DEF SpentIsNat
<1> QED
  BY <1>5, <1>6, <1>9, <1>10, <1>11

\* Usage: n units of a become spent, whatever its status.
LEMMA ChargePreserves ==
    ASSUME BudgetInv, NEW a \in Allocations, NEW n \in Nat, Charge(a, n)
    PROVE  BudgetInv'
<1> USE DEF BudgetInv
<1>1. /\ balance' \in [Accounts -> Int]
      /\ balance'[Available(a)] = balance[Available(a)] - n
      /\ balance'[Spent(a)] = balance[Spent(a)] + n
      /\ \A z \in Accounts \ {Available(a), Spent(a)} : balance'[z] = balance[z]
  <2>1. Available(a) \in Accounts /\ Spent(a) \in Accounts /\ n \in Int
    BY AccountsDiffer
  <2> QED
    BY <2>1, AccountsDiffer, TransferMoves DEF Charge
<1>2. \A g \in Grants : balance'[Unallocated(g)] = balance[Unallocated(g)]
  BY <1>1, AccountsDiffer
<1>3. \A b \in Allocations \ {a} : /\ balance'[Available(b)] = balance[Available(b)]
                                   /\ balance'[Spent(b)] = balance[Spent(b)]
                                   /\ status'[b] = status[b]
  BY <1>1, AccountsDiffer DEF Charge, TypeOK
<1>4. /\ status[a] \in AllocationStatuses
      /\ status'[a] = StatusAfterCharge(status[a], balance'[Available(a)])
      /\ allocatedUnits' = allocatedUnits
  BY <1>1 DEF Charge, TypeOK
<1>5. balance[Available(a)] \in Int /\ balance[Spent(a)] \in Int
  BY AccountsDiffer DEF TypeOK
<1>6. TypeOK'
  BY <1>1 DEF TypeOK, Charge, StatusAfterCharge, grantVars, AllocationStatuses
<1>7. PoolNeverOverdrawn'
  BY <1>2 DEF PoolNeverOverdrawn
<1>8. (AllocatedIsAvailablePlusSpent /\ SpentIsNat)'
  BY <1>1, <1>3, <1>4, <1>5 DEF AllocatedIsAvailablePlusSpent, SpentIsNat
<1>9. AbsentIsEmpty'
  BY <1>3, <1>4 DEF AbsentIsEmpty, StatusAfterCharge, AllocationStatuses
<1>10. StatusAgreesWithBalance'
  BY <1>1, <1>3, <1>4, <1>5 DEF StatusAgreesWithBalance, StatusAfterCharge, AllocationStatuses
<1> QED
  BY <1>6, <1>7, <1>8, <1>9, <1>10

-----------------------------------------------------------------------------
Pool(a) == Unallocated(GrantOf[a])

\* A transfer between a's pool and a, in the form PoolTransferPreserves takes.
LEMMA PoolTransferMoves ==
    ASSUME BudgetInv, NEW a \in Allocations
    PROVE  /\ balance[Pool(a)] \in Nat
           /\ balance[Available(a)] \in Int
           /\ balance[Spent(a)] \in Nat
           /\ allocatedUnits[a] \in Int
           /\ \A n \in Int :
                 /\ Transfer(Pool(a), Available(a), n) \in [Accounts -> Int]
                 /\ Transfer(Pool(a), Available(a), n)[Pool(a)] = balance[Pool(a)] - n
                 /\ Transfer(Pool(a), Available(a), n)[Available(a)] = balance[Available(a)] + n
                 /\ \A z \in Accounts \ {Pool(a), Available(a)} :
                       Transfer(Pool(a), Available(a), n)[z] = balance[z]
<1>1. /\ GrantOf[a] \in Grants
      /\ Pool(a) \in Accounts
      /\ Available(a) \in Accounts /\ Spent(a) \in Accounts
      /\ Pool(a) # Available(a)
  BY GrantOfAssumption, AccountsDiffer DEF Pool
<1>2. TypeOK /\ PoolNeverOverdrawn /\ SpentIsNat
  BY DEF BudgetInv
<1>3. /\ balance[Pool(a)] \in Nat
      /\ balance[Available(a)] \in Int
      /\ balance[Spent(a)] \in Nat
      /\ allocatedUnits[a] \in Int
  BY <1>1, <1>2 DEF Pool, TypeOK, PoolNeverOverdrawn, SpentIsNat
<1>4. ASSUME NEW n \in Int
      PROVE  /\ Transfer(Pool(a), Available(a), n) \in [Accounts -> Int]
             /\ Transfer(Pool(a), Available(a), n)[Pool(a)] = balance[Pool(a)] - n
             /\ Transfer(Pool(a), Available(a), n)[Available(a)] = balance[Available(a)] + n
             /\ \A z \in Accounts \ {Pool(a), Available(a)} :
                   Transfer(Pool(a), Available(a), n)[z] = balance[z]
  BY <1>1, <1>2, TransferMoves
<1> QED
  BY <1>3, <1>4

\* The same two accounts, the other way: what a revocation returns.
LEMMA ReturnMoves ==
    ASSUME BudgetInv, NEW a \in Allocations, NEW n \in Int
    PROVE  /\ Transfer(Available(a), Pool(a), n) \in [Accounts -> Int]
           /\ Transfer(Available(a), Pool(a), n)[Pool(a)] = balance[Pool(a)] + n
           /\ Transfer(Available(a), Pool(a), n)[Available(a)] = balance[Available(a)] - n
           /\ \A z \in Accounts \ {Pool(a), Available(a)} :
                 Transfer(Available(a), Pool(a), n)[z] = balance[z]
<1>1. /\ Pool(a) \in Accounts
      /\ Available(a) \in Accounts
      /\ Pool(a) # Available(a)
  BY GrantOfAssumption, AccountsDiffer DEF Pool
<1>2. TypeOK
  BY DEF BudgetInv
<1> QED
  BY <1>1, <1>2, TransferMoves

\* What a request for an allocation's units takes is a number of units.
LEMMA AllocationAmountIsNat ==
    ASSUME BudgetInv, NEW a \in Allocations, NEW r \in Amounts \cup {All}
    PROVE  AllocationAmount(r, balance[Unallocated(GrantOf[a])]) \in Nat
<1>1. balance[Unallocated(GrantOf[a])] \in Nat
  BY PoolTransferMoves DEF Pool
<1> QED
  BY <1>1, AmountsAreNat DEF AllocationAmount

-----------------------------------------------------------------------------
\* Every operation on the budgets keeps their invariant.
LEMMA BudgetStep == BudgetInv /\ [Next]_vars => BudgetInv'
<1> SUFFICES ASSUME BudgetInv, [Next]_vars PROVE BudgetInv'
  OBVIOUS
<1> USE AmountsAreNat
<1>1. ASSUME NEW g \in Grants, NEW s \in GrantStatuses, NEW n \in Amounts,
             CreateGrant(g, s, n)
      PROVE  BudgetInv'
  <2>1. TypeOK /\ n \in Nat
    BY DEF BudgetInv
  <2>2. /\ grantStatus' \in [Grants -> GrantStatuses \cup {"absent"}]
        /\ totalUnits' \in [Grants -> Nat]
    BY <1>1, <2>1 DEF CreateGrant, TypeOK
  <2> QED
    BY <1>1, <2>1, <2>2, PoolFundingPreserves DEF CreateGrant
<1>2. ASSUME NEW g \in Grants, NEW n \in Amounts, FundGrant(g, n)
      PROVE  BudgetInv'
  <2>1. TypeOK /\ n \in Nat
    BY DEF BudgetInv
  <2>2. /\ grantStatus' \in [Grants -> GrantStatuses \cup {"absent"}]
        /\ totalUnits' \in [Grants -> Nat]
        /\ UNCHANGED allocationVars
    BY <1>2, <2>1 DEF FundGrant, TypeOK
  <2> QED
    BY <1>2, <2>1, <2>2, PoolFundingPreserves DEF FundGrant
<1>3. ASSUME NEW g \in Grants, NEW s \in GrantStatuses, SetGrantStatus(g, s)
      PROVE  BudgetInv'
  <2> USE <1>3 DEF SetGrantStatus, BudgetInv, allocationVars
  <2>1. TypeOK'
    BY DEF TypeOK
  <2>2. (PoolNeverOverdrawn /\ AllocatedIsAvailablePlusSpent)'
    BY DEF PoolNeverOverdrawn, AllocatedIsAvailablePlusSpent
  <2>3. (StatusAgreesWithBalance /\ AbsentIsEmpty /\ SpentIsNat)'
    BY DEF StatusAgreesWithBalance, AbsentIsEmpty, SpentIsNat
  <2> QED
    BY <2>1, <2>2, <2>3
<1>4. ASSUME NEW a \in Allocations, NEW s \in AllocationStatuses,
             NEW r \in Amounts \cup {All}, CreateAllocation(a, s, r)
      PROVE  BudgetInv'
  <2> DEFINE n == AllocationAmount(r, balance[Pool(a)])
             t == InitialStatus(s, n)
  <2>1. n \in Nat
    BY AllocationAmountIsNat DEF Pool
  <2>2. /\ status[a] = "absent" /\ s \in {"active", "paused"}
        /\ n <= balance[Pool(a)]
        /\ status' = [status EXCEPT ![a] = t]
        /\ balance' = Transfer(Pool(a), Available(a), n)
        /\ UNCHANGED grantVars
    BY <1>4 DEF CreateAllocation, Pool
  <2>3. /\ allocatedUnits[a] = 0 /\ balance[Available(a)] = 0
        /\ allocatedUnits' = [allocatedUnits EXCEPT ![a] = n]
    BY <1>4, <2>2 DEF CreateAllocation, Pool, BudgetInv, AbsentIsEmpty
  <2> HIDE DEF n
  <2>4. /\ t \in AllocationStatuses
        /\ t = "active" => balance[Available(a)] + n > 0
        /\ t \in {"exhausted", "revoked"} => balance[Available(a)] + n <= 0
    BY <2>1, <2>2, <2>3 DEF InitialStatus, AllocationStatuses
  <2>5. /\ allocatedUnits' = [allocatedUnits EXCEPT ![a] = @ + n]
        /\ allocatedUnits[a] + n >= 0
    BY <2>1, <2>2, <2>3 DEF BudgetInv, TypeOK
  <2>6. n \in Int
    BY <2>1
  <2> HIDE DEF t
  <2> QED
    BY <2>2, <2>4, <2>5, <2>6, PoolTransferMoves, PoolTransferPreserves DEF Pool
<1>5. ASSUME NEW a \in Allocations, NEW r \in Amounts \cup {All}, FundAllocation(a, r)
      PROVE  BudgetInv'
  <2> DEFINE n == AllocationAmount(r, balance[Pool(a)])
             s == StatusAfterFunding(status[a], balance[Available(a)] + n)
  <2>1. n \in Nat
    BY AllocationAmountIsNat DEF Pool
  <2>2. /\ status[a] \in AllocationStatuses \ {"revoked"}
        /\ n <= balance[Pool(a)]
        /\ allocatedUnits' = [allocatedUnits EXCEPT ![a] = @ + n]
        /\ balance' = Transfer(Pool(a), Available(a), n)
        /\ UNCHANGED grantVars
    BY <1>5 DEF FundAllocation, Pool
  <2>3. status' = [status EXCEPT ![a] = s]
    BY <1>5 DEF FundAllocation, Pool, BudgetInv, TypeOK
  <2> HIDE DEF n
  <2>4. /\ s \in AllocationStatuses
        /\ s = "active" => balance[Available(a)] + n > 0
        /\ s \in {"exhausted", "revoked"} => balance[Available(a)] + n <= 0
    BY <2>1, <2>2, PoolTransferMoves
       DEF BudgetInv, StatusAgreesWithBalance, StatusAfterFunding, AllocationStatuses
  <2>5. allocatedUnits[a] + n >= 0
    BY <2>1, PoolTransferMoves DEF BudgetInv, AllocatedIsAvailablePlusSpent
  <2>6. n \in Int
    BY <2>1
  <2> HIDE DEF s
  <2> QED
    BY <2>2, <2>3, <2>4, <2>5, <2>6, PoolTransferMoves, PoolTransferPreserves DEF Pool
<1>6. ASSUME NEW a \in Allocations, NEW s \in AllocationStatuses, SetAllocationStatus(a, s)
      PROVE  BudgetInv'
  <2> USE <1>6 DEF SetAllocationStatus, BudgetInv, grantVars
  <2>1. TypeOK'
    BY DEF TypeOK
  <2>2. (PoolNeverOverdrawn /\ AllocatedIsAvailablePlusSpent)'
    BY DEF PoolNeverOverdrawn, AllocatedIsAvailablePlusSpent
  <2>3. (AbsentIsEmpty /\ SpentIsNat)'
    BY DEF AbsentIsEmpty, SpentIsNat, TypeOK
  <2>4. StatusAgreesWithBalance'
    BY DEF StatusAgreesWithBalance, TypeOK
  <2> QED
    BY <2>1, <2>2, <2>3, <2>4
<1>7. ASSUME NEW a \in Allocations, Revoke(a)
      PROVE  BudgetInv'
  <2> DEFINE m == Returned(balance[Available(a)])
             n == -m
  <2>1. /\ balance[Available(a)] \in Int /\ balance[Spent(a)] \in Nat /\ n \in Int
        /\ balance[Available(a)] + n <= 0
        /\ n <= 0
        /\ balance[Pool(a)] \in Nat
        /\ allocatedUnits[a] \in Int
    BY PoolTransferMoves DEF Returned
  <2>2. allocatedUnits[a] + n >= 0
    <3>1. allocatedUnits[a] = balance[Available(a)] + balance[Spent(a)] /\ allocatedUnits[a] >= 0
      BY DEF BudgetInv, AllocatedIsAvailablePlusSpent
    <3> QED
      BY <2>1, <3>1 DEF Returned
  <2>3. /\ status[a] \in AllocationStatuses
        /\ status' = [status EXCEPT ![a] = "revoked"]
        /\ UNCHANGED grantVars
    BY <1>7 DEF Revoke
  <2>4. allocatedUnits' = [allocatedUnits EXCEPT ![a] = @ + n]
    BY <1>7, <2>1 DEF Revoke, Returned, BudgetInv, TypeOK
  <2>5. /\ Pool(a) \in Accounts /\ Available(a) \in Accounts /\ Pool(a) # Available(a)
        /\ balance \in [Accounts -> Int]
    BY GrantOfAssumption, AccountsDiffer DEF Pool, BudgetInv, TypeOK
  <2>6. balance' = Transfer(Available(a), Pool(a), m)
    BY <1>7 DEF Revoke, Pool
  <2>7. /\ balance' \in [Accounts -> Int]
        /\ balance'[Pool(a)] = balance[Pool(a)] - n
        /\ balance'[Available(a)] = balance[Available(a)] + n
        /\ \A z \in Accounts \ {Pool(a), Available(a)} : balance'[z] = balance[z]
    <3>1. m \in Int /\ balance[Pool(a)] \in Int
      BY <2>1 DEF Returned
    <3> HIDE DEF m
    <3>2. /\ balance' \in [Accounts -> Int]
          /\ balance'[Pool(a)] = balance[Pool(a)] + m
          /\ balance'[Available(a)] = balance[Available(a)] - m
          /\ \A z \in Accounts \ {Pool(a), Available(a)} : balance'[z] = balance[z]
      BY <2>6, <3>1, ReturnMoves
    <3> QED
      BY <2>1, <3>1, <3>2
  <2>8. "revoked" \in AllocationStatuses
    BY DEF AllocationStatuses
  <2>9. n <= balance[Pool(a)]
    BY <2>1
  <2> HIDE DEF n
  <2> QED
    BY <2>1, <2>2, <2>3, <2>4, <2>7, <2>8, <2>9, PoolTransferPreserves DEF Pool
<1>8. ASSUME NEW a \in Allocations, NEW n \in Amounts, Charge(a, n)
      PROVE  BudgetInv'
  BY <1>8, ChargePreserves
<1>9. CASE UNCHANGED vars
  <2> USE <1>9 DEF vars, BudgetInv
  <2>1. TypeOK'
    BY DEF TypeOK
  <2>2. (PoolNeverOverdrawn /\ AllocatedIsAvailablePlusSpent)'
    BY DEF PoolNeverOverdrawn, AllocatedIsAvailablePlusSpent
  <2>3. (StatusAgreesWithBalance /\ AbsentIsEmpty /\ SpentIsNat)'
    BY DEF StatusAgreesWithBalance, AbsentIsEmpty, SpentIsNat
  <2> QED
    BY <2>1, <2>2, <2>3
<1> QED
  BY <1>1, <1>2, <1>3, <1>4, <1>5, <1>6, <1>7, <1>8, <1>9 DEF Next, Management, Usage

\* Every reachable state satisfies the inductive invariant.
THEOREM BudgetInvariant == Spec => []BudgetInv
BY BudgetInit, BudgetStep, PTL DEF Spec

-----------------------------------------------------------------------------
\* Every column keeps its type.
THEOREM TypeCorrect == Spec => []TypeOK
<1>1. BudgetInv => TypeOK
  BY DEF BudgetInv
<1> QED
  BY <1>1, BudgetInvariant, PTL

\* No grant ever allocates more than it was given.
THEOREM PoolIsSafe == Spec => []PoolNeverOverdrawn
<1>1. BudgetInv => PoolNeverOverdrawn
  BY DEF BudgetInv
<1> QED
  BY <1>1, BudgetInvariant, PTL

\* The hand-kept allocated_units always equals what the ledger says.
THEOREM AllocatedUnitsCorrect == Spec => []AllocatedIsAvailablePlusSpent
<1>1. BudgetInv => AllocatedIsAvailablePlusSpent
  BY DEF BudgetInv
<1> QED
  BY <1>1, BudgetInvariant, PTL

\* The status column an authorization trusts agrees with the balance.
THEOREM StatusCorrect == Spec => []StatusAgreesWithBalance
<1>1. BudgetInv => StatusAgreesWithBalance
  BY DEF BudgetInv
<1> QED
  BY <1>1, BudgetInvariant, PTL

-----------------------------------------------------------------------------
(***************************************************************************)
(* Finality.  A step touches a revoked allocation, or the pool of a closed *)
(* grant, only by a charge or by a revocation of another allocation.       *)
(***************************************************************************)
LEMMA FinalNext == BudgetInv /\ [Next]_vars => FinalStep \/ UNCHANGED vars
<1> SUFFICES ASSUME BudgetInv, [Next]_vars PROVE FinalStep \/ UNCHANGED vars
  OBVIOUS
<1> USE AmountsAreNat
<1>0. /\ TypeOK
      /\ \A b \in Allocations : balance[Available(b)] \in Int /\ balance[Spent(b)] \in Int
      /\ \A h \in Grants : balance[Unallocated(h)] \in Int
  BY AccountsDiffer DEF BudgetInv, TypeOK
<1>1. ASSUME NEW g \in Grants, NEW n \in Nat,
             balance' = Transfer(FundingSource(g), Unallocated(g), n),
             UNCHANGED allocationVars,
             \A h \in Grants : grantStatus[h] = "closed" =>
                grantStatus'[h] = "closed" /\ totalUnits'[h] = totalUnits[h]
      PROVE  FinalStep
  <2>1. FundingSource(g) \in Accounts /\ Unallocated(g) \in Accounts /\ n \in Int
    BY AccountsDiffer
  <2>2. /\ \A z \in Accounts \ {FundingSource(g), Unallocated(g)} : balance'[z] = balance[z]
        /\ balance'[Unallocated(g)] = balance[Unallocated(g)] + n
    BY <1>0, <1>1, <2>1, AccountsDiffer, TransferMoves
  <2>3. \A b \in Allocations : /\ balance'[Available(b)] = balance[Available(b)]
                               /\ balance'[Spent(b)] = balance[Spent(b)]
    BY <2>2, AccountsDiffer
  <2>4. \A h \in Grants : balance'[Unallocated(h)] >= balance[Unallocated(h)]
    <3> TAKE h \in Grants
    <3>1. CASE h = g
      BY <3>1, <2>2, <1>0
    <3>2. CASE h # g
      BY <3>2, <2>2, <1>0, AccountsDiffer
    <3> QED
      BY <3>1, <3>2
  <2> QED
    BY <1>0, <1>1, <2>3, <2>4 DEF FinalStep, allocationVars
<1>2. ASSUME NEW g \in Grants, NEW s \in GrantStatuses, NEW n \in Amounts,
             CreateGrant(g, s, n)
      PROVE  FinalStep
  BY <1>0, <1>1, <1>2 DEF CreateGrant, TypeOK
<1>3. ASSUME NEW g \in Grants, NEW n \in Amounts, FundGrant(g, n)
      PROVE  FinalStep
  <2>1. UNCHANGED allocationVars
    BY <1>3 DEF FundGrant
  <2> QED
    BY <1>0, <1>1, <1>3, <2>1 DEF FundGrant, GrantOpen, TypeOK
<1>4. ASSUME NEW g \in Grants, NEW s \in GrantStatuses, SetGrantStatus(g, s)
      PROVE  FinalStep
  BY <1>0, <1>4 DEF SetGrantStatus, FinalStep, allocationVars, TypeOK
<1>5. ASSUME NEW a \in Allocations, NEW n \in Nat,
             GrantOpen(GrantOf[a]), status[a] # "revoked",
             balance' = Transfer(Pool(a), Available(a), n),
             \A b \in Allocations \ {a} : /\ status'[b] = status[b]
                                          /\ allocatedUnits'[b] = allocatedUnits[b],
             UNCHANGED grantVars
      PROVE  FinalStep
  <2>1. \A z \in Accounts \ {Pool(a), Available(a)} : balance'[z] = balance[z]
    BY <1>5, PoolTransferMoves
  <2>2. \A b \in Allocations \ {a} : balance'[Available(b)] = balance[Available(b)]
    BY <2>1, GrantOfAssumption, AccountsDiffer DEF Pool
  <2>3. \A b \in Allocations : balance'[Spent(b)] = balance[Spent(b)]
    BY <2>1, GrantOfAssumption, AccountsDiffer DEF Pool
  <2>4. \A h \in Grants \ {GrantOf[a]} : balance'[Unallocated(h)] = balance[Unallocated(h)]
    BY <2>1, GrantOfAssumption, AccountsDiffer DEF Pool
  <2> QED
    BY <1>0, <1>5, <2>2, <2>3, <2>4 DEF FinalStep, GrantOpen, grantVars
<1>6. ASSUME NEW a \in Allocations, NEW s \in AllocationStatuses,
             NEW r \in Amounts \cup {All}, CreateAllocation(a, s, r)
      PROVE  FinalStep
  BY <1>0, <1>5, <1>6, AllocationAmountIsNat DEF CreateAllocation, Pool, TypeOK
<1>7. ASSUME NEW a \in Allocations, NEW r \in Amounts \cup {All}, FundAllocation(a, r)
      PROVE  FinalStep
  BY <1>0, <1>5, <1>7, AllocationAmountIsNat DEF FundAllocation, Pool, TypeOK
<1>8. ASSUME NEW a \in Allocations, NEW s \in AllocationStatuses, SetAllocationStatus(a, s)
      PROVE  FinalStep
  BY <1>0, <1>8 DEF SetAllocationStatus, FinalStep, grantVars, TypeOK
<1>9. ASSUME NEW a \in Allocations, Revoke(a)
      PROVE  FinalStep
  <2> DEFINE n == Returned(balance[Available(a)])
  <2>1. n \in Nat
    BY <1>0 DEF Returned
  <2>2. balance' = Transfer(Available(a), Pool(a), n)
    BY <1>9 DEF Revoke, Pool
  <2>3. /\ status[a] # "revoked"
        /\ \A b \in Allocations \ {a} : status'[b] = status[b] /\ allocatedUnits'[b] = allocatedUnits[b]
        /\ UNCHANGED grantVars
    BY <1>0, <1>9 DEF Revoke, TypeOK
  <2> HIDE DEF n
  <2>4. /\ balance'[Pool(a)] = balance[Pool(a)] + n
        /\ \A z \in Accounts \ {Pool(a), Available(a)} : balance'[z] = balance[z]
    BY <2>1, <2>2, ReturnMoves
  <2>5. \A b \in Allocations \ {a} : balance'[Available(b)] = balance[Available(b)]
    BY <2>4, GrantOfAssumption, AccountsDiffer DEF Pool
  <2>6. \A b \in Allocations : balance'[Spent(b)] = balance[Spent(b)]
    BY <2>4, GrantOfAssumption, AccountsDiffer DEF Pool
  <2>7. \A h \in Grants : balance'[Unallocated(h)] >= balance[Unallocated(h)]
    <3> TAKE h \in Grants
    <3>1. CASE h = GrantOf[a]
      BY <3>1, <2>1, <2>4, <1>0 DEF Pool
    <3>2. CASE h # GrantOf[a]
      BY <3>2, <2>4, <1>0, GrantOfAssumption, AccountsDiffer DEF Pool
    <3> QED
      BY <3>1, <3>2
  <2> QED
    BY <1>0, <2>3, <2>5, <2>6, <2>7 DEF FinalStep, grantVars
<1>10. ASSUME NEW a \in Allocations, NEW n \in Amounts, Charge(a, n)
       PROVE  FinalStep
  <2>1. Available(a) \in Accounts /\ Spent(a) \in Accounts /\ n \in Int
    BY AccountsDiffer
  <2>2. /\ \A z \in Accounts \ {Available(a), Spent(a)} : balance'[z] = balance[z]
        /\ balance'[Available(a)] = balance[Available(a)] - n
        /\ balance'[Spent(a)] = balance[Spent(a)] + n
    BY <1>0, <1>10, <2>1, AccountsDiffer, TransferMoves DEF Charge
  <2>3. \A b \in Allocations : /\ balance'[Available(b)] <= balance[Available(b)]
                               /\ balance'[Spent(b)] >= balance[Spent(b)]
    <3> TAKE b \in Allocations
    <3>1. CASE b = a
      BY <3>1, <2>2, <1>0
    <3>2. CASE b # a
      BY <3>2, <2>2, <1>0, AccountsDiffer
    <3> QED
      BY <3>1, <3>2
  <2>4. \A h \in Grants : balance'[Unallocated(h)] = balance[Unallocated(h)]
    BY <2>2, AccountsDiffer
  <2>5. \A b \in Allocations : status[b] = "revoked" => status'[b] = "revoked"
    BY <1>0, <1>10 DEF Charge, StatusAfterCharge, TypeOK
  <2> QED
    BY <1>0, <1>10, <2>3, <2>4, <2>5 DEF FinalStep, Charge, grantVars
<1> QED
  BY <1>2, <1>3, <1>4, <1>6, <1>7, <1>8, <1>9, <1>10 DEF Next, Management, Usage

\* Revocation and closing are final; after them only signed usage is posted.
THEOREM FinalityHolds == Spec => Finality
<1>1. BudgetInv /\ [Next]_vars => [FinalStep]_vars
  BY FinalNext
<1> QED
  BY <1>1, BudgetInvariant, PTL DEF Spec, Finality

-----------------------------------------------------------------------------
(***************************************************************************)
(* The metric summaries.  Every summary is a number of rows, or a sum over *)
(* rows, and a step changes one row: how much a number or a sum moves is   *)
(* what that row counts for afterwards less what it counted for before.    *)
(***************************************************************************)
Sums == INSTANCE FoldProofs WITH op <- +

\* The sum a summary takes is the fold the lemmas on folds are about.
LEMMA SumsAreFolds ==
    ASSUME NEW f, NEW S
    PROVE  Sums!Sum(0, f, S) = SumFunctionOnSet(f, S)
BY DEF Sums!Sum, SumFunctionOnSet, FoldFunctionOnSet, MapThenFoldSet,
       Sums!FoldFunctionOnSet, Sums!MapThenFoldSet

\* A sum of integers, and what each element adds to it.
LEMMA SumOfInts ==
    ASSUME NEW S, IsFiniteSet(S), NEW f, \A x \in S : f[x] \in Int
    PROVE  /\ SumFunctionOnSet(f, S) \in Int
           /\ SumFunctionOnSet(f, {}) = 0
           /\ \A x \in S : SumFunctionOnSet(f, S) = f[x] + SumFunctionOnSet(f, S \ {x})
<1>1. Sums!Commutes(Int) /\ 0 \in Int
  BY DEF Sums!Commutes
<1>2. Sums!IsFiniteSet(S)
  BY DEF IsFiniteSet, Sums!IsFiniteSet
<1>3. Sums!Sum(0, f, {}) = 0
  BY <1>1, Sums!SumEmpty
<1>4. /\ Sums!Sum(0, f, S) \in Int
      /\ \A x \in S : Sums!Sum(0, f, S) = f[x] + Sums!Sum(0, f, S \ {x})
  BY <1>1, <1>2, Sums!SumWithout
<1> QED
  BY <1>3, <1>4, SumsAreFolds

\* A sum depends on the summands alone.
LEMMA SumOfSame ==
    ASSUME NEW S, IsFiniteSet(S), NEW f, NEW g,
           \A x \in S : f[x] \in Int /\ f[x] = g[x]
    PROVE  SumFunctionOnSet(f, S) = SumFunctionOnSet(g, S)
<1>1. Sums!Commutes(Int) /\ 0 \in Int
  BY DEF Sums!Commutes
<1>2. Sums!IsFiniteSet(S)
  BY DEF IsFiniteSet, Sums!IsFiniteSet
<1>3. (\A x \in S : f[x] \in Int) /\ (\A x \in S : f[x] = g[x])
  OBVIOUS
<1>4. Sums!Sum(0, f, S) = Sums!Sum(0, g, S)
  BY <1>1, <1>2, <1>3, Sums!SumSame
<1> QED
  BY <1>4, SumsAreFolds

\* One summand changes.
LEMMA SumMoves ==
    ASSUME NEW S, IsFiniteSet(S), NEW f, NEW g, \A y \in S : f[y] \in Int /\ g[y] \in Int,
           NEW x \in S, \A y \in S \ {x} : f[y] = g[y]
    PROVE  SumFunctionOnSet(g, S) = SumFunctionOnSet(f, S) + (g[x] - f[x])
<1> DEFINE R == S \ {x}
           r == SumFunctionOnSet(f, R)
           s == SumFunctionOnSet(f, S)
           t == SumFunctionOnSet(g, S)
<1>1. IsFiniteSet(R)
  BY FS_Subset
<1>2. r \in Int /\ r = SumFunctionOnSet(g, R)
  BY <1>1, SumOfInts, SumOfSame
<1>3. s = f[x] + r
  BY SumOfInts
<1>4. t = g[x] + r
  BY <1>2, SumOfInts
<1>5. f[x] \in Int /\ g[x] \in Int
  OBVIOUS
<1> HIDE DEF r, s, t
<1>6. t = s + (g[x] - f[x])
  BY <1>2, <1>3, <1>4, <1>5
<1> QED
  BY <1>6 DEF s, t

\* What is zero need not be added.
LEMMA SumSkipsZeros ==
    ASSUME NEW S, IsFiniteSet(S), NEW f, \A x \in S : f[x] \in Int,
           NEW T \in SUBSET S, \A x \in S \ T : f[x] = 0
    PROVE  SumFunctionOnSet(f, S) = SumFunctionOnSet(f, T)
<1> DEFINE F == {U \in SUBSET S : SumFunctionOnSet(f, U) = SumFunctionOnSet(f, U \cap T)}
<1>1. {} \in F
  BY DEF F
<1>2. ASSUME NEW U \in SUBSET S, U # {}, \A x \in U : U \ {x} \in F
      PROVE  U \in F
  <2>1. PICK x : x \in U
    BY <1>2
  <2> DEFINE V == U \ {x}
             W == U \cap T
  <2>2. IsFiniteSet(U) /\ IsFiniteSet(W) /\ IsFiniteSet(V \cap T)
    BY FS_Subset
  <2>3. /\ SumFunctionOnSet(f, U) = f[x] + SumFunctionOnSet(f, V)
        /\ SumFunctionOnSet(f, V \cap T) \in Int
    BY <2>1, <2>2, SumOfInts
  <2>4. SumFunctionOnSet(f, V) = SumFunctionOnSet(f, V \cap T)
    BY <1>2, <2>1
  <2>5. CASE x \in T
    <3>1. x \in W /\ W \ {x} = V \cap T /\ \A y \in W : f[y] \in Int
      BY <2>1, <2>5
    <3>2. SumFunctionOnSet(f, W) = f[x] + SumFunctionOnSet(f, W \ {x})
      <4> HIDE DEF W
      <4> QED
        BY <2>2, <3>1, SumOfInts
    <3> QED
      BY <2>3, <2>4, <3>1, <3>2
  <2>6. CASE x \notin T
    <3>1. W = V \cap T /\ f[x] = 0
      BY <2>1, <2>6
    <3>2. SumFunctionOnSet(f, U) = 0 + SumFunctionOnSet(f, V \cap T)
      BY <2>3, <2>4, <3>1
    <3>3. SumFunctionOnSet(f, U) = SumFunctionOnSet(f, V \cap T)
      BY <2>3, <3>2
    <3> QED
      BY <3>1, <3>3
  <2> QED
    BY <2>5, <2>6
<1> HIDE DEF F
<1>3. Sums!IsFiniteSet(S)
  BY DEF IsFiniteSet, Sums!IsFiniteSet
<1>4. S \in F
  BY <1>1, <1>2, <1>3, Sums!FiniteInduction
<1>5. S \cap T = T
  OBVIOUS
<1> QED
  BY <1>4, <1>5 DEF F

\* One element joins or leaves a set.
LEMMA CountMoves ==
    ASSUME NEW S, IsFiniteSet(S), NEW A \in SUBSET S, NEW B \in SUBSET S,
           NEW x, A \ {x} = B \ {x}
    PROVE  Cardinality(B) = Cardinality(A) + (BoolCount(x \in B) - BoolCount(x \in A))
<1>1. IsFiniteSet(A) /\ IsFiniteSet(B)
  BY FS_Subset
<1>2. Cardinality(A) \in Nat /\ Cardinality(B) \in Nat
  BY <1>1, FS_CardinalityType
<1>3. CASE x \in A /\ x \notin B
  <2>1. B = A \ {x}
    BY <1>3
  <2>2. Cardinality(B) = Cardinality(A) - 1
    BY <1>1, <1>3, <2>1, FS_RemoveElement
  <2> QED
    BY <1>2, <1>3, <2>2 DEF BoolCount
<1>4. CASE x \notin A /\ x \in B
  <2>1. A = B \ {x}
    BY <1>4
  <2>2. Cardinality(A) = Cardinality(B) - 1
    BY <1>1, <1>4, <2>1, FS_RemoveElement
  <2> QED
    BY <1>2, <1>4, <2>2 DEF BoolCount
<1>5. CASE (x \in A) = (x \in B)
  <2>1. A = B
    BY <1>5
  <2> QED
    BY <1>2, <1>5, <2>1 DEF BoolCount
<1> QED
  BY <1>3, <1>4, <1>5

-----------------------------------------------------------------------------
\* A summary moves by d in one currency and not in the other.
Within(b, d) == IF b THEN d ELSE 0

\* When one allocation's figure moves, the total of its currency moves by as
\* much and no other total does.
LEMMA AllocationsByCurrency ==
    ASSUME NEW a \in Allocations, NEW c \in Currencies,
           NEW f, NEW g, \A b \in Allocations : f[b] \in Int /\ g[b] \in Int,
           \A b \in Allocations \ {a} : f[b] = g[b]
    PROVE  /\ AllocationTotal(f, c) \in Int
           /\ AllocationTotal(g, c) = AllocationTotal(f, c) + Within(c = CurrencyOf(a), g[a] - f[a])
<1> DEFINE S == {b \in Allocations : CurrencyOf(b) = c}
<1>1. IsFiniteSet(S)
  BY FiniteTables, FS_Subset
<1>2. \A b \in S : f[b] \in Int /\ g[b] \in Int
  OBVIOUS
<1>3. a \in S <=> c = CurrencyOf(a)
  OBVIOUS
<1>4. \A b \in S : b # a => f[b] = g[b]
  OBVIOUS
<1> HIDE DEF S
<1>5. SumFunctionOnSet(f, S) \in Int
  BY <1>1, <1>2, SumOfInts
<1>6. CASE a \in S
  BY <1>1, <1>2, <1>3, <1>4, <1>5, <1>6, SumMoves DEF AllocationTotal, Within, S
<1>7. CASE a \notin S
  <2>1. SumFunctionOnSet(f, S) = SumFunctionOnSet(g, S)
    BY <1>1, <1>2, <1>4, <1>7, SumOfSame
  <2> QED
    BY <1>3, <1>5, <1>7, <2>1 DEF AllocationTotal, Within, S
<1> QED
  BY <1>6, <1>7

\* When one grant's figure moves, the total of its currency moves by as much
\* and no other total does.
LEMMA GrantsByCurrency ==
    ASSUME NEW g \in Grants, NEW c \in Currencies,
           NEW f, NEW h, \A b \in Grants : f[b] \in Int /\ h[b] \in Int,
           \A b \in Grants \ {g} : f[b] = h[b]
    PROVE  /\ GrantTotal(f, c) \in Int
           /\ GrantTotal(h, c) = GrantTotal(f, c) + Within(c = Currency[g], h[g] - f[g])
<1> DEFINE S == {b \in Grants : Currency[b] = c}
<1>1. IsFiniteSet(S)
  BY FiniteTables, FS_Subset
<1>2. \A b \in S : f[b] \in Int /\ h[b] \in Int
  OBVIOUS
<1>3. g \in S <=> c = Currency[g]
  OBVIOUS
<1>4. \A b \in S : b # g => f[b] = h[b]
  OBVIOUS
<1> HIDE DEF S
<1>5. SumFunctionOnSet(f, S) \in Int
  BY <1>1, <1>2, SumOfInts
<1>6. CASE g \in S
  BY <1>1, <1>2, <1>3, <1>4, <1>5, <1>6, SumMoves DEF GrantTotal, Within, S
<1>7. CASE g \notin S
  <2>1. SumFunctionOnSet(f, S) = SumFunctionOnSet(h, S)
    BY <1>1, <1>2, <1>4, <1>7, SumOfSame
  <2> QED
    BY <1>3, <1>5, <1>7, <2>1 DEF GrantTotal, Within, S
<1> QED
  BY <1>6, <1>7

\* The figures the summaries add up are integers read off the balances.
LEMMA BalancesAreInts ==
    ASSUME TypeOK
    PROVE  /\ \A g \in Grants : PoolUnits[g] = balance[Unallocated(g)] /\ PoolUnits[g] \in Int
           /\ \A a \in Allocations :
                 /\ AvailableUnits[a] = balance[Available(a)] /\ AvailableUnits[a] \in Int
                 /\ SpentUnits[a] = balance[Spent(a)] /\ SpentUnits[a] \in Int
                 /\ Debts[a] = Overdraw(balance[Available(a)]) /\ Debts[a] \in Int
BY AccountsDiffer DEF TypeOK, PoolUnits, AvailableUnits, SpentUnits, Debts, Overdraw

\* The available balance of one allocation changes.
LEMMA AvailableMoves ==
    ASSUME TypeOK, TypeOK', NEW a \in Allocations, NEW c \in Currencies,
           \A b \in Allocations \ {a} : balance'[Available(b)] = balance[Available(b)],
           NEW old, old = balance[Available(a)], NEW new, new = balance'[Available(a)]
    PROVE  /\ AllocationTotal(AvailableUnits, c)'
                 = AllocationTotal(AvailableUnits, c) + Within(c = CurrencyOf(a), new - old)
           /\ AllocationTotal(Debts, c)'
                 = AllocationTotal(Debts, c) + Within(c = CurrencyOf(a), Overdraw(new) - Overdraw(old))
           /\ DebtorCount(c)'
                 = DebtorCount(c) + Within(c = CurrencyOf(a), BoolCount(new < 0) - BoolCount(old < 0))
<1> DEFINE f == AvailableUnits
           g == AvailableUnits'
           d == Debts
           e == Debts'
<1>1. \A b \in Allocations : f[b] = balance[Available(b)] /\ f[b] \in Int
                             /\ d[b] = Overdraw(balance[Available(b)]) /\ d[b] \in Int
  BY BalancesAreInts
<1>2. \A b \in Allocations : g[b] = balance'[Available(b)] /\ g[b] \in Int
                             /\ e[b] = Overdraw(balance'[Available(b)]) /\ e[b] \in Int
  <2>1. \A b \in Allocations : balance'[Available(b)] \in Int
    BY AccountsDiffer DEF TypeOK
  <2>2. \A i \in Int : Overdraw(i) \in Int
    BY DEF Overdraw
  <2>3. /\ g = [b \in Allocations |-> balance'[Available(b)]]
        /\ e = [b \in Allocations |-> Overdraw(balance'[Available(b)])]
    BY DEF AvailableUnits, Debts, Overdraw, Available
  <2> HIDE DEF g, e
  <2> QED
    BY <2>1, <2>2, <2>3
<1>3. /\ f[a] = old /\ g[a] = new /\ d[a] = Overdraw(old) /\ e[a] = Overdraw(new)
      /\ \A b \in Allocations \ {a} : f[b] = g[b] /\ d[b] = e[b]
  BY <1>1, <1>2
<1>4. /\ AllocationTotal(AvailableUnits, c)' = AllocationTotal(g, c)
      /\ AllocationTotal(Debts, c)' = AllocationTotal(e, c)
  BY DEF AllocationTotal, CurrencyOf
<1> HIDE DEF f, g, d, e
<1>5. AllocationTotal(g, c) = AllocationTotal(f, c) + Within(c = CurrencyOf(a), g[a] - f[a])
  BY <1>1, <1>2, <1>3, AllocationsByCurrency
<1>6. AllocationTotal(e, c) = AllocationTotal(d, c) + Within(c = CurrencyOf(a), e[a] - d[a])
  BY <1>1, <1>2, <1>3, AllocationsByCurrency
<1> DEFINE A == {b \in Allocations : balance[Available(b)] < 0 /\ CurrencyOf(b) = c}
           B == {b \in Allocations : balance'[Available(b)] < 0 /\ CurrencyOf(b) = c}
<1>7. /\ A \in SUBSET Allocations /\ B \in SUBSET Allocations /\ A \ {a} = B \ {a}
      /\ a \in A <=> old < 0 /\ c = CurrencyOf(a)
      /\ a \in B <=> new < 0 /\ c = CurrencyOf(a)
  OBVIOUS
<1>8. DebtorCount(c) = Cardinality(A) /\ DebtorCount(c)' = Cardinality(B)
  BY DEF DebtorCount, CurrencyOf, Available
<1> HIDE DEF A, B
<1>9. Cardinality(B) = Cardinality(A) + (BoolCount(a \in B) - BoolCount(a \in A))
  BY <1>7, FiniteTables, CountMoves
<1>10. BoolCount(a \in B) - BoolCount(a \in A)
          = Within(c = CurrencyOf(a), BoolCount(new < 0) - BoolCount(old < 0))
  BY <1>7 DEF BoolCount, Within
<1> QED
  BY <1>3, <1>4, <1>5, <1>6, <1>8, <1>9, <1>10 DEF f, d

\* The spent balance of one allocation changes.
LEMMA SpentMoves ==
    ASSUME TypeOK, TypeOK', NEW a \in Allocations, NEW c \in Currencies,
           \A b \in Allocations \ {a} : balance'[Spent(b)] = balance[Spent(b)]
    PROVE  AllocationTotal(SpentUnits, c)'
              = AllocationTotal(SpentUnits, c)
                  + Within(c = CurrencyOf(a), balance'[Spent(a)] - balance[Spent(a)])
<1> DEFINE f == SpentUnits
           g == SpentUnits'
<1>1. \A b \in Allocations : f[b] = balance[Spent(b)] /\ f[b] \in Int
  BY BalancesAreInts
<1>2. \A b \in Allocations : g[b] = balance'[Spent(b)] /\ g[b] \in Int
  BY AccountsDiffer DEF TypeOK, SpentUnits, Spent
<1>3. \A b \in Allocations \ {a} : f[b] = g[b]
  BY <1>1, <1>2
<1>4. AllocationTotal(SpentUnits, c)' = AllocationTotal(g, c)
  BY DEF AllocationTotal, CurrencyOf
<1> HIDE DEF f, g
<1>5. AllocationTotal(g, c) = AllocationTotal(f, c) + Within(c = CurrencyOf(a), g[a] - f[a])
  BY <1>1, <1>2, <1>3, AllocationsByCurrency
<1> QED
  BY <1>1, <1>2, <1>4, <1>5 DEF f

\* The pool of one grant changes.
LEMMA PoolMoves ==
    ASSUME TypeOK, TypeOK', NEW g \in Grants, NEW c \in Currencies,
           \A h \in Grants \ {g} : balance'[Unallocated(h)] = balance[Unallocated(h)]
    PROVE  GrantTotal(PoolUnits, c)'
              = GrantTotal(PoolUnits, c)
                  + Within(c = Currency[g], balance'[Unallocated(g)] - balance[Unallocated(g)])
<1> DEFINE f == PoolUnits
           h == PoolUnits'
<1>1. \A b \in Grants : f[b] = balance[Unallocated(b)] /\ f[b] \in Int
  BY BalancesAreInts
<1>2. \A b \in Grants : h[b] = balance'[Unallocated(b)] /\ h[b] \in Int
  BY AccountsDiffer DEF TypeOK, PoolUnits, Unallocated
<1>3. \A b \in Grants \ {g} : f[b] = h[b]
  BY <1>1, <1>2
<1>4. GrantTotal(PoolUnits, c)' = GrantTotal(h, c)
  BY DEF GrantTotal
<1> HIDE DEF f, h
<1>5. GrantTotal(h, c) = GrantTotal(f, c) + Within(c = Currency[g], h[g] - f[g])
  BY <1>1, <1>2, <1>3, GrantsByCurrency
<1> QED
  BY <1>1, <1>2, <1>4, <1>5 DEF f

\* The status of one row changes.
LEMMA AllocationStatusMoves ==
    ASSUME NEW a \in Allocations, NEW c \in Currencies, NEW s,
           \A b \in Allocations \ {a} : status'[b] = status[b]
    PROVE  AllocationCount(c, s)'
              = AllocationCount(c, s)
                  + Within(c = CurrencyOf(a), BoolCount(status'[a] = s) - BoolCount(status[a] = s))
<1> DEFINE A == {b \in Allocations : status[b] = s /\ CurrencyOf(b) = c}
           B == {b \in Allocations : status'[b] = s /\ CurrencyOf(b) = c}
<1>1. /\ A \in SUBSET Allocations /\ B \in SUBSET Allocations /\ A \ {a} = B \ {a}
      /\ a \in A <=> status[a] = s /\ c = CurrencyOf(a)
      /\ a \in B <=> status'[a] = s /\ c = CurrencyOf(a)
  OBVIOUS
<1>2. AllocationCount(c, s) = Cardinality(A) /\ AllocationCount(c, s)' = Cardinality(B)
  BY DEF AllocationCount, CurrencyOf
<1> HIDE DEF A, B
<1>3. Cardinality(B) = Cardinality(A) + (BoolCount(a \in B) - BoolCount(a \in A))
  BY <1>1, FiniteTables, CountMoves
<1>4. BoolCount(a \in B) - BoolCount(a \in A)
         = Within(c = CurrencyOf(a), BoolCount(status'[a] = s) - BoolCount(status[a] = s))
  BY <1>1 DEF BoolCount, Within
<1> QED
  BY <1>2, <1>3, <1>4

\* A change of one grant's status moves the counts of its currency alone.
LEMMA GrantStatusMoves ==
    ASSUME NEW g \in Grants, NEW c \in Currencies, NEW s,
           \A h \in Grants \ {g} : grantStatus'[h] = grantStatus[h]
    PROVE  GrantCount(c, s)'
              = GrantCount(c, s)
                  + Within(c = Currency[g], BoolCount(grantStatus'[g] = s) - BoolCount(grantStatus[g] = s))
<1> DEFINE A == {h \in Grants : grantStatus[h] = s /\ Currency[h] = c}
           B == {h \in Grants : grantStatus'[h] = s /\ Currency[h] = c}
<1>1. /\ A \in SUBSET Grants /\ B \in SUBSET Grants /\ A \ {g} = B \ {g}
      /\ g \in A <=> grantStatus[g] = s /\ c = Currency[g]
      /\ g \in B <=> grantStatus'[g] = s /\ c = Currency[g]
  OBVIOUS
<1>2. GrantCount(c, s) = Cardinality(A) /\ GrantCount(c, s)' = Cardinality(B)
  BY DEF GrantCount
<1> HIDE DEF A, B
<1>3. Cardinality(B) = Cardinality(A) + (BoolCount(g \in B) - BoolCount(g \in A))
  BY <1>1, FiniteTables, CountMoves
<1>4. BoolCount(g \in B) - BoolCount(g \in A)
         = Within(c = Currency[g], BoolCount(grantStatus'[g] = s) - BoolCount(grantStatus[g] = s))
  BY <1>1 DEF BoolCount, Within
<1> QED
  BY <1>2, <1>3, <1>4

-----------------------------------------------------------------------------
(***************************************************************************)
(* What the code writes to the summaries, key by key                       *)
(***************************************************************************)
SummaryTypeOK ==
    /\ counts \in [CountKeys -> Int]
    /\ amounts \in [AmountNames \X Currencies -> Int]

\* The keys the operations count under are keys of the summaries.
LEMMA KeysAreKeys ==
    /\ \A c \in Currencies, s \in GrantStatuses : <<"grants", c, s>> \in CountKeys
    /\ \A c \in Currencies, s \in AllocationStatuses : <<"allocations", c, s>> \in CountKeys
    /\ \A c \in Currencies : <<"allocations_overdrawn", c, "">> \in CountKeys
    /\ \A n \in AmountNames, c \in Currencies : <<n, c>> \in AmountNames \X Currencies
    /\ \A g \in Grants : Currency[g] \in Currencies
    /\ \A a \in Allocations : CurrencyOf(a) \in Currencies /\ GrantOf[a] \in Grants
BY CurrencyAssumption, GrantOfAssumption DEF CountKeys, CurrencyOf

\* k is counts after a row of one kind and currency went from status old to status to.
Counted(k, kind, c, old, to) ==
    /\ k \in [CountKeys -> Int]
    /\ \A i \in CountKeys : k[i]
          = counts[i] + Within(i[1] = kind /\ i[2] = c, BoolCount(i[3] = to) - BoolCount(i[3] = old))

\* A column of summaries with d added at x.
LEMMA Adds ==
    ASSUME NEW D, NEW m \in [D -> Int], NEW x \in D, NEW d \in Int
    PROVE  /\ [m EXCEPT ![x] = @ + d] \in [D -> Int]
           /\ \A i \in D : [m EXCEPT ![x] = @ + d][i] = m[i] + Within(i = x, d)
BY DEF Within

IsKey(i, kind, c, s) == i[1] = kind /\ i[2] = c /\ i[3] = s

\* A key of the counts is its kind, its currency and its status.
LEMMA KeyParts ==
    ASSUME NEW kind, NEW c, NEW s, NEW x, x = <<kind, c, s>>
    PROVE  \A i \in CountKeys : i = x <=> IsKey(i, kind, c, s)
<1> TAKE i \in CountKeys
<1>0. ASSUME NEW K, NEW S, i \in K \X Currencies \X S PROVE i = <<i[1], i[2], i[3]>>
  BY <1>0
<1>1. i = <<i[1], i[2], i[3]>>
  BY <1>0 DEF CountKeys
<1>2. <<i[1], i[2], i[3]>> = <<kind, c, s>> <=> i[1] = kind /\ i[2] = c /\ i[3] = s
  OBVIOUS
<1> QED
  BY <1>1, <1>2 DEF IsKey

\* No count is kept of what is absent, and the count of overdrawn allocations
\* has no status.
LEMMA KeyStatuses ==
    ASSUME NEW i \in CountKeys
    PROVE  i[3] # "absent" /\ (i[1] = "allocations_overdrawn" => i[3] = "")
BY DEF CountKeys, GrantStatuses, AllocationStatuses

\* A change of status moves one unit from the old count to the new one.
LEMMA InventoryCounts ==
    ASSUME SummaryTypeOK, NEW kind, NEW c, NEW old, NEW to,
           <<kind, c, old>> \in CountKeys, <<kind, c, to>> \in CountKeys
    PROVE  Counted(Inventory(kind, c, old, to), kind, c, old, to)
<1> DEFINE x == <<kind, c, to>>
           y == <<kind, c, old>>
           k == Inventory(kind, c, old, to)
<1>1. \A i \in CountKeys : /\ i = x <=> IsKey(i, kind, c, to)
                           /\ i = y <=> IsKey(i, kind, c, old)
  BY KeyParts
<1>2. counts \in [CountKeys -> Int] /\ x \in CountKeys /\ y \in CountKeys
  BY DEF SummaryTypeOK
<1>3. CASE old = to
  <2>1. k = counts
    BY <1>2, <1>3 DEF Inventory
  <2>2. \A i \in CountKeys : counts[i] \in Int
    BY <1>2
  <2> QED
    BY <1>2, <1>3, <2>1, <2>2 DEF Counted, Within, BoolCount
<1>4. CASE old # to
  <2>1. x # y /\ k = [counts EXCEPT ![x] = @ + 1, ![y] = @ - 1]
    BY <1>4 DEF Inventory
  <2> HIDE DEF x, y, k
  <2>2. k \in [CountKeys -> Int]
        /\ \A i \in CountKeys : k[i] = counts[i] + (IF i = x THEN 1 ELSE IF i = y THEN -1 ELSE 0)
    BY <1>2, <2>1
  <2>3. ASSUME NEW i \in CountKeys
        PROVE  k[i] = counts[i] + Within(i[1] = kind /\ i[2] = c, BoolCount(i[3] = to) - BoolCount(i[3] = old))
    <3>1. (IF i = x THEN 1 ELSE IF i = y THEN -1 ELSE 0)
             = Within(i[1] = kind /\ i[2] = c, BoolCount(i[3] = to) - BoolCount(i[3] = old))
      BY <1>1, <1>4 DEF Within, BoolCount, IsKey
    <3> QED
      BY <2>2, <3>1
  <2>4. Counted(k, kind, c, old, to)
    BY <2>2, <2>3 DEF Counted
  <2> QED
    BY <2>4 DEF k
<1> QED
  BY <1>3, <1>4

\* A new row: before, its status was none that is counted.
LEMMA NewInventoryCounts ==
    ASSUME SummaryTypeOK, NEW kind, NEW c, NEW to, <<kind, c, to>> \in CountKeys
    PROVE  Counted(NewInventory(kind, c, to), kind, c, "absent", to)
<1> DEFINE x == <<kind, c, to>>
           k == NewInventory(kind, c, to)
<1>1. counts \in [CountKeys -> Int] /\ x \in CountKeys /\ 1 \in Int /\ k = [counts EXCEPT ![x] = @ + 1]
  BY DEF SummaryTypeOK, NewInventory
<1>2. \A i \in CountKeys : i[3] # "absent" /\ (i = x <=> IsKey(i, kind, c, to))
  <2>1. x = <<kind, c, to>>
    OBVIOUS
  <2> HIDE DEF x
  <2>2. \A i \in CountKeys : i = x <=> IsKey(i, kind, c, to)
    BY <2>1, KeyParts
  <2> QED
    BY <2>2, KeyStatuses
<1> HIDE DEF x, k
<1>3. k \in [CountKeys -> Int] /\ \A i \in CountKeys : k[i] = counts[i] + Within(i = x, 1)
  BY <1>1, Adds
<1>4. ASSUME NEW i \in CountKeys
      PROVE  Within(i = x, 1)
                = Within(i[1] = kind /\ i[2] = c, BoolCount(i[3] = to) - BoolCount(i[3] = "absent"))
  BY <1>2 DEF Within, BoolCount, IsKey
<1>5. Counted(k, kind, c, "absent", to)
  BY <1>3, <1>4 DEF Counted
<1> QED
  BY <1>5 DEF k

\* Counts left alone have counted nothing.
LEMMA SameCounts ==
    ASSUME SummaryTypeOK, NEW kind, NEW c, NEW s
    PROVE  Counted(counts, kind, c, s, s)
<1>1. \A i \in CountKeys : counts[i] \in Int
  BY DEF SummaryTypeOK
<1> QED
  BY <1>1 DEF Counted, Within, BoolCount, SummaryTypeOK

\* The count of overdrawn allocations moves when a balance crosses zero, and no
\* other count does.
LEMMA OverdrawnCounts ==
    ASSUME NEW m \in [CountKeys -> Int], NEW a \in Allocations, NEW old \in Int, NEW new \in Int
    PROVE  /\ OverdrawnCount(m, a, old, new) \in [CountKeys -> Int]
           /\ \A i \in CountKeys : OverdrawnCount(m, a, old, new)[i]
                 = m[i] + Within(i[1] = "allocations_overdrawn" /\ i[2] = CurrencyOf(a),
                                 BoolCount(new < 0) - BoolCount(old < 0))
<1> DEFINE x == <<"allocations_overdrawn", CurrencyOf(a), "">>
           d == BoolCount(new < 0) - BoolCount(old < 0)
           k == OverdrawnCount(m, a, old, new)
<1>1. x \in CountKeys
  BY KeysAreKeys
<1>2. k = [m EXCEPT ![x] = @ + d]
  BY DEF OverdrawnCount
<1>3. \A i \in CountKeys : i = x <=> i[1] = "allocations_overdrawn" /\ i[2] = CurrencyOf(a)
  <2> DEFINE kind == "allocations_overdrawn"
             c == CurrencyOf(a)
             s == ""
  <2>1. x = <<kind, c, s>>
    OBVIOUS
  <2> HIDE DEF x, kind, c, s
  <2>2. \A i \in CountKeys : i = x <=> IsKey(i, kind, c, s)
    BY <2>1, KeyParts
  <2> QED
    BY <2>2, KeyStatuses DEF IsKey, kind, c, s
<1>0. d \in Int
  BY DEF BoolCount
<1> HIDE DEF x, d, k
<1>4. k \in [CountKeys -> Int] /\ \A i \in CountKeys : k[i] = m[i] + Within(i = x, d)
  BY <1>0, <1>1, <1>2, Adds
<1>5. \A i \in CountKeys : Within(i = x, d)
         = Within(i[1] = "allocations_overdrawn" /\ i[2] = CurrencyOf(a), d)
  BY <1>3 DEF Within
<1>6. \A i \in CountKeys : k[i]
         = m[i] + Within(i[1] = "allocations_overdrawn" /\ i[2] = CurrencyOf(a), d)
  BY <1>4, <1>5
<1> QED
  BY <1>4, <1>6 DEF d, k

\* An available balance that stays does not move the number of debts.
LEMMA SameOverdrawn ==
    ASSUME NEW m \in [CountKeys -> Int], NEW a \in Allocations, NEW old \in Int
    PROVE  OverdrawnCount(m, a, old, old) = m
<1> DEFINE x == <<"allocations_overdrawn", CurrencyOf(a), "">>
           d == BoolCount(old < 0) - BoolCount(old < 0)
<1>1. d = 0 /\ OverdrawnCount(m, a, old, old) = [m EXCEPT ![x] = @ + d]
  BY DEF BoolCount, OverdrawnCount
<1>2. x \in CountKeys
  BY KeysAreKeys
<1> HIDE DEF x, d
<1> QED
  BY <1>1, <1>2

\* A key of the amounts is its name and its currency.
LEMMA AmountKeys ==
    ASSUME NEW n \in AmountNames, NEW c \in Currencies, NEW i \in AmountNames, NEW d \in Currencies
    PROVE  /\ <<n, c>> \in AmountNames \X Currencies
           /\ <<n, c>> = <<i, d>> <=> n = i /\ c = d
OBVIOUS

\* k is m after one amount of one currency moved by d; after the available balance of
\* an allocation went from old to new.
Moved(k, m, name, currency, d) ==
    /\ k \in [AmountNames \X Currencies -> Int]
    /\ \A n \in AmountNames, c \in Currencies :
          k[<<n, c>>] = m[<<n, c>>] + Within(n = name /\ c = currency, d)

MovedAvailable(k, m, currency, old, new) ==
    /\ k \in [AmountNames \X Currencies -> Int]
    /\ \A n \in AmountNames, c \in Currencies : k[<<n, c>>]
          = m[<<n, c>>] + Within(n = "allocation_available" /\ c = currency, new - old)
                        + Within(n = "allocation_overdraw" /\ c = currency, Overdraw(new) - Overdraw(old))

\* A change of a grant's pool moves the unallocated amount of its currency and
\* no other.
LEMMA PoolAmounts ==
    ASSUME SummaryTypeOK, NEW g \in Grants, NEW d \in Int
    PROVE  Moved(PoolDelta(g, d), amounts, "grant_unallocated", Currency[g], d)
<1> DEFINE x == <<"grant_unallocated", Currency[g]>>
           m == PoolDelta(g, d)
<1>1. "grant_unallocated" \in AmountNames /\ Currency[g] \in Currencies
  BY KeysAreKeys DEF AmountNames
<1>2. /\ x \in AmountNames \X Currencies
      /\ \A n \in AmountNames, c \in Currencies : /\ <<n, c>> \in AmountNames \X Currencies
            /\ <<n, c>> = x <=> n = "grant_unallocated" /\ c = Currency[g]
  BY <1>1, AmountKeys
<1>3. m = [amounts EXCEPT ![x] = @ + d] /\ amounts \in [AmountNames \X Currencies -> Int]
  BY DEF PoolDelta, SummaryTypeOK
<1> HIDE DEF x, m
<1>4. /\ m \in [AmountNames \X Currencies -> Int]
      /\ \A i \in AmountNames \X Currencies : m[i] = amounts[i] + Within(i = x, d)
  BY <1>2, <1>3, Adds
<1>5. \A n \in AmountNames, c \in Currencies :
         m[<<n, c>>] = amounts[<<n, c>>] + Within(n = "grant_unallocated" /\ c = Currency[g], d)
  BY <1>2, <1>4 DEF Within
<1>6. Moved(m, amounts, "grant_unallocated", Currency[g], d)
  BY <1>4, <1>5 DEF Moved
<1> QED
  BY <1>6 DEF m

\* A change of an available balance moves the available amount and the debt of
\* its currency.
LEMMA AvailableAmountsMove ==
    ASSUME NEW m \in [AmountNames \X Currencies -> Int], NEW a \in Allocations,
           NEW old \in Int, NEW new \in Int
    PROVE  MovedAvailable(AvailableAmounts(m, a, old, new), m, CurrencyOf(a), old, new)
<1> DEFINE x == <<"allocation_available", CurrencyOf(a)>>
           y == <<"allocation_overdraw", CurrencyOf(a)>>
           u == new - old
           v == Overdraw(new) - Overdraw(old)
           d == AvailableAmounts(m, a, old, new)
<1>1. /\ "allocation_available" \in AmountNames /\ "allocation_overdraw" \in AmountNames
      /\ CurrencyOf(a) \in Currencies
  BY KeysAreKeys DEF AmountNames
<1>2. u \in Int /\ v \in Int
  BY DEF Overdraw
<1>3. /\ x \in AmountNames \X Currencies /\ y \in AmountNames \X Currencies
      /\ \A n \in AmountNames, c \in Currencies :
            /\ <<n, c>> \in AmountNames \X Currencies
            /\ <<n, c>> = x <=> n = "allocation_available" /\ c = CurrencyOf(a)
            /\ <<n, c>> = y <=> n = "allocation_overdraw" /\ c = CurrencyOf(a)
  BY <1>1, AmountKeys
<1>4. x # y
  OBVIOUS
<1>5. d = [m EXCEPT ![x] = @ + u, ![y] = @ + v]
  BY DEF AvailableAmounts
<1> HIDE DEF x, y, u, v, d
<1>6. /\ d \in [AmountNames \X Currencies -> Int]
      /\ \A k \in AmountNames \X Currencies :
            d[k] = m[k] + Within(k = x, u) + Within(k = y, v)
  BY <1>2, <1>3, <1>4, <1>5 DEF Within
<1>7. \A n \in AmountNames, c \in Currencies :
         d[<<n, c>>] = m[<<n, c>>] + Within(n = "allocation_available" /\ c = CurrencyOf(a), u)
                                   + Within(n = "allocation_overdraw" /\ c = CurrencyOf(a), v)
  BY <1>3, <1>6 DEF Within
<1>8. MovedAvailable(d, m, CurrencyOf(a), old, new)
  BY <1>6, <1>7 DEF MovedAvailable, u, v
<1> QED
  BY <1>8 DEF d

\* A charge moves the spent amount of its currency and no other.
LEMMA SpentAmountsMove ==
    ASSUME NEW m \in [AmountNames \X Currencies -> Int], NEW a \in Allocations, NEW d \in Int
    PROVE  Moved(SpentAmounts(m, a, d), m, "allocation_spent", CurrencyOf(a), d)
<1> DEFINE x == <<"allocation_spent", CurrencyOf(a)>>
           k == SpentAmounts(m, a, d)
<1>1. "allocation_spent" \in AmountNames /\ CurrencyOf(a) \in Currencies
  BY KeysAreKeys DEF AmountNames
<1>2. /\ x \in AmountNames \X Currencies
      /\ \A n \in AmountNames, c \in Currencies : /\ <<n, c>> \in AmountNames \X Currencies
            /\ <<n, c>> = x <=> n = "allocation_spent" /\ c = CurrencyOf(a)
  BY <1>1, AmountKeys
<1>3. k = [m EXCEPT ![x] = @ + d]
  BY DEF SpentAmounts
<1> HIDE DEF x, k
<1>4. /\ k \in [AmountNames \X Currencies -> Int]
      /\ \A i \in AmountNames \X Currencies : k[i] = m[i] + Within(i = x, d)
  BY <1>2, <1>3, Adds
<1>5. \A n \in AmountNames, c \in Currencies :
         k[<<n, c>>] = m[<<n, c>>] + Within(n = "allocation_spent" /\ c = CurrencyOf(a), d)
  BY <1>2, <1>4 DEF Within
<1>6. Moved(k, m, "allocation_spent", CurrencyOf(a), d)
  BY <1>4, <1>5 DEF Moved
<1> QED
  BY <1>6 DEF k

-----------------------------------------------------------------------------
(***************************************************************************)
(* The summaries follow a step that changes one allocation, and its pool.  *)
(***************************************************************************)
LEMMA CountsAreInts ==
    ASSUME NEW c \in Currencies, NEW s
    PROVE  GrantCount(c, s) \in Int /\ AllocationCount(c, s) \in Int /\ DebtorCount(c) \in Int
<1>1. ASSUME NEW S, IsFiniteSet(S), NEW T \in SUBSET S PROVE Cardinality(T) \in Int
  <2>1. IsFiniteSet(T)
    BY <1>1, FS_Subset
  <2>2. Cardinality(T) \in Nat
    BY <2>1, FS_CardinalityType
  <2> QED
    BY <2>2
<1> DEFINE G == {g \in Grants : grantStatus[g] = s /\ Currency[g] = c}
           A == {a \in Allocations : status[a] = s /\ CurrencyOf(a) = c}
           D == {a \in Allocations : balance[Available(a)] < 0 /\ CurrencyOf(a) = c}
<1>2. G \in SUBSET Grants /\ A \in SUBSET Allocations /\ D \in SUBSET Allocations
  OBVIOUS
<1> HIDE DEF G, A, D
<1>3. Cardinality(G) \in Int /\ Cardinality(A) \in Int /\ Cardinality(D) \in Int
  BY <1>1, <1>2, FiniteTables
<1> QED
  BY <1>3 DEF GrantCount, AllocationCount, DebtorCount, G, A, D

\* After a change of one allocation the counts are again those of the rows.
LEMMA CountsFollow ==
    ASSUME TypeOK, TypeOK', CountsMatch, NEW a \in Allocations,
           \A b \in Allocations \ {a} : /\ status'[b] = status[b]
                                        /\ balance'[Available(b)] = balance[Available(b)],
           UNCHANGED grantStatus,
           NEW old, old = balance[Available(a)], NEW new, new = balance'[Available(a)],
           NEW s, s = status[a], NEW t, t = status'[a],
           NEW k, Counted(k, "allocations", CurrencyOf(a), s, t),
           counts' = OverdrawnCount(k, a, old, new)
    PROVE  CountsMatch'
<1> DEFINE by == BoolCount(new < 0) - BoolCount(old < 0)
           d == CurrencyOf(a)
<1>1. old \in Int /\ new \in Int
  BY AccountsDiffer DEF TypeOK
<1>2. by \in Int
  BY DEF BoolCount
<1>3. \A i \in CountKeys : counts'[i] = k[i] + Within(i[1] = "allocations_overdrawn" /\ i[2] = d, by)
  BY <1>1, OverdrawnCounts DEF Counted
<1>4. \A i \in CountKeys : /\ k[i] \in Int
                           /\ k[i] = counts[i] + Within(i[1] = "allocations" /\ i[2] = d,
                                                        BoolCount(i[3] = t) - BoolCount(i[3] = s))
  BY DEF Counted
<1> SUFFICES ASSUME NEW c \in Currencies
             PROVE  /\ \A u \in GrantStatuses : counts'[<<"grants", c, u>>] = GrantCount(c, u)'
                    /\ \A u \in AllocationStatuses : counts'[<<"allocations", c, u>>] = AllocationCount(c, u)'
                    /\ counts'[<<"allocations_overdrawn", c, "">>] = DebtorCount(c)'
  BY DEF CountsMatch
<1>5. ASSUME NEW u \in GrantStatuses PROVE counts'[<<"grants", c, u>>] = GrantCount(c, u)'
  <2> DEFINE i == <<"grants", c, u>>
  <2>1. i \in CountKeys /\ i[1] # "allocations" /\ i[1] # "allocations_overdrawn"
    BY KeysAreKeys
  <2>2. counts[i] = GrantCount(c, u) /\ GrantCount(c, u) \in Int
    BY CountsAreInts DEF CountsMatch
  <2>3. GrantCount(c, u)' = GrantCount(c, u)
    BY DEF GrantCount
  <2> HIDE DEF i, by
  <2>4. k[i] = counts[i] + 0
    BY <1>4, <2>1 DEF Within
  <2>5. counts'[i] = k[i] + 0
    BY <1>3, <2>1 DEF Within
  <2>6. counts'[i] = counts[i]
    BY <2>2, <2>4, <2>5
  <2> QED
    BY <2>2, <2>3, <2>6 DEF i
<1>6. ASSUME NEW u \in AllocationStatuses
      PROVE  counts'[<<"allocations", c, u>>] = AllocationCount(c, u)'
  <2> DEFINE i == <<"allocations", c, u>>
             m == BoolCount(t = u) - BoolCount(s = u)
  <2>1. i \in CountKeys /\ i[1] = "allocations" /\ i[2] = c /\ i[3] = u
    BY KeysAreKeys
  <2>2. counts[i] = AllocationCount(c, u) /\ AllocationCount(c, u) \in Int
    BY CountsAreInts DEF CountsMatch
  <2>3. AllocationCount(c, u)' = AllocationCount(c, u) + Within(c = d, m)
    <3> HIDE DEF i
    <3>1. \A b \in Allocations \ {a} : status'[b] = status[b]
      OBVIOUS
    <3> QED
      BY <3>1, AllocationStatusMoves
  <2>4. BoolCount(i[3] = t) - BoolCount(i[3] = s) = m
    BY <2>1 DEF BoolCount
  <2> HIDE DEF i, by, m
  <2>5. k[i] = counts[i] + Within(c = d, m)
    BY <1>4, <2>1, <2>4 DEF Within
  <2>6. counts'[i] = k[i] + 0 /\ k[i] \in Int
    BY <1>3, <1>4, <2>1 DEF Within
  <2>7. counts'[i] = k[i]
    BY <2>6
  <2> QED
    BY <2>2, <2>3, <2>5, <2>7 DEF i
<1>7. counts'[<<"allocations_overdrawn", c, "">>] = DebtorCount(c)'
  <2> DEFINE i == <<"allocations_overdrawn", c, "">>
  <2>1. i \in CountKeys /\ i[1] = "allocations_overdrawn" /\ i[2] = c
    BY KeysAreKeys
  <2>2. counts[i] = DebtorCount(c) /\ DebtorCount(c) \in Int
    BY CountsAreInts DEF CountsMatch
  <2>3. DebtorCount(c)' = DebtorCount(c) + Within(c = d, by)
    <3> HIDE DEF i
    <3>1. \A b \in Allocations \ {a} : balance'[Available(b)] = balance[Available(b)]
      OBVIOUS
    <3> QED
      BY <3>1, AvailableMoves
  <2> HIDE DEF i, by
  <2>4. k[i] = counts[i] + 0
    BY <1>4, <2>1 DEF Within
  <2>5. counts'[i] = k[i] + Within(c = d, by)
    BY <1>3, <2>1 DEF Within
  <2>6. k[i] = counts[i]
    BY <2>2, <2>4
  <2> QED
    BY <2>2, <2>3, <2>5, <2>6 DEF i
<1> QED
  BY <1>5, <1>6, <1>7

\* After a change of one allocation's balances the amounts are again the totals
\* of the balances.
LEMMA AmountsFollow ==
    ASSUME TypeOK, TypeOK', AmountsMatch, NEW a \in Allocations,
           \A b \in Allocations \ {a} : /\ balance'[Available(b)] = balance[Available(b)]
                                        /\ balance'[Spent(b)] = balance[Spent(b)],
           \A g \in Grants \ {GrantOf[a]} : balance'[Unallocated(g)] = balance[Unallocated(g)],
           NEW old, old = balance[Available(a)], NEW new, new = balance'[Available(a)],
           NEW p, p = balance'[Unallocated(GrantOf[a])] - balance[Unallocated(GrantOf[a])],
           NEW n, n = balance'[Spent(a)] - balance[Spent(a)],
           \A c \in Currencies :
              /\ amounts'[<<"grant_unallocated", c>>]
                    = amounts[<<"grant_unallocated", c>>] + Within(c = CurrencyOf(a), p)
              /\ amounts'[<<"allocation_available", c>>]
                    = amounts[<<"allocation_available", c>>] + Within(c = CurrencyOf(a), new - old)
              /\ amounts'[<<"allocation_spent", c>>]
                    = amounts[<<"allocation_spent", c>>] + Within(c = CurrencyOf(a), n)
              /\ amounts'[<<"allocation_overdraw", c>>]
                    = amounts[<<"allocation_overdraw", c>>]
                        + Within(c = CurrencyOf(a), Overdraw(new) - Overdraw(old))
    PROVE  AmountsMatch'
<1> SUFFICES ASSUME NEW c \in Currencies
             PROVE  /\ amounts'[<<"grant_unallocated", c>>] = GrantTotal(PoolUnits, c)'
                    /\ amounts'[<<"allocation_available", c>>] = AllocationTotal(AvailableUnits, c)'
                    /\ amounts'[<<"allocation_spent", c>>] = AllocationTotal(SpentUnits, c)'
                    /\ amounts'[<<"allocation_overdraw", c>>] = AllocationTotal(Debts, c)'
  BY DEF AmountsMatch
<1>1. /\ amounts[<<"grant_unallocated", c>>] = GrantTotal(PoolUnits, c)
      /\ amounts[<<"allocation_available", c>>] = AllocationTotal(AvailableUnits, c)
      /\ amounts[<<"allocation_spent", c>>] = AllocationTotal(SpentUnits, c)
      /\ amounts[<<"allocation_overdraw", c>>] = AllocationTotal(Debts, c)
  BY DEF AmountsMatch
<1>2. /\ AllocationTotal(AvailableUnits, c)'
            = AllocationTotal(AvailableUnits, c) + Within(c = CurrencyOf(a), new - old)
      /\ AllocationTotal(Debts, c)'
            = AllocationTotal(Debts, c) + Within(c = CurrencyOf(a), Overdraw(new) - Overdraw(old))
  BY AvailableMoves
<1>3. AllocationTotal(SpentUnits, c)' = AllocationTotal(SpentUnits, c) + Within(c = CurrencyOf(a), n)
  BY SpentMoves
<1>4. GrantTotal(PoolUnits, c)' = GrantTotal(PoolUnits, c) + Within(c = CurrencyOf(a), p)
  <2>1. PICK g \in Grants : g = GrantOf[a]
    BY KeysAreKeys
  <2>2. \A h \in Grants \ {g} : balance'[Unallocated(h)] = balance[Unallocated(h)]
    BY <2>1
  <2>3. GrantTotal(PoolUnits, c)'
           = GrantTotal(PoolUnits, c)
               + Within(c = Currency[g], balance'[Unallocated(g)] - balance[Unallocated(g)])
    BY <2>2, PoolMoves
  <2> QED
    BY <2>1, <2>3 DEF CurrencyOf
<1> QED
  BY <1>1, <1>2, <1>3, <1>4

\* After a change of one available balance the overdrawn rows are again those
\* of the balances below zero.
LEMMA RowsFollow ==
    ASSUME TypeOK, TypeOK', RowsMatch, NEW a \in Allocations,
           \A b \in Allocations \ {a} : balance'[Available(b)] = balance[Available(b)],
           overdrawn' = OverdrawnRows(a, balance[Available(a)], balance'[Available(a)])
    PROVE  RowsMatch'
<1> SUFFICES ASSUME NEW b \in Allocations
             PROVE  IF balance'[Available(b)] < 0
                      THEN b \in DOMAIN overdrawn' /\ overdrawn'[b] = balance'[Available(b)]
                      ELSE b \notin DOMAIN overdrawn'
  BY DEF RowsMatch, Available
<1>1. IF balance[Available(b)] < 0
        THEN b \in DOMAIN overdrawn /\ overdrawn[b] = balance[Available(b)]
        ELSE b \notin DOMAIN overdrawn
  BY DEF RowsMatch
<1>2. CASE b = a
  BY <1>1, <1>2 DEF OverdrawnRows, WithRow, Restrict
<1>3. CASE b # a
  BY <1>1, <1>3 DEF OverdrawnRows, WithRow, Restrict
<1> QED
  BY <1>2, <1>3

-----------------------------------------------------------------------------
\* A grant that does not exist has no units and no allocations.
RowsNeedGrants ==
    /\ \A g \in Grants : grantStatus[g] = "absent" => balance[Unallocated(g)] = 0
    /\ \A a \in Allocations : status[a] # "absent" => grantStatus[GrantOf[a]] # "absent"

MetricInv ==
    /\ BudgetInv
    /\ RowsNeedGrants
    /\ SummaryTypeOK
    /\ SummariesMatchTables

\* Before the migration the summaries have nothing to agree with.
LEMMA MetricInit == MInit => MetricInv
<1> SUFFICES ASSUME MInit PROVE MetricInv
  OBVIOUS
<1>1. BudgetInv
  BY BudgetInit DEF MInit
<1>2. RowsNeedGrants
  BY AccountsDiffer DEF RowsNeedGrants, MInit, Init
<1>3. SummaryTypeOK
  BY DEF SummaryTypeOK, MInit, NoCounts, NoAmounts
<1>4. \A c \in Currencies :
         /\ \A s \in GrantStatuses : GrantCount(c, s) = 0
         /\ \A s \in AllocationStatuses : AllocationCount(c, s) = 0
         /\ DebtorCount(c) = 0
  <2> TAKE c \in Currencies
  <2>1. ASSUME NEW s \in GrantStatuses PROVE GrantCount(c, s) = 0
    <3>1. {g \in Grants : grantStatus[g] = s /\ Currency[g] = c} = {}
      BY DEF MInit, Init, GrantStatuses
    <3> QED
      BY <3>1, FS_EmptySet DEF GrantCount
  <2>2. ASSUME NEW s \in AllocationStatuses PROVE AllocationCount(c, s) = 0
    <3>1. {a \in Allocations : status[a] = s /\ CurrencyOf(a) = c} = {}
      BY DEF MInit, Init, AllocationStatuses
    <3> QED
      BY <3>1, FS_EmptySet DEF AllocationCount
  <2>3. DebtorCount(c) = 0
    <3>1. {a \in Allocations : balance[Available(a)] < 0 /\ CurrencyOf(a) = c} = {}
      BY AccountsDiffer DEF MInit, Init
    <3> QED
      BY <3>1, FS_EmptySet DEF DebtorCount
  <2> QED
    BY <2>1, <2>2, <2>3
<1>5. CountsMatch
  BY <1>4, KeysAreKeys DEF CountsMatch, MInit, NoCounts
<1>6. \A c \in Currencies : /\ GrantTotal(PoolUnits, c) = 0
                            /\ AllocationTotal(AvailableUnits, c) = 0
                            /\ AllocationTotal(SpentUnits, c) = 0
                            /\ AllocationTotal(Debts, c) = 0
  <2> TAKE c \in Currencies
  <2> DEFINE G == {g \in Grants : Currency[g] = c}
             A == {a \in Allocations : CurrencyOf(a) = c}
  <2>1. IsFiniteSet(G) /\ IsFiniteSet(A)
    BY FiniteTables, FS_Subset
  <2>2. (\A g \in G : PoolUnits[g] = 0) /\ (\A a \in A : AvailableUnits[a] = 0)
        /\ (\A a \in A : SpentUnits[a] = 0) /\ (\A a \in A : Debts[a] = 0)
    BY AccountsDiffer DEF MInit, Init, PoolUnits, AvailableUnits, SpentUnits, Debts, Overdraw
  <2>3. ASSUME NEW S, IsFiniteSet(S), NEW f, \A x \in S : f[x] = 0
        PROVE  SumFunctionOnSet(f, S) = 0
    <3>1. \A x \in S : f[x] \in Int
      BY <2>3
    <3>2. {} \in SUBSET S /\ \A x \in S \ {} : f[x] = 0
      BY <2>3
    <3>3. SumFunctionOnSet(f, S) = SumFunctionOnSet(f, {})
      BY <2>3, <3>1, <3>2, SumSkipsZeros
    <3> QED
      BY <2>3, <3>1, <3>3, SumOfInts
  <2> HIDE DEF G, A
  <2>4. SumFunctionOnSet(PoolUnits, G) = 0 /\ SumFunctionOnSet(AvailableUnits, A) = 0
        /\ SumFunctionOnSet(SpentUnits, A) = 0 /\ SumFunctionOnSet(Debts, A) = 0
    BY <2>1, <2>2, <2>3
  <2> QED
    BY <2>4 DEF GrantTotal, AllocationTotal, G, A
<1>7. AmountsMatch
  BY <1>6, KeysAreKeys DEF AmountsMatch, AmountNames, MInit, NoAmounts
<1>8. RowsMatch
  BY AccountsDiffer DEF RowsMatch, MInit, Init
<1> QED
  BY <1>1, <1>2, <1>3, <1>5, <1>7, <1>8 DEF MetricInv, SummariesMatchTables

-----------------------------------------------------------------------------
\* No operation leaves an allocation open without its grant.
LEMMA RowsNeedGrantsStep ==
    ASSUME BudgetInv, RowsNeedGrants, [Next]_vars
    PROVE  RowsNeedGrants'
<1> USE AmountsAreNat DEF RowsNeedGrants
<1>0. TypeOK
  BY DEF BudgetInv
<1>1. ASSUME NEW g \in Grants, NEW n \in Nat,
             balance' = Transfer(FundingSource(g), Unallocated(g), n),
             grantStatus'[g] # "absent", \A h \in Grants \ {g} : grantStatus'[h] = grantStatus[h],
             grantStatus[g] # "absent" \/ \A a \in Allocations : GrantOf[a] = g => status[a] = "absent",
             UNCHANGED status
      PROVE  RowsNeedGrants'
  <2>1. FundingSource(g) \in Accounts /\ Unallocated(g) \in Accounts /\ n \in Int
    BY AccountsDiffer
  <2>2. \A z \in Accounts \ {FundingSource(g), Unallocated(g)} : balance'[z] = balance[z]
    BY <1>0, <1>1, <2>1, AccountsDiffer, TransferMoves
  <2>3. \A h \in Grants \ {g} : balance'[Unallocated(h)] = balance[Unallocated(h)]
    BY <2>2, AccountsDiffer
  <2> QED
    BY <1>1, <2>3, GrantOfAssumption
<1>2. ASSUME NEW g \in Grants, NEW s \in GrantStatuses, NEW n \in Amounts, CreateGrant(g, s, n)
      PROVE  RowsNeedGrants'
  BY <1>0, <1>1, <1>2 DEF CreateGrant, TypeOK, allocationVars
<1>3. ASSUME NEW g \in Grants, NEW n \in Amounts, FundGrant(g, n)
      PROVE  RowsNeedGrants'
  BY <1>0, <1>1, <1>3 DEF FundGrant, GrantOpen, GrantStatuses, TypeOK, allocationVars
<1>4. ASSUME NEW g \in Grants, NEW s \in GrantStatuses, SetGrantStatus(g, s)
      PROVE  RowsNeedGrants'
  BY <1>0, <1>4, GrantOfAssumption DEF SetGrantStatus, GrantStatuses, TypeOK, allocationVars
<1>5. ASSUME NEW a \in Allocations, grantStatus[GrantOf[a]] # "absent",
             \A z \in Accounts \ {Pool(a), Available(a), Spent(a)} : balance'[z] = balance[z],
             \A b \in Allocations \ {a} : status'[b] = status[b],
             UNCHANGED grantStatus
      PROVE  RowsNeedGrants'
  <2>1. \A h \in Grants \ {GrantOf[a]} : balance'[Unallocated(h)] = balance[Unallocated(h)]
    BY <1>5, GrantOfAssumption, AccountsDiffer DEF Pool
  <2> QED
    BY <1>5, <2>1
<1>6. ASSUME NEW a \in Allocations, NEW s \in AllocationStatuses,
             NEW r \in Amounts \cup {All}, CreateAllocation(a, s, r)
      PROVE  RowsNeedGrants'
  <2> DEFINE n == AllocationAmount(r, balance[Pool(a)])
  <2>1. n \in Int /\ balance' = Transfer(Pool(a), Available(a), n)
    BY <1>6, AllocationAmountIsNat DEF CreateAllocation, Pool
  <2> HIDE DEF n
  <2>2. \A z \in Accounts \ {Pool(a), Available(a)} : balance'[z] = balance[z]
    BY <2>1, PoolTransferMoves
  <2> QED
    BY <1>0, <1>5, <1>6, <2>2 DEF CreateAllocation, GrantOpen, GrantStatuses, TypeOK, grantVars
<1>7. ASSUME NEW a \in Allocations, NEW r \in Amounts \cup {All}, FundAllocation(a, r)
      PROVE  RowsNeedGrants'
  <2> DEFINE n == AllocationAmount(r, balance[Pool(a)])
  <2>1. n \in Int /\ balance' = Transfer(Pool(a), Available(a), n)
    BY <1>7, AllocationAmountIsNat DEF FundAllocation, Pool
  <2> HIDE DEF n
  <2>2. \A z \in Accounts \ {Pool(a), Available(a)} : balance'[z] = balance[z]
    BY <2>1, PoolTransferMoves
  <2> QED
    BY <1>0, <1>5, <1>7, <2>2 DEF FundAllocation, GrantOpen, GrantStatuses, TypeOK, grantVars
<1>8. ASSUME NEW a \in Allocations, NEW s \in AllocationStatuses, SetAllocationStatus(a, s)
      PROVE  RowsNeedGrants'
  BY <1>0, <1>8 DEF SetAllocationStatus, AllocationStatuses, TypeOK, grantVars
<1>9. ASSUME NEW a \in Allocations, Revoke(a)
      PROVE  RowsNeedGrants'
  <2> DEFINE n == Returned(balance[Available(a)])
  <2>1. n \in Int /\ balance' = Transfer(Available(a), Pool(a), n)
    BY <1>9, PoolTransferMoves DEF Revoke, Pool, Returned
  <2> HIDE DEF n
  <2>2. \A z \in Accounts \ {Pool(a), Available(a)} : balance'[z] = balance[z]
    BY <2>1, ReturnMoves
  <2> QED
    BY <1>0, <1>5, <1>9, <2>2 DEF Revoke, AllocationStatuses, TypeOK, grantVars
<1>10. ASSUME NEW a \in Allocations, NEW n \in Amounts, Charge(a, n)
      PROVE  RowsNeedGrants'
  <2>1. Available(a) \in Accounts /\ Spent(a) \in Accounts /\ n \in Int
    BY AccountsDiffer
  <2>2. \A z \in Accounts \ {Available(a), Spent(a)} : balance'[z] = balance[z]
    BY <1>0, <1>10, <2>1, AccountsDiffer, TransferMoves DEF Charge
  <2> QED
    BY <1>0, <1>5, <1>10, <2>2 DEF Charge, TypeOK, grantVars
<1>11. CASE UNCHANGED vars
  BY <1>11 DEF vars
<1> QED
  BY <1>2, <1>3, <1>4, <1>6, <1>7, <1>8, <1>9, <1>10, <1>11 DEF Next, Management, Usage

-----------------------------------------------------------------------------
(***************************************************************************)
(* Every step keeps the summaries: grants, transfers between a pool and an *)
(* allocation, usage, and the migration.                                   *)
(***************************************************************************)
Summarises == SummaryTypeOK' /\ CountsMatch' /\ AmountsMatch' /\ RowsMatch'

\* A grant's row and its pool change, and no allocation.
LEMMA GrantSummarised ==
    ASSUME MetricInv, migrated, TypeOK', NEW g \in Grants, NEW n \in Int,
           \A h \in Grants \ {g} : /\ grantStatus'[h] = grantStatus[h]
                                   /\ balance'[Unallocated(h)] = balance[Unallocated(h)],
           balance'[Unallocated(g)] = balance[Unallocated(g)] + n,
           \A a \in Allocations : /\ balance'[Available(a)] = balance[Available(a)]
                                  /\ balance'[Spent(a)] = balance[Spent(a)],
           UNCHANGED status,
           NEW s, s = grantStatus[g], NEW t, t = grantStatus'[g],
           Counted(counts', "grants", Currency[g], s, t),
           amounts' = PoolDelta(g, n), UNCHANGED overdrawn
    PROVE  Summarises
<1>1. TypeOK /\ SummaryTypeOK /\ CountsMatch /\ AmountsMatch /\ RowsMatch
  BY DEF MetricInv, BudgetInv, SummariesMatchTables
<1>12. Moved(amounts', amounts, "grant_unallocated", Currency[g], n)
  BY <1>1, PoolAmounts
<1>2. SummaryTypeOK'
  BY <1>12 DEF SummaryTypeOK, Counted, Moved
<1>3. RowsMatch'
  BY <1>1 DEF RowsMatch, Available
<1>4. /\ AvailableUnits' = AvailableUnits /\ SpentUnits' = SpentUnits /\ Debts' = Debts
      /\ \A c \in Currencies, u \in AllocationStatuses : AllocationCount(c, u)' = AllocationCount(c, u)
      /\ \A c \in Currencies : DebtorCount(c)' = DebtorCount(c)
  <2>1. AvailableUnits' = AvailableUnits /\ SpentUnits' = SpentUnits /\ Debts' = Debts
    BY DEF AvailableUnits, SpentUnits, Debts, Available, Spent
  <2>2. ASSUME NEW c \in Currencies PROVE DebtorCount(c)' = DebtorCount(c)
    <3>1. {a \in Allocations : balance'[Available(a)] < 0 /\ CurrencyOf(a) = c}
             = {a \in Allocations : balance[Available(a)] < 0 /\ CurrencyOf(a) = c}
      OBVIOUS
    <3> QED
      BY <3>1 DEF DebtorCount, CurrencyOf, Available
  <2> QED
    BY <2>1, <2>2 DEF AllocationCount, CurrencyOf
<1>5. ASSUME NEW c \in Currencies
      PROVE  /\ amounts'[<<"grant_unallocated", c>>] = GrantTotal(PoolUnits, c)'
             /\ amounts'[<<"allocation_available", c>>] = AllocationTotal(AvailableUnits, c)'
             /\ amounts'[<<"allocation_spent", c>>] = AllocationTotal(SpentUnits, c)'
             /\ amounts'[<<"allocation_overdraw", c>>] = AllocationTotal(Debts, c)'
  <2>1. amounts'[<<"grant_unallocated", c>>]
           = amounts[<<"grant_unallocated", c>>] + Within(c = Currency[g], n)
        /\ \A name \in AmountNames \ {"grant_unallocated"} : amounts'[<<name, c>>] = amounts[<<name, c>>]
    <3>1. \A name \in AmountNames : amounts'[<<name, c>>]
             = amounts[<<name, c>>] + Within(name = "grant_unallocated" /\ c = Currency[g], n)
      BY <1>12 DEF Moved
    <3>2. \A name \in AmountNames : amounts[<<name, c>>] \in Int
      BY <1>1 DEF SummaryTypeOK
    <3> QED
      BY <3>1, <3>2 DEF Within, AmountNames
  <2>2. GrantTotal(PoolUnits, c)' = GrantTotal(PoolUnits, c) + Within(c = Currency[g], n)
    <3>1. PICK p \in Int : p = balance[Unallocated(g)]
      BY <1>1, AccountsDiffer DEF TypeOK
    <3>2. balance'[Unallocated(g)] - balance[Unallocated(g)] = n
      BY <3>1
    <3> QED
      BY <1>1, <3>2, PoolMoves
  <2>3. AllocationTotal(AvailableUnits, c)' = AllocationTotal(AvailableUnits, c)
        /\ AllocationTotal(SpentUnits, c)' = AllocationTotal(SpentUnits, c)
        /\ AllocationTotal(Debts, c)' = AllocationTotal(Debts, c)
    BY <1>4 DEF AllocationTotal, CurrencyOf
  <2> QED
    BY <1>1, <2>1, <2>2, <2>3 DEF AmountsMatch, AmountNames
<1> DEFINE d == Currency[g]
<1>6. \A i \in CountKeys : counts'[i]
         = counts[i] + Within(i[1] = "grants" /\ i[2] = d, BoolCount(i[3] = t) - BoolCount(i[3] = s))
  BY DEF Counted
<1>7. ASSUME NEW c \in Currencies, NEW u \in GrantStatuses
      PROVE  counts'[<<"grants", c, u>>] = GrantCount(c, u)'
  <2> DEFINE i == <<"grants", c, u>>
             m == BoolCount(t = u) - BoolCount(s = u)
  <2>1. i \in CountKeys /\ i[1] = "grants" /\ i[2] = c /\ i[3] = u
    BY KeysAreKeys
  <2>2. counts[i] = GrantCount(c, u)
    BY <1>1 DEF CountsMatch
  <2>3. GrantCount(c, u)' = GrantCount(c, u) + Within(c = d, m)
    <3> HIDE DEF i
    <3>1. \A h \in Grants \ {g} : grantStatus'[h] = grantStatus[h]
      OBVIOUS
    <3> QED
      BY <3>1, GrantStatusMoves
  <2>4. BoolCount(i[3] = t) - BoolCount(i[3] = s) = m
    BY <2>1 DEF BoolCount
  <2> HIDE DEF i, m
  <2>5. counts'[i] = counts[i] + Within(c = d, m)
    BY <1>6, <2>1, <2>4 DEF Within
  <2> QED
    BY <2>2, <2>3, <2>5 DEF i
<1>8. ASSUME NEW i \in CountKeys, i[1] # "grants" PROVE counts'[i] = counts[i]
  <2>1. counts'[i] = counts[i] + 0 /\ counts[i] \in Int
    BY <1>1, <1>6, <1>8 DEF Within, SummaryTypeOK
  <2> QED
    BY <2>1
<1>11. /\ \A c \in Currencies, u \in AllocationStatuses :
             counts'[<<"allocations", c, u>>] = counts[<<"allocations", c, u>>]
       /\ \A c \in Currencies :
             counts'[<<"allocations_overdrawn", c, "">>] = counts[<<"allocations_overdrawn", c, "">>]
  BY <1>8, KeysAreKeys
<1>9. CountsMatch'
  BY <1>1, <1>4, <1>7, <1>11 DEF CountsMatch
<1>10. AmountsMatch'
  BY <1>5 DEF AmountsMatch
<1> QED
  BY <1>2, <1>3, <1>9, <1>10 DEF Summarises

\* n units, possibly a negative number, move from a pool to an allocation.
LEMMA TransferSummarised ==
    ASSUME MetricInv, migrated, TypeOK', NEW a \in Allocations, NEW n \in Int,
           balance'[Pool(a)] = balance[Pool(a)] - n,
           balance'[Available(a)] = balance[Available(a)] + n,
           \A z \in Accounts \ {Pool(a), Available(a)} : balance'[z] = balance[z],
           \A b \in Allocations \ {a} : status'[b] = status[b],
           UNCHANGED grantStatus,
           NEW k, Counted(k, "allocations", CurrencyOf(a), status[a], status'[a]),
           PoolToAllocation(a, n, k)
    PROVE  Summarises
<1>1. TypeOK /\ SummaryTypeOK /\ CountsMatch /\ AmountsMatch /\ RowsMatch
  BY DEF MetricInv, BudgetInv, SummariesMatchTables
<1>2. PICK old \in Int, new \in Int : old = balance[Available(a)] /\ new = balance'[Available(a)]
  BY <1>1, AccountsDiffer DEF TypeOK
<1>13. new = old + n
  BY <1>2
<1>14. PICK g \in Grants, d \in Int : g = GrantOf[a] /\ d = -n
  <2>1. GrantOf[a] \in Grants
    BY KeysAreKeys
  <2>2. -n \in Int
    OBVIOUS
  <2> QED
    BY <2>1, <2>2
<1>15. Currency[g] = CurrencyOf(a)
  BY <1>14 DEF CurrencyOf
<1> DEFINE m == PoolDelta(g, d)
<1>3. /\ counts' = OverdrawnCount(k, a, old, new)
      /\ amounts' = AvailableAmounts(m, a, old, new)
      /\ overdrawn' = OverdrawnRows(a, old, new)
  BY <1>2, <1>13, <1>14 DEF PoolToAllocation
<1>4. /\ \A b \in Allocations \ {a} : balance'[Available(b)] = balance[Available(b)]
      /\ \A b \in Allocations : balance'[Spent(b)] = balance[Spent(b)]
      /\ \A h \in Grants \ {GrantOf[a]} : balance'[Unallocated(h)] = balance[Unallocated(h)]
  BY <1>14, AccountsDiffer DEF Pool
<1>5. Moved(m, amounts, "grant_unallocated", CurrencyOf(a), d)
  <2>1. Moved(m, amounts, "grant_unallocated", Currency[g], d)
    BY <1>1, PoolAmounts
  <2> QED
    BY <1>15, <2>1
<1> HIDE DEF m
<1>8. MovedAvailable(amounts', m, CurrencyOf(a), old, new)
  <2>1. m \in [AmountNames \X Currencies -> Int]
    BY <1>5 DEF Moved
  <2>2. MovedAvailable(AvailableAmounts(m, a, old, new), m, CurrencyOf(a), old, new)
    BY <2>1, AvailableAmountsMove
  <2> QED
    BY <1>3, <2>2
<1>6. SummaryTypeOK'
  BY <1>3, <1>8, OverdrawnCounts DEF SummaryTypeOK, Counted, MovedAvailable
<1>7. RowsMatch'
  BY <1>1, <1>2, <1>3, <1>4, RowsFollow
<1>9. CountsMatch'
  BY <1>1, <1>2, <1>3, <1>4, CountsFollow
<1>10. ASSUME NEW c \in Currencies
       PROVE  /\ amounts'[<<"grant_unallocated", c>>]
                    = amounts[<<"grant_unallocated", c>>] + Within(c = CurrencyOf(a), d)
              /\ amounts'[<<"allocation_available", c>>]
                    = amounts[<<"allocation_available", c>>] + Within(c = CurrencyOf(a), new - old)
              /\ amounts'[<<"allocation_spent", c>>]
                    = amounts[<<"allocation_spent", c>>] + Within(c = CurrencyOf(a), 0)
              /\ amounts'[<<"allocation_overdraw", c>>]
                    = amounts[<<"allocation_overdraw", c>>]
                        + Within(c = CurrencyOf(a), Overdraw(new) - Overdraw(old))
  <2>0. new - old \in Int /\ Overdraw(new) - Overdraw(old) \in Int
    BY DEF Overdraw
  <2>1. PICK u \in Int, v \in Int : u = new - old /\ v = Overdraw(new) - Overdraw(old)
    BY <2>0
  <2>2. \A i \in AmountNames :
           /\ amounts'[<<i, c>>]
                 = m[<<i, c>>] + Within(i = "allocation_available" /\ c = CurrencyOf(a), u)
                               + Within(i = "allocation_overdraw" /\ c = CurrencyOf(a), v)
           /\ m[<<i, c>>]
                 = amounts[<<i, c>>] + Within(i = "grant_unallocated" /\ c = CurrencyOf(a), d)
    BY <1>5, <1>8, <2>1 DEF Moved, MovedAvailable
  <2>3. \A i \in AmountNames : amounts[<<i, c>>] \in Int /\ m[<<i, c>>] \in Int
    BY <1>1, <1>5 DEF SummaryTypeOK, Moved
  <2>5. /\ amounts'[<<"grant_unallocated", c>>]
                    = amounts[<<"grant_unallocated", c>>] + Within(c = CurrencyOf(a), d)
        /\ amounts'[<<"allocation_available", c>>]
                    = amounts[<<"allocation_available", c>>] + Within(c = CurrencyOf(a), u)
        /\ amounts'[<<"allocation_spent", c>>]
                    = amounts[<<"allocation_spent", c>>] + Within(c = CurrencyOf(a), 0)
        /\ amounts'[<<"allocation_overdraw", c>>]
                    = amounts[<<"allocation_overdraw", c>>] + Within(c = CurrencyOf(a), v)
    BY <2>2, <2>3 DEF AmountNames, Within
  <2> QED
    BY <2>1, <2>5
<1>11. /\ d = balance'[Unallocated(GrantOf[a])] - balance[Unallocated(GrantOf[a])]
       /\ 0 = balance'[Spent(a)] - balance[Spent(a)]
  <2>1. PICK p \in Int, q \in Int : p = balance[Pool(a)] /\ q = balance[Spent(a)]
    BY <1>1, <1>14, AccountsDiffer DEF TypeOK, Pool
  <2>2. balance'[Pool(a)] = p - n /\ balance'[Spent(a)] = q
    BY <1>4, <2>1
  <2>3. p - n - p = -n /\ q - q = 0
    OBVIOUS
  <2> QED
    BY <1>14, <2>1, <2>2, <2>3 DEF Pool
<1>12. AmountsMatch'
  BY <1>1, <1>2, <1>4, <1>10, <1>11, AmountsFollow
<1> QED
  BY <1>6, <1>7, <1>9, <1>12 DEF Summarises

\* Usage: n units of a become spent.
LEMMA ChargeSummarised ==
    ASSUME MetricInv, migrated, TypeOK', NEW a \in Allocations, NEW n \in Nat, MCharge(a, n)
    PROVE  Summarises
<1>1. TypeOK /\ SummaryTypeOK /\ CountsMatch /\ AmountsMatch /\ RowsMatch
  BY DEF MetricInv, BudgetInv, SummariesMatchTables
<1>2. /\ balance'[Available(a)] = balance[Available(a)] - n
      /\ balance'[Spent(a)] = balance[Spent(a)] + n
      /\ \A z \in Accounts \ {Available(a), Spent(a)} : balance'[z] = balance[z]
  <2>1. Available(a) \in Accounts /\ Spent(a) \in Accounts /\ n \in Int
    BY AccountsDiffer
  <2> QED
    BY <1>1, <2>1, AccountsDiffer, TransferMoves DEF MCharge, Charge
<1>3. PICK old \in Int, new \in Int : old = balance[Available(a)] /\ new = balance'[Available(a)]
  BY <1>1, AccountsDiffer DEF TypeOK
<1>14. new = old - n /\ n \in Int
  BY <1>2, <1>3
<1>15. GrantOf[a] \in Grants /\ CurrencyOf(a) \in Currencies
  BY KeysAreKeys
<1> DEFINE s == status[a]
           t == StatusAfterCharge(s, new)
           k == Inventory("allocations", CurrencyOf(a), s, t)
           m == AvailableAmounts(amounts, a, old, new)
<1>16. s \in AllocationStatuses /\ t \in AllocationStatuses
  <2>1. s \in AllocationStatuses
    BY <1>1 DEF MCharge, Charge, TypeOK
  <2> QED
    BY <2>1 DEF StatusAfterCharge, AllocationStatuses
<1>4. /\ \A b \in Allocations \ {a} : /\ balance'[Available(b)] = balance[Available(b)]
                                       /\ balance'[Spent(b)] = balance[Spent(b)]
                                       /\ status'[b] = status[b]
      /\ \A g \in Grants : balance'[Unallocated(g)] = balance[Unallocated(g)]
      /\ status'[a] = t /\ UNCHANGED grantStatus
  BY <1>1, <1>2, <1>3, <1>14, AccountsDiffer DEF MCharge, Charge, TypeOK, grantVars
<1>5. /\ counts' = OverdrawnCount(k, a, old, new)
      /\ amounts' = SpentAmounts(m, a, n)
      /\ overdrawn' = OverdrawnRows(a, old, new)
  BY <1>3, <1>14 DEF MCharge
<1>6. Counted(k, "allocations", CurrencyOf(a), s, t)
  BY <1>1, <1>15, <1>16, KeysAreKeys, InventoryCounts
<1>7. MovedAvailable(m, amounts, CurrencyOf(a), old, new)
  <2>1. amounts \in [AmountNames \X Currencies -> Int]
    BY <1>1 DEF SummaryTypeOK
  <2> QED
    BY <2>1, AvailableAmountsMove
<1> HIDE DEF k, t, m
<1>17. Moved(amounts', m, "allocation_spent", CurrencyOf(a), n)
  <2>1. m \in [AmountNames \X Currencies -> Int]
    BY <1>7 DEF MovedAvailable
  <2> QED
    BY <1>5, <1>14, <2>1, SpentAmountsMove
<1>8. SummaryTypeOK'
  BY <1>5, <1>6, <1>17, OverdrawnCounts DEF SummaryTypeOK, Counted, Moved
<1>9. RowsMatch'
  BY <1>1, <1>3, <1>4, <1>5, RowsFollow
<1>10. CountsMatch'
  BY <1>1, <1>3, <1>4, <1>5, <1>6, CountsFollow
<1>11. ASSUME NEW c \in Currencies
       PROVE  /\ amounts'[<<"grant_unallocated", c>>]
                    = amounts[<<"grant_unallocated", c>>] + Within(c = CurrencyOf(a), 0)
              /\ amounts'[<<"allocation_available", c>>]
                    = amounts[<<"allocation_available", c>>] + Within(c = CurrencyOf(a), new - old)
              /\ amounts'[<<"allocation_spent", c>>]
                    = amounts[<<"allocation_spent", c>>] + Within(c = CurrencyOf(a), n)
              /\ amounts'[<<"allocation_overdraw", c>>]
                    = amounts[<<"allocation_overdraw", c>>]
                        + Within(c = CurrencyOf(a), Overdraw(new) - Overdraw(old))
  <2>0. new - old \in Int /\ Overdraw(new) - Overdraw(old) \in Int
    BY DEF Overdraw
  <2>1. PICK u \in Int, v \in Int : u = new - old /\ v = Overdraw(new) - Overdraw(old)
    BY <2>0
  <2>2. \A i \in AmountNames :
           /\ m[<<i, c>>]
                 = amounts[<<i, c>>] + Within(i = "allocation_available" /\ c = CurrencyOf(a), u)
                                     + Within(i = "allocation_overdraw" /\ c = CurrencyOf(a), v)
           /\ amounts'[<<i, c>>] = m[<<i, c>>] + Within(i = "allocation_spent" /\ c = CurrencyOf(a), n)
    BY <1>7, <1>17, <2>1 DEF Moved, MovedAvailable
  <2>3. \A i \in AmountNames : amounts[<<i, c>>] \in Int /\ m[<<i, c>>] \in Int
    BY <1>1, <1>7 DEF SummaryTypeOK, MovedAvailable
  <2>5. /\ amounts'[<<"grant_unallocated", c>>]
                    = amounts[<<"grant_unallocated", c>>] + Within(c = CurrencyOf(a), 0)
        /\ amounts'[<<"allocation_available", c>>]
                    = amounts[<<"allocation_available", c>>] + Within(c = CurrencyOf(a), u)
        /\ amounts'[<<"allocation_spent", c>>]
                    = amounts[<<"allocation_spent", c>>] + Within(c = CurrencyOf(a), n)
        /\ amounts'[<<"allocation_overdraw", c>>]
                    = amounts[<<"allocation_overdraw", c>>] + Within(c = CurrencyOf(a), v)
    BY <1>14, <2>2, <2>3 DEF AmountNames, Within
  <2> QED
    BY <2>1, <2>5
<1>12. /\ 0 = balance'[Unallocated(GrantOf[a])] - balance[Unallocated(GrantOf[a])]
       /\ n = balance'[Spent(a)] - balance[Spent(a)]
  <2>1. PICK p \in Int, q \in Int : p = balance[Unallocated(GrantOf[a])] /\ q = balance[Spent(a)]
    BY <1>1, <1>15, AccountsDiffer DEF TypeOK
  <2>2. balance'[Unallocated(GrantOf[a])] = p /\ balance'[Spent(a)] = q + n
    BY <1>2, <1>4, <1>15, <2>1
  <2>3. p - p = 0 /\ q + n - q = n
    BY <1>14
  <2> QED
    BY <2>1, <2>2, <2>3
<1>13. AmountsMatch'
  <2>1. \A g \in Grants \ {GrantOf[a]} : balance'[Unallocated(g)] = balance[Unallocated(g)]
    BY <1>4
  <2> QED
    BY <1>1, <1>3, <1>4, <1>11, <1>12, <2>1, AmountsFollow
<1> QED
  BY <1>8, <1>9, <1>10, <1>13 DEF Summarises

\* The migration: rows that do not exist have nothing to count or to add.
LEMMA MigrationSummarised ==
    ASSUME MetricInv, Migrate
    PROVE  Summarises
<1>1. TypeOK /\ AbsentIsEmpty /\ RowsNeedGrants
  BY DEF MetricInv, BudgetInv
<1>2. UNCHANGED <<grantStatus, status, balance>>
  BY DEF Migrate, vars
<1>3. \A c \in Currencies :
         Debtors(c) = {a \in Allocations : balance[Available(a)] < 0 /\ CurrencyOf(a) = c}
  <2>1. \A a \in Allocations : balance[Available(a)] < 0 => status[a] # "absent"
    BY <1>1, BalancesAreInts DEF AbsentIsEmpty
  <2> QED
    BY <2>1 DEF In, Debtors
<1>4. ASSUME NEW c \in Currencies
      PROVE  /\ Backfilled("grant_unallocated", c) = GrantTotal(PoolUnits, c)
             /\ Backfilled("allocation_available", c) = AllocationTotal(AvailableUnits, c)
             /\ Backfilled("allocation_spent", c) = AllocationTotal(SpentUnits, c)
             /\ Backfilled("allocation_overdraw", c) = AllocationTotal(Debts, c)
  <2> DEFINE G == {g \in Grants : Currency[g] = c}
             A == {a \in Allocations : CurrencyOf(a) = c}
  <2>1. IsFiniteSet(G) /\ IsFiniteSet(A)
    BY FiniteTables, FS_Subset
  <2>2. GrantsIn(c) \in SUBSET G /\ \A g \in G \ GrantsIn(c) : PoolUnits[g] = 0
    BY <1>1, BalancesAreInts DEF GrantsIn, RowsNeedGrants
  <2>3. In(c) \in SUBSET A /\ (\A a \in A \ In(c) : AvailableUnits[a] = 0)
        /\ (\A a \in A \ In(c) : SpentUnits[a] = 0)
    BY <1>1, BalancesAreInts DEF In, AbsentIsEmpty
  <2>4. Debtors(c) \in SUBSET A /\ \A a \in A \ Debtors(c) : Debts[a] = 0
    <3>1. \A a \in Allocations : balance[Available(a)] \in Int
      BY <1>1, BalancesAreInts
    <3>2. Debtors(c) = {a \in A : balance[Available(a)] < 0}
      BY <1>1 DEF Debtors, In, AbsentIsEmpty
    <3> QED
      BY <1>1, <3>1, <3>2, BalancesAreInts DEF Overdraw
  <2>5. (\A g \in G : PoolUnits[g] \in Int) /\ (\A a \in A : AvailableUnits[a] \in Int)
        /\ (\A a \in A : SpentUnits[a] \in Int) /\ (\A a \in A : Debts[a] \in Int)
    BY <1>1, BalancesAreInts
  <2> HIDE DEF G, A
  <2>6. /\ SumFunctionOnSet(PoolUnits, G) = SumFunctionOnSet(PoolUnits, GrantsIn(c))
        /\ SumFunctionOnSet(AvailableUnits, A) = SumFunctionOnSet(AvailableUnits, In(c))
        /\ SumFunctionOnSet(SpentUnits, A) = SumFunctionOnSet(SpentUnits, In(c))
        /\ SumFunctionOnSet(Debts, A) = SumFunctionOnSet(Debts, Debtors(c))
    BY <2>1, <2>2, <2>3, <2>4, <2>5, SumSkipsZeros
  <2> QED
    BY <2>6 DEF Backfilled, GrantTotal, AllocationTotal, G, A
<1>5. ASSUME NEW c \in Currencies
      PROVE  /\ \A u \in GrantStatuses : CountedRows(<<"grants", c, u>>) = GrantCount(c, u)
             /\ \A u \in AllocationStatuses : CountedRows(<<"allocations", c, u>>) = AllocationCount(c, u)
             /\ CountedRows(<<"allocations_overdrawn", c, "">>) = DebtorCount(c)
  <2>1. ASSUME NEW u \in GrantStatuses PROVE CountedRows(<<"grants", c, u>>) = GrantCount(c, u)
    <3> DEFINE i == <<"grants", c, u>>
    <3>1. i[1] = "grants" /\ i[2] = c /\ i[3] = u
      OBVIOUS
    <3> HIDE DEF i
    <3>2. CountedRows(i) = Cardinality({g \in GrantsIn(c) : grantStatus[g] = u})
      BY <3>1 DEF CountedRows
    <3>3. {g \in GrantsIn(c) : grantStatus[g] = u} = {g \in Grants : grantStatus[g] = u /\ Currency[g] = c}
      BY DEF GrantsIn, GrantStatuses
    <3> QED
      BY <3>2, <3>3 DEF GrantCount, i
  <2>2. ASSUME NEW u \in AllocationStatuses
        PROVE  CountedRows(<<"allocations", c, u>>) = AllocationCount(c, u)
    <3> DEFINE i == <<"allocations", c, u>>
    <3>1. i[1] = "allocations" /\ i[2] = c /\ i[3] = u
      OBVIOUS
    <3> HIDE DEF i
    <3>2. CountedRows(i) = Cardinality({a \in In(c) : status[a] = u})
      BY <3>1 DEF CountedRows
    <3>3. {a \in In(c) : status[a] = u} = {a \in Allocations : status[a] = u /\ CurrencyOf(a) = c}
      BY DEF In, AllocationStatuses
    <3> QED
      BY <3>2, <3>3 DEF AllocationCount, i
  <2>3. CountedRows(<<"allocations_overdrawn", c, "">>) = DebtorCount(c)
    <3> DEFINE i == <<"allocations_overdrawn", c, "">>
    <3>1. i[1] = "allocations_overdrawn" /\ i[2] = c
      OBVIOUS
    <3> HIDE DEF i
    <3>2. CountedRows(i) = Cardinality(Debtors(c))
      BY <3>1 DEF CountedRows
    <3> QED
      BY <1>3, <3>2 DEF DebtorCount, i
  <2> QED
    BY <2>1, <2>2, <2>3
<1>6. /\ counts' = [k \in CountKeys |-> CountedRows(k)]
      /\ amounts' = [k \in AmountNames \X Currencies |-> Backfilled(k[1], k[2])]
      /\ overdrawn' = [a \in Debtors("usd") \cup Debtors("eth") |-> balance[Available(a)]]
  BY DEF Migrate
<1>7. SummaryTypeOK'
  <2>1. \A c \in Currencies : /\ \A u \in GrantStatuses : GrantCount(c, u) \in Int
                              /\ \A u \in AllocationStatuses : AllocationCount(c, u) \in Int
                              /\ DebtorCount(c) \in Int
    BY CountsAreInts
  <2>2. ASSUME NEW k \in CountKeys PROVE CountedRows(k) \in Int
    <3>1. CASE k \in {"grants"} \X Currencies \X GrantStatuses
      <4>1. k = <<"grants", k[2], k[3]>> /\ k[2] \in Currencies /\ k[3] \in GrantStatuses
        BY <3>1
      <4> QED
        BY <1>5, <2>1, <4>1
    <3>2. CASE k \in {"allocations"} \X Currencies \X AllocationStatuses
      <4>1. k = <<"allocations", k[2], k[3]>> /\ k[2] \in Currencies /\ k[3] \in AllocationStatuses
        BY <3>2
      <4> QED
        BY <1>5, <2>1, <4>1
    <3>3. CASE k \in {"allocations_overdrawn"} \X Currencies \X {""}
      <4>1. ASSUME NEW K, NEW S, k \in K \X Currencies \X S
            PROVE  k = <<k[1], k[2], k[3]>> /\ k[1] \in K /\ k[2] \in Currencies /\ k[3] \in S
        BY <4>1
      <4>2. k = <<"allocations_overdrawn", k[2], "">> /\ k[2] \in Currencies
        BY <3>3, <4>1
      <4> QED
        BY <1>5, <2>1, <4>2
    <3> QED
      BY <3>1, <3>2, <3>3 DEF CountKeys
  <2>3. \A c \in Currencies : /\ GrantTotal(PoolUnits, c) \in Int
                              /\ AllocationTotal(AvailableUnits, c) \in Int
                              /\ AllocationTotal(SpentUnits, c) \in Int
                              /\ AllocationTotal(Debts, c) \in Int
    <3> TAKE c \in Currencies
    <3> DEFINE G == {g \in Grants : Currency[g] = c}
               A == {a \in Allocations : CurrencyOf(a) = c}
    <3>1. IsFiniteSet(G) /\ IsFiniteSet(A)
      BY FiniteTables, FS_Subset
    <3>2. (\A g \in G : PoolUnits[g] \in Int) /\ (\A a \in A : AvailableUnits[a] \in Int)
          /\ (\A a \in A : SpentUnits[a] \in Int) /\ (\A a \in A : Debts[a] \in Int)
      BY <1>1, BalancesAreInts
    <3> HIDE DEF G, A
    <3>3. SumFunctionOnSet(PoolUnits, G) \in Int /\ SumFunctionOnSet(AvailableUnits, A) \in Int
          /\ SumFunctionOnSet(SpentUnits, A) \in Int /\ SumFunctionOnSet(Debts, A) \in Int
      BY <3>1, <3>2, SumOfInts
    <3> QED
      BY <3>3 DEF GrantTotal, AllocationTotal, G, A
  <2>4. \A n \in AmountNames, c \in Currencies : Backfilled(n, c) \in Int
    BY <1>4, <2>3 DEF AmountNames
  <2>5. \A k \in AmountNames \X Currencies : Backfilled(k[1], k[2]) \in Int
    BY <2>4
  <2> QED
    BY <1>6, <2>2, <2>5 DEF SummaryTypeOK
<1>8. CountsMatch'
  <2>1. \A c \in Currencies : /\ \A u \in GrantStatuses : GrantCount(c, u)' = GrantCount(c, u)
                              /\ \A u \in AllocationStatuses : AllocationCount(c, u)' = AllocationCount(c, u)
                              /\ DebtorCount(c)' = DebtorCount(c)
    BY <1>2 DEF GrantCount, AllocationCount, DebtorCount, CurrencyOf, Available
  <2> QED
    BY <1>5, <1>6, <2>1, KeysAreKeys DEF CountsMatch
<1>9. AmountsMatch'
  <2>1. PoolUnits' = PoolUnits /\ AvailableUnits' = AvailableUnits /\ SpentUnits' = SpentUnits /\ Debts' = Debts
    BY <1>2 DEF PoolUnits, AvailableUnits, SpentUnits, Debts, Unallocated, Available, Spent
  <2>2. \A c \in Currencies : /\ GrantTotal(PoolUnits, c)' = GrantTotal(PoolUnits, c)
                              /\ AllocationTotal(AvailableUnits, c)' = AllocationTotal(AvailableUnits, c)
                              /\ AllocationTotal(SpentUnits, c)' = AllocationTotal(SpentUnits, c)
                              /\ AllocationTotal(Debts, c)' = AllocationTotal(Debts, c)
    BY <2>1 DEF GrantTotal, AllocationTotal, CurrencyOf
  <2>3. \A n \in AmountNames, c \in Currencies : amounts'[<<n, c>>] = Backfilled(n, c)
    BY <1>6
  <2> QED
    BY <1>4, <2>2, <2>3 DEF AmountsMatch, AmountNames
<1>10. RowsMatch'
  <2> SUFFICES ASSUME NEW a \in Allocations
               PROVE  IF balance'[Available(a)] < 0
                        THEN a \in DOMAIN overdrawn' /\ overdrawn'[a] = balance'[Available(a)]
                        ELSE a \notin DOMAIN overdrawn'
    BY DEF RowsMatch, Available
  <2>1. CurrencyOf(a) \in {"usd", "eth"}
    BY KeysAreKeys DEF Currencies
  <2>2. a \in Debtors("usd") \cup Debtors("eth") <=> balance[Available(a)] < 0
    BY <1>3, <2>1 DEF Currencies
  <2> QED
    BY <1>2, <1>6, <2>2
<1> QED
  BY <1>7, <1>8, <1>9, <1>10 DEF Summarises

-----------------------------------------------------------------------------
\* Every step with its summaries is a step of the budget.
LEMMA SummarisedIsNext == Summarised => Next
BY DEF Summarised, MCreateGrant, MFundGrant, MSetGrantStatus, MCreateAllocation, MFundAllocation,
       MSetAllocationStatus, MRevoke, MCharge, Next, Management, Usage

\* What the summaries are kept beside is a step of the budgets.
LEMMA MetricNextIsNext == [MNext]_allVars => [Next]_vars
BY SummarisedIsNext DEF MNext, Unsummarised, Migrate, Rollback, allVars

\* A step that counts what it changes leaves the summaries true.
LEMMA SummarisedStep ==
    ASSUME MetricInv, migrated, TypeOK', Summarised
    PROVE  Summarises
<1> USE AmountsAreNat
<1>0. TypeOK /\ SummaryTypeOK /\ BudgetInv
  BY DEF MetricInv, BudgetInv
<1>1. ASSUME NEW g \in Grants, NEW n \in Nat,
             balance' = Transfer(FundingSource(g), Unallocated(g), n)
      PROVE  /\ balance'[Unallocated(g)] = balance[Unallocated(g)] + n
             /\ \A h \in Grants \ {g} : balance'[Unallocated(h)] = balance[Unallocated(h)]
             /\ \A a \in Allocations : /\ balance'[Available(a)] = balance[Available(a)]
                                        /\ balance'[Spent(a)] = balance[Spent(a)]
  <2>1. FundingSource(g) \in Accounts /\ Unallocated(g) \in Accounts /\ n \in Int
    BY AccountsDiffer
  <2>2. /\ \A z \in Accounts \ {FundingSource(g), Unallocated(g)} : balance'[z] = balance[z]
        /\ balance'[Unallocated(g)] = balance[Unallocated(g)] + n
    BY <1>0, <1>1, <2>1, AccountsDiffer, TransferMoves
  <2> QED
    BY <2>2, AccountsDiffer
<1>2. ASSUME NEW g \in Grants, NEW s \in GrantStatuses, NEW n \in Amounts, MCreateGrant(g, s, n)
      PROVE  Summarises
  <2>1. /\ \A h \in Grants \ {g} : grantStatus'[h] = grantStatus[h]
        /\ grantStatus[g] = "absent" /\ grantStatus'[g] = s
        /\ balance' = Transfer(FundingSource(g), Unallocated(g), n)
        /\ UNCHANGED <<status, overdrawn>> /\ n \in Nat
        /\ amounts' = PoolDelta(g, n) /\ counts' = NewInventory("grants", Currency[g], s)
    BY <1>0, <1>2 DEF MCreateGrant, CreateGrant, TypeOK, allocationVars
  <2>2. <<"grants", Currency[g], s>> \in CountKeys
    BY KeysAreKeys
  <2>3. Counted(counts', "grants", Currency[g], "absent", s)
    BY <1>0, <2>1, <2>2, NewInventoryCounts
  <2>4. PICK old, new : old = grantStatus[g] /\ new = grantStatus'[g]
    OBVIOUS
  <2>5. Counted(counts', "grants", Currency[g], old, new)
    BY <2>1, <2>3, <2>4
  <2> QED
    BY <1>0, <1>1, <2>1, <2>4, <2>5, GrantSummarised
<1>3. ASSUME NEW g \in Grants, NEW n \in Amounts, MFundGrant(g, n)
      PROVE  Summarises
  <2>1. /\ UNCHANGED grantStatus /\ grantStatus[g] \in GrantStatuses
        /\ balance' = Transfer(FundingSource(g), Unallocated(g), n)
        /\ UNCHANGED <<status, overdrawn>> /\ n \in Nat
        /\ amounts' = PoolDelta(g, n) /\ UNCHANGED counts
    BY <1>3 DEF MFundGrant, FundGrant, GrantOpen, allocationVars
  <2>2. PICK old : old = grantStatus[g]
    OBVIOUS
  <2>3. Counted(counts', "grants", Currency[g], old, old) /\ old = grantStatus'[g]
    BY <1>0, <2>1, <2>2, SameCounts
  <2> QED
    BY <1>0, <1>1, <2>1, <2>2, <2>3, GrantSummarised
<1>4. ASSUME NEW g \in Grants, NEW s \in GrantStatuses, MSetGrantStatus(g, s)
      PROVE  Summarises
  <2>1. /\ \A h \in Grants \ {g} : grantStatus'[h] = grantStatus[h]
        /\ grantStatus[g] \in GrantStatuses /\ grantStatus'[g] = s
        /\ UNCHANGED <<status, balance, overdrawn, amounts>>
        /\ counts' = Inventory("grants", Currency[g], grantStatus[g], s)
    BY <1>0, <1>4 DEF MSetGrantStatus, SetGrantStatus, TypeOK, allocationVars
  <2>2. PICK old, new : old = grantStatus[g] /\ new = grantStatus'[g]
    OBVIOUS
  <2>3. Counted(counts', "grants", Currency[g], old, new)
    <3>1. <<"grants", Currency[g], old>> \in CountKeys /\ <<"grants", Currency[g], new>> \in CountKeys
      BY <2>1, <2>2, KeysAreKeys
    <3> QED
      BY <1>0, <2>1, <2>2, <3>1, InventoryCounts
  <2>4. balance'[Unallocated(g)] = balance[Unallocated(g)] + 0 /\ 0 \in Int
    <3>1. balance[Unallocated(g)] \in Int
      BY <1>0, BalancesAreInts
    <3> QED
      BY <2>1, <3>1
  <2>5. amounts' = PoolDelta(g, 0)
    <3> DEFINE x == <<"grant_unallocated", Currency[g]>>
    <3>1. amounts \in [AmountNames \X Currencies -> Int] /\ x \in AmountNames \X Currencies
      BY <1>0, KeysAreKeys DEF SummaryTypeOK, AmountNames
    <3>2. PoolDelta(g, 0) = [amounts EXCEPT ![x] = @ + 0]
      BY DEF PoolDelta
    <3> HIDE DEF x
    <3> QED
      BY <2>1, <3>1, <3>2
  <2> QED
    BY <1>0, <2>1, <2>2, <2>3, <2>4, <2>5, GrantSummarised
<1>5. ASSUME NEW a \in Allocations, NEW s \in AllocationStatuses,
             NEW r \in Amounts \cup {All}, MCreateAllocation(a, s, r)
      PROVE  Summarises
  <2> DEFINE n == AllocationAmount(r, balance[Pool(a)])
             t == InitialStatus(s, n)
             k == NewInventory("allocations", CurrencyOf(a), t)
  <2>1. /\ n \in Int /\ balance' = Transfer(Pool(a), Available(a), n)
        /\ status[a] = "absent" /\ status' = [status EXCEPT ![a] = t] /\ UNCHANGED grantStatus
        /\ PoolToAllocation(a, n, k)
    BY <1>0, <1>5, AllocationAmountIsNat DEF MCreateAllocation, CreateAllocation, Pool, grantVars
  <2>2. t \in AllocationStatuses
    BY DEF InitialStatus, AllocationStatuses
  <2> HIDE DEF n, t
  <2>3. /\ balance'[Pool(a)] = balance[Pool(a)] - n
        /\ balance'[Available(a)] = balance[Available(a)] + n
        /\ \A z \in Accounts \ {Pool(a), Available(a)} : balance'[z] = balance[z]
    BY <1>0, <2>1, PoolTransferMoves
  <2>4. status'[a] = t /\ \A b \in Allocations \ {a} : status'[b] = status[b]
    BY <1>0, <2>1 DEF TypeOK
  <2>5. Counted(k, "allocations", CurrencyOf(a), status[a], status'[a])
    <3>1. <<"allocations", CurrencyOf(a), t>> \in CountKeys
      BY <2>2, KeysAreKeys
    <3>2. Counted(k, "allocations", CurrencyOf(a), "absent", t)
      BY <1>0, <3>1, NewInventoryCounts
    <3> QED
      BY <2>1, <2>4, <3>2
  <2> HIDE DEF k
  <2> QED
    BY <2>1, <2>3, <2>4, <2>5, TransferSummarised
<1>6. ASSUME NEW a \in Allocations, NEW r \in Amounts \cup {All}, MFundAllocation(a, r)
      PROVE  Summarises
  <2> DEFINE n == AllocationAmount(r, balance[Pool(a)])
             t == StatusAfterFunding(status[a], balance[Available(a)] + n)
             k == Inventory("allocations", CurrencyOf(a), status[a], t)
  <2>1. /\ n \in Int /\ balance' = Transfer(Pool(a), Available(a), n)
        /\ status[a] \in AllocationStatuses /\ UNCHANGED grantStatus
        /\ PoolToAllocation(a, n, k)
    BY <1>0, <1>6, AllocationAmountIsNat DEF MFundAllocation, FundAllocation, Pool, grantVars
  <2>2. t \in AllocationStatuses
    BY <2>1 DEF StatusAfterFunding, AllocationStatuses
  <2>3. status' = [status EXCEPT ![a] = t]
    BY <1>0, <1>6 DEF MFundAllocation, FundAllocation, Pool, TypeOK
  <2> HIDE DEF n, t
  <2>4. /\ balance'[Pool(a)] = balance[Pool(a)] - n
        /\ balance'[Available(a)] = balance[Available(a)] + n
        /\ \A z \in Accounts \ {Pool(a), Available(a)} : balance'[z] = balance[z]
    BY <1>0, <2>1, PoolTransferMoves
  <2>5. status'[a] = t /\ \A b \in Allocations \ {a} : status'[b] = status[b]
    BY <1>0, <2>3 DEF TypeOK
  <2>6. Counted(k, "allocations", CurrencyOf(a), status[a], status'[a])
    <3> DEFINE u == status[a]
    <3>1. <<"allocations", CurrencyOf(a), u>> \in CountKeys /\ <<"allocations", CurrencyOf(a), t>> \in CountKeys
      BY <2>1, <2>2, KeysAreKeys
    <3>2. k = Inventory("allocations", CurrencyOf(a), u, t)
      OBVIOUS
    <3> HIDE DEF u, k
    <3>3. Counted(k, "allocations", CurrencyOf(a), u, t)
      BY <1>0, <3>1, <3>2, InventoryCounts
    <3> QED
      BY <2>5, <3>3 DEF u
  <2> HIDE DEF k
  <2> QED
    BY <2>1, <2>4, <2>5, <2>6, TransferSummarised
<1>7. ASSUME NEW a \in Allocations, NEW s \in AllocationStatuses, MSetAllocationStatus(a, s)
      PROVE  Summarises
  <2> DEFINE old == balance[Available(a)]
             u == status[a]
  <2>1. /\ u \in AllocationStatuses /\ UNCHANGED <<grantStatus, balance, overdrawn, amounts>>
        /\ status'[a] = s /\ \A b \in Allocations \ {a} : status'[b] = status[b]
        /\ counts' = Inventory("allocations", CurrencyOf(a), u, s)
    BY <1>0, <1>7 DEF MSetAllocationStatus, SetAllocationStatus, grantVars, TypeOK
  <2>2. old \in Int /\ <<"allocations", CurrencyOf(a), u>> \in CountKeys
        /\ <<"allocations", CurrencyOf(a), s>> \in CountKeys
    BY <1>0, <2>1, KeysAreKeys, BalancesAreInts
  <2>4. CountsMatch /\ AmountsMatch /\ RowsMatch
    BY DEF MetricInv, SummariesMatchTables
  <2>5. /\ \A b \in Allocations \ {a} : balance'[Available(b)] = balance[Available(b)]
        /\ old = balance'[Available(a)]
    BY <2>1
  <2>7. AmountsMatch' /\ RowsMatch'
    BY <2>1, <2>4 DEF AmountsMatch, RowsMatch, GrantTotal, AllocationTotal, CurrencyOf, PoolUnits,
                      AvailableUnits, SpentUnits, Debts, Available, Spent, Unallocated
  <2>8. old = balance[Available(a)] /\ u = status[a]
    OBVIOUS
  <2> HIDE DEF old, u
  <2>3. Counted(counts', "allocations", CurrencyOf(a), u, s)
    BY <1>0, <2>1, <2>2, InventoryCounts
  <2>9. counts' = OverdrawnCount(counts', a, old, old)
    BY <2>2, <2>3, SameOverdrawn DEF Counted
  <2>10. PICK k : k = counts'
    OBVIOUS
  <2>11. Counted(k, "allocations", CurrencyOf(a), u, s) /\ counts' = OverdrawnCount(k, a, old, old)
    BY <2>3, <2>9, <2>10
  <2>6. CountsMatch'
    BY <1>0, <2>1, <2>4, <2>5, <2>8, <2>11, CountsFollow
  <2> QED
    BY <1>0, <2>1, <2>3, <2>6, <2>7 DEF Summarises, SummaryTypeOK, Counted
<1>8. ASSUME NEW a \in Allocations, MRevoke(a)
      PROVE  Summarises
  <2> DEFINE m == Returned(balance[Available(a)])
             n == -m
             k == Inventory("allocations", CurrencyOf(a), status[a], "revoked")
  <2>1. /\ m \in Int /\ n \in Int /\ balance' = Transfer(Available(a), Pool(a), m)
        /\ status[a] \in AllocationStatuses /\ UNCHANGED grantStatus
        /\ status'[a] = "revoked" /\ \A b \in Allocations \ {a} : status'[b] = status[b]
        /\ PoolToAllocation(a, n, k)
    BY <1>0, <1>8, PoolTransferMoves DEF MRevoke, Revoke, Pool, Returned, grantVars, TypeOK
  <2> HIDE DEF m
  <2>2. /\ balance'[Pool(a)] = balance[Pool(a)] + m
        /\ balance'[Available(a)] = balance[Available(a)] - m
        /\ \A z \in Accounts \ {Pool(a), Available(a)} : balance'[z] = balance[z]
    BY <1>0, <2>1, ReturnMoves
  <2>3. /\ balance'[Pool(a)] = balance[Pool(a)] - n
        /\ balance'[Available(a)] = balance[Available(a)] + n
    <3>1. PICK p \in Int, q \in Int : p = balance[Pool(a)] /\ q = balance[Available(a)]
      BY <1>0, PoolTransferMoves
    <3>2. p + m = p - n /\ q - m = q + n
      BY <2>1
    <3> QED
      BY <2>2, <3>1, <3>2
  <2>4. Counted(k, "allocations", CurrencyOf(a), status[a], status'[a])
    <3> DEFINE u == status[a]
    <3>1. /\ <<"allocations", CurrencyOf(a), u>> \in CountKeys
          /\ <<"allocations", CurrencyOf(a), "revoked">> \in CountKeys
      BY <2>1, KeysAreKeys DEF AllocationStatuses
    <3>2. k = Inventory("allocations", CurrencyOf(a), u, "revoked")
      OBVIOUS
    <3> HIDE DEF u, k
    <3>3. Counted(k, "allocations", CurrencyOf(a), u, "revoked")
      BY <1>0, <3>1, <3>2, InventoryCounts
    <3> QED
      BY <2>1, <3>3 DEF u
  <2> HIDE DEF k, n
  <2> QED
    BY <2>1, <2>2, <2>3, <2>4, TransferSummarised
<1>9. ASSUME NEW a \in Allocations, NEW n \in Amounts, MCharge(a, n)
      PROVE  Summarises
  BY <1>9, ChargeSummarised
<1> QED
  BY <1>2, <1>3, <1>4, <1>5, <1>6, <1>7, <1>8, <1>9 DEF Summarised

\* Every operation, the backfill among them, keeps the summaries' invariant.
LEMMA MetricStep == MetricInv /\ [MNext]_allVars => MetricInv'
<1> SUFFICES ASSUME MetricInv, [MNext]_allVars PROVE MetricInv'
  OBVIOUS
<1>1. BudgetInv /\ RowsNeedGrants /\ SummaryTypeOK /\ SummariesMatchTables
  BY DEF MetricInv
<1>2. BudgetInv' /\ RowsNeedGrants' /\ TypeOK'
  BY <1>1, MetricNextIsNext, BudgetStep, RowsNeedGrantsStep DEF BudgetInv
<1>3. CASE Unsummarised
  BY <1>1, <1>2, <1>3 DEF MetricInv, SummaryTypeOK, SummariesMatchTables, Unsummarised, metricVars
<1>4. CASE migrated /\ UNCHANGED migrated /\ Summarised
  BY <1>2, <1>4, SummarisedStep DEF MetricInv, Summarises, SummariesMatchTables
<1>5. CASE Migrate
  BY <1>2, <1>5, MigrationSummarised DEF MetricInv, Summarises, SummariesMatchTables
<1>6. CASE Rollback
  BY <1>2, <1>6 DEF MetricInv, Rollback, SummaryTypeOK, SummariesMatchTables, NoCounts, NoAmounts
<1>7. CASE UNCHANGED allVars
  <2>1. SummaryTypeOK' /\ migrated' = migrated /\ UNCHANGED <<counts, amounts, overdrawn>>
        /\ UNCHANGED <<grantStatus, status, balance>>
    BY <1>1, <1>7 DEF SummaryTypeOK, allVars, vars, metricVars
  <2>2. CountsMatch => CountsMatch'
    <3>1. \A c \in Currencies : /\ \A u \in GrantStatuses : GrantCount(c, u)' = GrantCount(c, u)
                                /\ \A u \in AllocationStatuses : AllocationCount(c, u)' = AllocationCount(c, u)
                                /\ DebtorCount(c)' = DebtorCount(c)
      BY <2>1 DEF GrantCount, AllocationCount, DebtorCount, CurrencyOf, Available
    <3> QED
      BY <2>1, <3>1 DEF CountsMatch
  <2>3. AmountsMatch => AmountsMatch'
    BY <2>1 DEF AmountsMatch, GrantTotal, AllocationTotal, CurrencyOf, PoolUnits,
                AvailableUnits, SpentUnits, Debts, Available, Spent, Unallocated
  <2>4. RowsMatch => RowsMatch'
    BY <2>1 DEF RowsMatch, Available
  <2> QED
    BY <1>1, <1>2, <2>1, <2>2, <2>3, <2>4 DEF MetricInv, SummariesMatchTables
<1> QED
  BY <1>3, <1>4, <1>5, <1>6, <1>7 DEF MNext

\* What holds of the budget alone holds of the budget with its summaries.
THEOREM MetricsImplementBudget == MSpec => Spec
<1>1. MInit => Init
  BY DEF MInit
<1> QED
  BY <1>1, MetricNextIsNext, PTL DEF MSpec, Spec

\* Every summary adjusted by differences is what a scan of the tables would find, from
\* whatever moment the migration created it.
THEOREM SummariesAreScans == MSpec => []SummariesMatchTables
<1>1. MetricInv => SummariesMatchTables
  BY DEF MetricInv
<1> QED
  BY <1>1, MetricInit, MetricStep, PTL DEF MSpec

-----------------------------------------------------------------------------
(***************************************************************************)
(* The accounting worker                                                   *)
(***************************************************************************)
MemoryMatches ==
    \A p \in Partitions :
        /\ running => next[p] = checkpoint[p]
        /\ fetched[p] => running /\ next[p] < Len(log[p])

IngestInv ==
    /\ IngestTypeOK
    /\ AuditIsConsumedLog
    /\ MemoryMatches

-----------------------------------------------------------------------------
\* Every record has an outcome.
LEMMA OutcomeIsOutcome == \A r \in Records : Outcome(r) \in Outcomes
BY DEF Outcome, TicketOutcome, Outcomes, Quarantines

\* The consumer starts in order.
LEMMA IngestInvInit == IngestInit => IngestInv
<1> SUFFICES ASSUME IngestInit PROVE IngestInv
  OBVIOUS
<1>1. <<>> \in Seq(UsageRow) /\ <<>> \in Seq(Records)
  OBVIOUS
<1>2. IngestTypeOK
  BY <1>1 DEF IngestInit, IngestTypeOK
<1>3. AuditIsConsumedLog /\ MemoryMatches
  BY DEF IngestInit, AuditIsConsumedLog, MemoryMatches
<1> QED
  BY <1>2, <1>3 DEF IngestInv

\* The one step that moves the database forward.
LEMMA IngestStep ==
    ASSUME IngestInv, NEW p \in Partitions, Ingest(p)
    PROVE  IngestInv'
<1> USE DEF IngestInv
<1> DEFINE r == log[p][next[p] + 1]
           row == [record |-> r, outcome |-> Outcome(r)]
<1>1. /\ next[p] = checkpoint[p] /\ next[p] \in Nat /\ next[p] < Len(log[p])
      /\ log[p] \in Seq(Records) /\ running
  BY DEF Ingest, IngestTypeOK, MemoryMatches
<1>2. r \in Records
  BY <1>1
<1>3. /\ row \in UsageRow
      /\ row.record = r
  BY <1>2, OutcomeIsOutcome DEF UsageRow
<1>4. /\ usage' = [usage EXCEPT ![p] = Append(@, row)]
      /\ checkpoint' = [checkpoint EXCEPT ![p] = next[p] + 1]
      /\ next' = [next EXCEPT ![p] = @ + 1]
      /\ fetched' = [fetched EXCEPT ![p] = FALSE]
      /\ UNCHANGED <<log, logStart, sessions, running, crashes>>
  BY DEF Ingest, kafkaVars
<1> HIDE DEF row
<1>5. /\ usage[p] \in Seq(UsageRow)
      /\ Len(usage[p]) = checkpoint[p]
  BY DEF IngestTypeOK, AuditIsConsumedLog
<1>6. /\ usage'[p] = Append(usage[p], row)
      /\ Len(usage'[p]) = checkpoint[p] + 1
      /\ usage'[p] \in Seq(UsageRow)
      /\ usage'[p][checkpoint[p] + 1] = row
      /\ \A i \in 1 .. checkpoint[p] : usage'[p][i] = usage[p][i]
  BY <1>3, <1>4, <1>5 DEF IngestTypeOK
<1>7. \A q \in Partitions \ {p} :
          usage'[q] = usage[q] /\ checkpoint'[q] = checkpoint[q] /\ next'[q] = next[q] /\ fetched'[q] = fetched[q]
  BY <1>4 DEF IngestTypeOK
<1>8. /\ checkpoint'[p] = checkpoint[p] + 1 /\ next'[p] = checkpoint[p] + 1
      /\ fetched'[p] = FALSE
  BY <1>1, <1>4 DEF IngestTypeOK
<1>9. IngestTypeOK'
  BY <1>1, <1>4, <1>6 DEF IngestTypeOK
<1>10. AuditIsConsumedLog'
  <2> SUFFICES ASSUME NEW q \in Partitions
               PROVE  /\ checkpoint'[q] = Len(usage'[q])
                      /\ checkpoint'[q] <= Len(log'[q])
                      /\ \A i \in 1 .. checkpoint'[q] : usage'[q][i].record = log'[q][i]
    BY DEF AuditIsConsumedLog
  <2>1. CASE q = p
    <3>1. \A i \in 1 .. checkpoint[p] : usage'[p][i].record = log[p][i]
      BY <1>6 DEF AuditIsConsumedLog
    <3>2. usage'[p][checkpoint[p] + 1].record = log[p][checkpoint[p] + 1]
      BY <1>1, <1>3, <1>6
    <3> QED
      BY <2>1, <3>1, <3>2, <1>1, <1>4, <1>6, <1>8 DEF IngestTypeOK
  <2>2. CASE q # p
    BY <2>2, <1>4, <1>7 DEF AuditIsConsumedLog
  <2> QED
    BY <2>1, <2>2
<1>11. MemoryMatches'
  BY <1>4, <1>7, <1>8 DEF MemoryMatches
<1> QED
  BY <1>9, <1>10, <1>11

\* A record appended to the log is at an offset nobody has reached.
LEMMA ProduceStep ==
    ASSUME IngestInv, NEW p \in Partitions, NEW r \in Records, Produce(p, r)
    PROVE  IngestInv'
<1> USE DEF IngestInv
<1>1. /\ log' = [log EXCEPT ![p] = Append(@, r)]
      /\ UNCHANGED <<logStart, sessions, usage, checkpoint, running, next, fetched, crashes>>
  BY DEF Produce, workerVars
<1>2. \A q \in Partitions :
          /\ log'[q] \in Seq(Records)
          /\ Len(log'[q]) >= Len(log[q])
          /\ \A i \in 1 .. Len(log[q]) : log'[q][i] = log[q][i]
  <2> TAKE q \in Partitions
  <2>1. log[q] \in Seq(Records) /\ log[p] \in Seq(Records)
    BY DEF IngestTypeOK
  <2>2. CASE q = p
    BY <2>1, <2>2, <1>1 DEF IngestTypeOK
  <2>3. CASE q # p
    BY <2>1, <2>3, <1>1 DEF IngestTypeOK
  <2> QED
    BY <2>2, <2>3
<1>3. IngestTypeOK'
  BY <1>1, <1>2 DEF IngestTypeOK
<1>4. \A q \in Partitions : checkpoint[q] \in Nat /\ Len(log[q]) \in Nat /\ Len(log'[q]) \in Nat /\ next[q] \in Nat
  BY <1>2 DEF IngestTypeOK
<1>5. AuditIsConsumedLog'
  BY <1>1, <1>2, <1>4 DEF AuditIsConsumedLog
<1>6. MemoryMatches'
  BY <1>1, <1>2, <1>4 DEF MemoryMatches
<1> QED
  BY <1>3, <1>5, <1>6

\* Every step of the consumer, and of the topic, keeps its invariant.
LEMMA IngestInvNext == IngestInv /\ [IngestNext]_ingestVars => IngestInv'
<1> SUFFICES ASSUME IngestInv, [IngestNext]_ingestVars PROVE IngestInv'
  OBVIOUS
<1> USE DEF IngestInv, kafkaVars, workerVars
<1>1. CASE Start
  <2> USE <1>1 DEF Start, Retained
  <2>1. IngestTypeOK'
    BY DEF IngestTypeOK
  <2>2. AuditIsConsumedLog'
    BY DEF AuditIsConsumedLog
  <2>3. MemoryMatches'
    BY DEF MemoryMatches
  <2> QED
    BY <2>1, <2>2, <2>3
<1>2. CASE Down
  <2> USE <1>2 DEF Down
  <2>1. IngestTypeOK'
    <3>1. fetched' \in [Partitions -> BOOLEAN]
      BY Zenon
    <3>2. next' \in [Partitions -> Nat] /\ crashes' \in Nat
      BY DEF IngestTypeOK
    <3> QED
      BY <3>1, <3>2 DEF IngestTypeOK
  <2>2. AuditIsConsumedLog'
    BY DEF AuditIsConsumedLog
  <2>3. MemoryMatches'
    BY DEF MemoryMatches
  <2> QED
    BY <2>1, <2>2, <2>3
<1>3. ASSUME NEW p \in Partitions, Fetch(p) PROVE IngestInv'
  <2> USE <1>3 DEF Fetch
  <2>1. IngestTypeOK'
    BY DEF IngestTypeOK
  <2>2. AuditIsConsumedLog'
    BY DEF AuditIsConsumedLog
  <2>3. MemoryMatches'
    BY DEF MemoryMatches, IngestTypeOK
  <2> QED
    BY <2>1, <2>2, <2>3
<1>4. CASE UNCHANGED <<log, usage, checkpoint, running, next, fetched, crashes>>
           /\ (UNCHANGED sessions \/ \E s \in Sessions : sessions' = sessions \cup {s})
           /\ logStart' \in [Partitions -> Nat]
  <2>1. IngestTypeOK'
    BY <1>4 DEF IngestTypeOK
  <2>2. AuditIsConsumedLog' /\ MemoryMatches'
    BY <1>4 DEF AuditIsConsumedLog, MemoryMatches
  <2> QED
    BY <2>1, <2>2
<1>5. ASSUME NEW p \in Partitions, Truncate(p) PROVE IngestInv'
  <2>1. logStart' \in [Partitions -> Nat]
    BY <1>5 DEF Truncate, IngestTypeOK
  <2> QED
    BY <2>1, <1>4, <1>5 DEF Truncate
<1>6. ASSUME NEW s \in Sessions, OpenSession(s) PROVE IngestInv'
  BY <1>4, <1>6 DEF OpenSession, IngestTypeOK
<1>7. CASE Manage
  BY <1>4, <1>7 DEF Manage, IngestTypeOK
<1>8. CASE UNCHANGED ingestVars
  BY <1>4, <1>8 DEF ingestVars, IngestTypeOK
<1>9. CASE Crash
  BY <1>2, <1>9 DEF Crash
<1>10. ASSUME NEW p \in Partitions, OutOfRange(p) PROVE IngestInv'
  BY <1>2, <1>10 DEF OutOfRange
<1> QED
  BY <1>1, <1>3, <1>5, <1>6, <1>7, <1>8, <1>9, <1>10, IngestStep, ProduceStep DEF IngestNext

\* What the worker has in memory matches its checkpoints, and the audit rows the log.
THEOREM IngestInvariant == IngestSpec => []IngestInv
BY IngestInvInit, IngestInvNext, PTL DEF IngestSpec

\* No record is skipped or counted twice, across crashes and truncation.
THEOREM AuditCorrect == IngestSpec => []AuditIsConsumedLog
<1>1. IngestInv => AuditIsConsumedLog
  BY DEF IngestInv
<1> QED
  BY <1>1, IngestInvariant, PTL

-----------------------------------------------------------------------------
(***************************************************************************)
(* The worker only ever moves the budget by a charge of Budget.            *)
(***************************************************************************)
\* What an applied record charges is an amount, to an allocation.
LEMMA AppliedIsChargeable ==
    ASSUME IngestTypeOK, NEW r \in Records, Outcome(r) = "applied"
    PROVE  /\ SessionAllocation[r.auth] \in Allocations
           /\ FeeIn(r, SessionCurrency(r.auth)) \in Amounts
           /\ Holders(r.id) = {}
<1>1. r.kind = "ticket" /\ TicketOutcome(r) = "applied" /\ Holders(r.id) = {}
  BY RecordsAssumption DEF Outcome
<1>2. /\ r.auth \in Sessions
      /\ r.wei # Invalid /\ r.usd # Invalid
      /\ FeeIn(r, SessionCurrency(r.auth)) # Missing
  BY <1>1 DEF TicketOutcome, IngestTypeOK, FeeInvalid
<1>3. r.wei \in Amounts /\ (r.usd \in Amounts \/ r.usd = Missing)
  BY <1>1, <1>2, RecordsAssumption
<1>4. FeeIn(r, SessionCurrency(r.auth)) \in Amounts
  BY <1>2, <1>3 DEF FeeIn
<1> QED
  BY <1>1, <1>2, <1>4, SessionsAssumption

\* The record in the worker's hands.
LEMMA FetchedIsRecord ==
    ASSUME IngestInv, NEW p \in Partitions, Ingest(p)
    PROVE  log[p][next[p] + 1] \in Records
BY DEF IngestInv, Ingest, IngestTypeOK, MemoryMatches

\* Every step of the consumer is one of the budgets, or leaves them alone.
LEMMA BudgetStepOfIngest ==
    ASSUME IngestInv, [IngestNext]_ingestVars
    PROVE  [Next]_vars
<1>1. ASSUME NEW p \in Partitions, Ingest(p)
      PROVE  [Next]_vars
  <2> DEFINE r == log[p][next[p] + 1]
  <2>1. r \in Records
    BY <1>1, FetchedIsRecord
  <2>2. CASE Outcome(r) = "applied"
    <3>1. Charge(SessionAllocation[r.auth], FeeIn(r, SessionCurrency(r.auth)))
      BY <1>1, <2>2 DEF Ingest
    <3>2. /\ SessionAllocation[r.auth] \in Allocations
          /\ FeeIn(r, SessionCurrency(r.auth)) \in Amounts
      BY <2>1, <2>2, AppliedIsChargeable DEF IngestInv
    <3> QED
      BY <3>1, <3>2 DEF Next, Usage
  <2>3. CASE Outcome(r) # "applied"
    BY <1>1, <2>3 DEF Ingest
  <2> QED
    BY <2>2, <2>3
<1>2. CASE Manage
  BY <1>2 DEF Manage, Next
<1>3. CASE Start \/ Crash \/ (\E s \in Sessions : OpenSession(s))
             \/ (\E p \in Partitions : Fetch(p) \/ OutOfRange(p) \/ Truncate(p)
                                         \/ \E r \in Records : Produce(p, r))
  BY <1>3 DEF Start, Crash, Down, OpenSession, Fetch, OutOfRange, Truncate, Produce
<1>4. CASE UNCHANGED ingestVars
  BY <1>4 DEF ingestVars
<1> QED
  BY <1>1, <1>2, <1>3, <1>4 DEF IngestNext

\* The worker implements Budget: what is proved of the budget holds beside it.
THEOREM IngestionImplementsBudget == IngestSpec => Spec
<1>1. IngestInit => Init
  BY DEF IngestInit
<1>2. IngestInv /\ [IngestNext]_ingestVars => [Next]_vars
  BY BudgetStepOfIngest
<1> QED
  BY <1>1, <1>2, IngestInvariant, PTL DEF IngestSpec, Spec

\* Everything that is proved of the budget holds beside ingestion.
THEOREM BudgetBesideIngestion == IngestSpec => []BudgetInv
BY IngestionImplementsBudget, BudgetInvariant, PTL

-----------------------------------------------------------------------------
(***************************************************************************)
(* The worker implements ChargeOnce.                                       *)
(***************************************************************************)
\* Management posts nothing to the spent accounts.
LEMMA ManagementKeepsSpent ==
    ASSUME BudgetInv, Management \/ UNCHANGED balance, NEW a \in Allocations
    PROVE  balance'[Spent(a)] = balance[Spent(a)]
<1> USE AmountsAreNat
<1>1. /\ TypeOK
      /\ Spent(a) \in Accounts
  BY AccountsDiffer DEF BudgetInv
<1>2. ASSUME NEW x \in Accounts, NEW y \in Accounts, x # y, NEW n \in Int,
             x # Spent(a), y # Spent(a), balance' = Transfer(x, y, n)
      PROVE  balance'[Spent(a)] = balance[Spent(a)]
  BY <1>1, <1>2, TransferMoves
<1>3. ASSUME NEW g \in Grants, NEW n \in Amounts,
             balance' = Transfer(FundingSource(g), Unallocated(g), n)
      PROVE  balance'[Spent(a)] = balance[Spent(a)]
  BY <1>2, <1>3, AccountsDiffer
<1>4. ASSUME NEW b \in Allocations, NEW n \in Int,
             \/ balance' = Transfer(Pool(b), Available(b), n)
             \/ balance' = Transfer(Available(b), Pool(b), n)
      PROVE  balance'[Spent(a)] = balance[Spent(a)]
  <2>1. /\ Pool(b) \in Accounts /\ Available(b) \in Accounts /\ Pool(b) # Available(b)
        /\ Pool(b) # Spent(a) /\ Available(b) # Spent(a)
    BY GrantOfAssumption, AccountsDiffer DEF Pool
  <2> QED
    BY <1>2, <1>4, <2>1
<1>5. CASE UNCHANGED balance
  BY <1>5
<1>6. ASSUME NEW g \in Grants, NEW s \in GrantStatuses, NEW n \in Amounts,
             CreateGrant(g, s, n) \/ FundGrant(g, n)
      PROVE  balance'[Spent(a)] = balance[Spent(a)]
  BY <1>3, <1>6 DEF CreateGrant, FundGrant
<1>7. ASSUME NEW b \in Allocations, NEW s \in AllocationStatuses, NEW r \in Amounts \cup {All},
             CreateAllocation(b, s, r) \/ FundAllocation(b, r)
      PROVE  balance'[Spent(a)] = balance[Spent(a)]
  <2>1. AllocationAmount(r, balance[Pool(b)]) \in Int
    BY AllocationAmountIsNat DEF Pool
  <2>2. balance' = Transfer(Pool(b), Available(b), AllocationAmount(r, balance[Pool(b)]))
    BY <1>7 DEF CreateAllocation, FundAllocation, Pool
  <2> QED
    BY <1>4, <2>1, <2>2
<1>8. ASSUME NEW b \in Allocations, Revoke(b)
      PROVE  balance'[Spent(a)] = balance[Spent(a)]
  <2>1. Returned(balance[Available(b)]) \in Int
    BY PoolTransferMoves DEF Returned
  <2>2. balance' = Transfer(Available(b), Pool(b), Returned(balance[Available(b)]))
    BY <1>8 DEF Revoke, Pool
  <2> QED
    BY <1>4, <2>1, <2>2
<1>9. ASSUME NEW g \in Grants, NEW s \in GrantStatuses, SetGrantStatus(g, s)
      PROVE  balance'[Spent(a)] = balance[Spent(a)]
  BY <1>9 DEF SetGrantStatus
<1>10. ASSUME NEW b \in Allocations, NEW s \in AllocationStatuses, SetAllocationStatus(b, s)
       PROVE  balance'[Spent(a)] = balance[Spent(a)]
  BY <1>10 DEF SetAllocationStatus
<1>11. "active" \in AllocationStatuses /\ "active" \in GrantStatuses
  BY DEF AllocationStatuses, GrantStatuses
<1> QED
  BY <1>5, <1>6, <1>7, <1>8, <1>9, <1>10, <1>11 DEF Management

\* A step that commits no row makes no bill.
LEMMA NoRowNoBill == UNCHANGED usage => UNCHANGED Bills
BY DEF Bills, Rows

\* The row an Ingest commits is the only new one.
LEMMA IngestAddsRow ==
    ASSUME IngestInv, NEW p \in Partitions, Ingest(p)
    PROVE  LET r == log[p][next[p] + 1]
           IN  Rows' = Rows \cup {[record |-> r, outcome |-> Outcome(r)]}
<1> DEFINE r == log[p][next[p] + 1]
           row == [record |-> r, outcome |-> Outcome(r)]
<1>1. /\ usage \in [Partitions -> Seq(UsageRow)]
      /\ usage' = [usage EXCEPT ![p] = Append(@, row)]
      /\ r \in Records
  BY FetchedIsRecord DEF Ingest, IngestInv, IngestTypeOK
<1>2. row \in UsageRow
  BY <1>1, OutcomeIsOutcome DEF UsageRow
<1> HIDE DEF row
<1>3. /\ usage'[p] = Append(usage[p], row)
      /\ usage[p] \in Seq(UsageRow)
      /\ \A q \in Partitions \ {p} : usage'[q] = usage[q]
  BY <1>1
<1>4. /\ DOMAIN usage'[p] = 1 .. Len(usage[p]) + 1
      /\ DOMAIN usage[p] = 1 .. Len(usage[p])
      /\ Len(usage[p]) \in Nat
      /\ \A i \in DOMAIN usage[p] : usage'[p][i] = usage[p][i]
      /\ usage'[p][Len(usage[p]) + 1] = row
  BY <1>2, <1>3
<1>5. {usage'[p][i] : i \in DOMAIN usage'[p]} = {usage[p][i] : i \in DOMAIN usage[p]} \cup {row}
  <2>1. \A i \in DOMAIN usage'[p] : i \in DOMAIN usage[p] \/ i = Len(usage[p]) + 1
    BY <1>4
  <2>2. Len(usage[p]) + 1 \in DOMAIN usage'[p] /\ DOMAIN usage[p] \subseteq DOMAIN usage'[p]
    BY <1>4
  <2> QED
    BY <1>4, <2>1, <2>2
<1>6. Rows' = Rows \cup {row}
  <2>1. \A q \in Partitions : {usage'[q][i] : i \in DOMAIN usage'[q]}
           = {usage[q][i] : i \in DOMAIN usage[q]} \cup (IF q = p THEN {row} ELSE {})
    BY <1>3, <1>5
  <2> HIDE <1>5
  <2> QED
    BY <2>1 DEF Rows
<1> QED
  BY <1>6 DEF row

\* Ingesting a record bills its event, or bills nothing.
LEMMA IngestBills ==
    ASSUME IngestInv, BudgetInv, NEW p \in Partitions, Ingest(p)
    PROVE  [Charged!Next]_(Charged!chargeVars)
<1> DEFINE r == log[p][next[p] + 1]
           a == SessionAllocation[r.auth]
           n == FeeIn(r, SessionCurrency(r.auth))
           spentNow == [b \in Allocations |-> balance[Spent(b)]]
<1>1. /\ r \in Records
      /\ Rows' = Rows \cup {[record |-> r, outcome |-> Outcome(r)]}
  BY FetchedIsRecord, IngestAddsRow
<1>2. CASE Outcome(r) = "applied"
  <2>1. a \in Allocations /\ n \in Amounts /\ Holders(r.id) = {} /\ r.id \in {x.id : x \in Records}
    BY <1>1, <1>2, AppliedIsChargeable DEF IngestInv
  <2>2. Charge(a, n)
    BY <1>2 DEF Ingest
  <2>3. \A b \in Bills : b.event # r.id
    BY <2>1 DEF Bills, BillOf, Holders, HoldsId
  <2>4. Bills' = Bills \cup {[event |-> r.id, payer |-> a, units |-> n]}
    <3> DEFINE row == [record |-> r, outcome |-> Outcome(r)]
    <3>1. row.record = r /\ row.outcome = "applied" /\ Rows' = Rows \cup {row}
      BY <1>1, <1>2
    <3>2. BillOf(row.record) = [event |-> r.id, payer |-> a, units |-> n]
      BY <3>1 DEF BillOf
    <3> HIDE DEF row
    <3>3. {x \in Rows' : x.outcome = "applied"} = {x \in Rows : x.outcome = "applied"} \cup {row}
      BY <3>1
    <3>4. Bills' = Bills \cup {BillOf(row.record)}
      BY <3>3 DEF Bills
    <3> QED
      BY <3>2, <3>4
  <2>5. [b \in Allocations |-> balance'[Spent(b)]] = [spentNow EXCEPT ![a] = @ + n]
    <3>1. /\ Available(a) \in Accounts /\ Spent(a) \in Accounts /\ n \in Int
          /\ Available(a) # Spent(a) /\ TypeOK
      BY <2>1, AccountsDiffer, AmountsAreNat DEF BudgetInv
    <3> HIDE DEF a, n
    <3>2. /\ balance'[Spent(a)] = balance[Spent(a)] + n
          /\ \A z \in Accounts \ {Available(a), Spent(a)} : balance'[z] = balance[z]
      BY <2>2, <3>1, TransferMoves DEF Charge
    <3>3. \A b \in Allocations \ {a} : balance'[Spent(b)] = balance[Spent(b)]
      BY <2>1, <3>2, AccountsDiffer
    <3> QED
      BY <2>1, <3>2, <3>3
  <2>6. Charged!Bill(r.id, a, n)
    BY <2>3, <2>4, <2>5 DEF Charged!Bill
  <2> QED
    BY <2>1, <2>6 DEF Charged!Next
<1>3. CASE Outcome(r) # "applied"
  <2>1. Bills' = Bills
    BY <1>1, <1>3 DEF Bills
  <2>2. UNCHANGED balance
    BY <1>3 DEF Ingest, vars
  <2> QED
    BY <2>1, <2>2 DEF Charged!chargeVars
<1> QED
  BY <1>2, <1>3

\* Every charge is the first of its event, and only charges spend.
THEOREM IngestionImplementsChargeOnce == IngestSpec => ChargesOnce
<1>1. IngestInit => Charged!Init
  <2> SUFFICES ASSUME IngestInit PROVE Charged!Init
    OBVIOUS
  <2>1. Bills = {}
    BY DEF IngestInit, Bills, Rows
  <2>2. \A a \in Allocations : balance[Spent(a)] = 0
    BY AccountsDiffer DEF IngestInit, Init
  <2> QED
    BY <2>1, <2>2 DEF Charged!Init
<1>2. IngestInv /\ BudgetInv /\ [IngestNext]_ingestVars => [Charged!Next]_(Charged!chargeVars)
  <2> SUFFICES ASSUME IngestInv, BudgetInv, [IngestNext]_ingestVars
               PROVE  [Charged!Next]_(Charged!chargeVars)
    OBVIOUS
  <2>1. CASE UNCHANGED usage /\ (Management \/ UNCHANGED balance)
    <3>1. Bills' = Bills
      BY <2>1, NoRowNoBill
    <3>2. \A a \in Allocations : balance'[Spent(a)] = balance[Spent(a)]
      BY <2>1, ManagementKeepsSpent
    <3> QED
      BY <3>1, <3>2 DEF Charged!chargeVars
  <2>2. CASE Manage
    BY <2>1, <2>2 DEF Manage
  <2>3. CASE Start \/ Crash \/ (\E s \in Sessions : OpenSession(s))
               \/ (\E p \in Partitions : Fetch(p) \/ OutOfRange(p) \/ Truncate(p)
                                           \/ \E r \in Records : Produce(p, r))
               \/ UNCHANGED ingestVars
    <3>1. UNCHANGED usage /\ UNCHANGED balance
      BY <2>3 DEF Start, Crash, Down, OpenSession, Fetch, OutOfRange, Truncate, Produce,
                  ingestVars, vars
    <3> QED
      BY <2>1, <3>1
  <2> QED
    BY <2>2, <2>3, IngestBills DEF IngestNext
<1> QED
  BY <1>1, <1>2, IngestInvariant, BudgetBesideIngestion, PTL
     DEF IngestSpec, ChargesOnce, Charged!Spec
-----------------------------------------------------------------------------
(***************************************************************************)
(* A genuine ticket is charged.  What makes the claim inductive is where   *)
(* tickets come from: a signer has a session, so the session of every      *)
(* ticket in the log is a row of payment_sessions, and rows are not        *)
(* deleted.                                                                *)
(***************************************************************************)
LogAuthorized ==
    \A p \in Partitions : \A i \in DOMAIN log[p] :
        log[p][i].kind = "ticket" /\ log[p][i].auth \in Sessions => log[p][i].auth \in sessions

\* The row that holds a genuine ticket's event id, if its payload is the
\* ticket's, has charged it.
GenuineApplied ==
    \A row \in Rows : Genuine(row.record) /\ HoldsId(row) => row.outcome = "applied"

\* The event id of a consumed genuine ticket is held.
GenuineHeld == \A row \in Rows : Genuine(row.record) => Holders(row.record.id) # {}

GenuineInv == LogAuthorized /\ GenuineApplied /\ GenuineHeld

\* A genuine ticket of a known session is charged unless its id is taken.
LEMMA GenuineOutcome ==
    ASSUME NEW r \in Records, Genuine(r), r.auth \in sessions
    PROVE  Holders(r.id) = {} => Outcome(r) = "applied"
BY DEF Outcome, TicketOutcome, Genuine

\* The audit rows stay, and with them what holds an event id.
LEMMA RowsKeepGenuine ==
    ASSUME UNCHANGED usage, GenuineApplied, GenuineHeld
    PROVE  GenuineApplied' /\ GenuineHeld'
BY DEF GenuineApplied, GenuineHeld, Rows, Holders

\* A record ingested keeps what is known of genuine usage.
LEMMA IngestKeepsGenuine ==
    ASSUME IngestInv, GenuineInv, NEW p \in Partitions, Ingest(p)
    PROVE  GenuineInv'
<1> DEFINE r == log[p][next[p] + 1]
           row == [record |-> r, outcome |-> Outcome(r)]
<1>1. r \in Records /\ Rows' = Rows \cup {row}
  BY FetchedIsRecord, IngestAddsRow
<1>2. next[p] + 1 \in DOMAIN log[p]
  BY DEF Ingest, IngestInv, IngestTypeOK, MemoryMatches
<1>3. Genuine(r) => r.auth \in sessions
  BY <1>2 DEF GenuineInv, LogAuthorized, Genuine
<1>4. Genuine(r) /\ Holders(r.id) = {} => row.outcome = "applied"
  BY <1>1, <1>3, GenuineOutcome
<1>5. row.record = r /\ (HoldsId(row) /\ r.kind = "ticket" => Holders(r.id) = {})
  BY DEF HoldsId, Outcome
<1>6. row.outcome = "applied" => HoldsId(row)
  BY DEF HoldsId
<1> HIDE DEF row
<1>7. LogAuthorized'
  BY DEF GenuineInv, LogAuthorized, Ingest, kafkaVars
<1>8. GenuineApplied'
  BY <1>1, <1>4, <1>5 DEF GenuineInv, GenuineApplied, Genuine
<1>9. \A id : Holders(id) \subseteq Holders(id)'
  BY <1>1 DEF Holders
<1>10. ASSUME NEW id, id = r.id, Genuine(r)
       PROVE  Holders(id)' # {}
  <2>1. HoldsId(row) => row \in Holders(id)'
    BY <1>1, <1>5, <1>10 DEF Holders
  <2> QED
    BY <2>1, <1>4, <1>6, <1>9, <1>10
<1>11. ASSUME NEW x \in Rows', NEW id, id = x.record.id, Genuine(x.record)
       PROVE  Holders(id)' # {}
  BY <1>1, <1>5, <1>9, <1>10, <1>11 DEF GenuineInv, GenuineHeld
<1>12. GenuineHeld'
  BY <1>11 DEF GenuineHeld, Genuine
<1> QED
  BY <1>7, <1>8, <1>12 DEF GenuineInv

\* A record produced keeps what is known of genuine usage.
LEMMA ProduceKeepsGenuine ==
    ASSUME IngestInv, GenuineInv, NEW p \in Partitions, NEW r \in Records, Produce(p, r)
    PROVE  GenuineInv'
<1>1. /\ log' = [log EXCEPT ![p] = Append(@, r)]
      /\ r.kind = "ticket" /\ r.auth \in Sessions => r.auth \in sessions
      /\ UNCHANGED <<usage, sessions>>
  BY DEF Produce
<1>2. ASSUME NEW q \in Partitions, NEW i \in DOMAIN log'[q]
      PROVE  log'[q][i] = r \/ (i \in DOMAIN log[q] /\ log'[q][i] = log[q][i])
  <2>1. log \in [Partitions -> Seq(Records)] /\ log[p] \in Seq(Records)
    BY DEF IngestInv, IngestTypeOK
  <2>2. CASE q = p
    BY <1>1, <1>2, <2>1, <2>2
  <2>3. CASE q # p
    BY <1>1, <1>2, <2>1, <2>3
  <2> QED
    BY <2>2, <2>3
<1>3. LogAuthorized'
  BY <1>1, <1>2 DEF GenuineInv, LogAuthorized
<1> QED
  BY <1>1, <1>3, RowsKeepGenuine DEF GenuineInv

\* Every step keeps what is known of genuine usage.
LEMMA GenuineInvNext ==
    ASSUME IngestInv, GenuineInv, [IngestNext]_ingestVars
    PROVE  GenuineInv'
<1>1. CASE UNCHANGED <<log, usage>> /\ sessions \subseteq sessions'
  <2>1. LogAuthorized'
    BY <1>1 DEF GenuineInv, LogAuthorized
  <2> QED
    BY <1>1, <2>1, RowsKeepGenuine DEF GenuineInv
<1>2. CASE Start \/ Crash \/ Manage \/ (\E s \in Sessions : OpenSession(s))
           \/ (\E p \in Partitions : Fetch(p) \/ OutOfRange(p) \/ Truncate(p))
           \/ UNCHANGED ingestVars
  BY <1>1, <1>2 DEF Start, Crash, Down, Manage, OpenSession, Fetch, OutOfRange, Truncate,
                    ingestVars, kafkaVars
<1> QED
  BY <1>2, IngestKeepsGenuine, ProduceKeepsGenuine DEF IngestNext

\* A genuine ticket is charged exactly when nothing else has taken its event id,
\* whatever became of its allocation and however often the worker went down.
THEOREM GenuineCharged == IngestSpec => []GenuineTicketsCharged
<1>1. IngestInit => GenuineInv
  BY DEF IngestInit, GenuineInv, LogAuthorized, GenuineApplied, GenuineHeld, Rows
<1>2. IngestInv /\ GenuineInv /\ [IngestNext]_ingestVars => GenuineInv'
  BY GenuineInvNext
<1>3. GenuineInv => GenuineTicketsCharged
  <2> SUFFICES ASSUME GenuineInv, NEW p \in Partitions, NEW i \in DOMAIN usage[p],
                      Genuine(usage[p][i].record)
               PROVE  LET r == usage[p][i].record
                      IN  /\ Holders(r.id) # {}
                          /\ \A row \in Holders(r.id) : row.record = r => row.outcome = "applied"
    BY DEF GenuineTicketsCharged
  <2>1. usage[p][i] \in Rows
    BY DEF Rows
  <2> QED
    BY <2>1 DEF GenuineInv, GenuineApplied, GenuineHeld, Holders
<1> QED
  BY <1>1, <1>2, <1>3, IngestInvariant, PTL DEF IngestSpec
=============================================================================
