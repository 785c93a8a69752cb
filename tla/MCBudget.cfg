SPECIFICATION MSpec
CONSTANTS
    g1 = g1
    g2 = g2
    a1 = a1
    a2 = a2
    a3 = a3
    All = All
    Grants = {g1, g2}
    Allocations = {a1, a2, a3}
    Amounts = {0, 1, 2}
    MaxFunding = 2
    MaxUsage = 2
    GrantOf <- MCGrantOf
    Currency <- MCCurrency
SYMMETRY Symmetry
INVARIANTS
    PoolNeverOverdrawn
    AllocatedIsAvailablePlusSpent
    StatusAgreesWithBalance
    SummariesMatchTables
PROPERTIES
    Finality
\* Everything revoked or closed and every bound reached: nothing is left to do.
CHECK_DEADLOCK FALSE
