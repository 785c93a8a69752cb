SPECIFICATION IdemSpec
CONSTANTS
    g1 = g1
    a1 = a1
    a2 = a2
    k1 = k1
    k2 = k2
    x1 = x1
    All = All
    None = None
    Failed = Failed
    Grants = {g1}
    Allocations = {a1, a2}
    KeyIds = {x1}
    Amounts = {0, 1}
    MaxFunding = 1
    MaxUsage = 1
    GrantOf <- MCGrantOf
    Currency <- MCCurrency
    Calls <- MCCalls
INVARIANTS
    ExecutedOnce
    OneCallPerKey

    
CHECK_DEADLOCK FALSE
