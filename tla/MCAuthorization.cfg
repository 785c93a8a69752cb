SPECIFICATION AuthSpec
CONSTANTS
    g1 = g1
    a1 = a1
    k1 = k1
    k2 = k2
    s1 = s1
    b1 = b1
    r1 = r1
    r2 = r2
    All = All
    Unparsed = Unparsed
    NoAuth = NoAuth
    Grants = {g1}
    Allocations = {a1}
    Amounts = {1}
    MaxFunding = 1
    MaxUsage = 1
    Keys = {k1, k2}
    States = {s1}
    Requests = {r1, r2}
    TouchAge = 1
    MaxNow = 3
    GrantOf <- MCGrantOf
    Currency <- MCCurrency
    KeyAllocation <- MCKeyAllocation
    Opens <- MCOpens
    Closes <- MCCloses
    RequestOf <- MCRequestOf
INVARIANTS
    AllowedMatchSession
PROPERTIES
    OpenedWhenPermitted
\* Every request is answered and nothing is left to do.
CHECK_DEADLOCK FALSE
