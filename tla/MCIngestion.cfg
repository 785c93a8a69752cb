SPECIFICATION MCSpec
CONSTANTS
    g1 = g1
    a1 = a1
    s1 = s1
    b1 = b1
    unknown = unknown
    p1 = p1
    p2 = p2
    All = All
    Invalid = Invalid
    Missing = Missing
    Grants = {g1}
    Allocations = {a1}
    Partitions = {p1, p2}
    Sessions = {s1}
    Amounts = {1, 2}
    MaxFunding = 2
    MaxUsage = 6
    MaxLog = 3
    MaxCrashes = 1
    GrantOf <- MCGrantOf
    Currency <- MCCurrency
    SessionAllocation <- MCSessionAllocation
    SessionBinding <- MCSessionBinding
    Records <- MCRecords
SYMMETRY Symmetry
INVARIANTS
    AuditIsConsumedLog
    GenuineTicketsCharged
PROPERTIES
    ChargesOnce
\* The log is full, everything is consumed, and management has nothing left.
CHECK_DEADLOCK FALSE
