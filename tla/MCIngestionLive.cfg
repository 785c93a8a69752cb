SPECIFICATION FairIngestSpec
CONSTANTS
    g1 = g1
    a1 = a1
    s1 = s1
    b1 = b1
    All = All
    Invalid = Invalid
    Missing = Missing
    Grants = {g1}
    Allocations = {a1}
    Partitions = {1, 2}
    Sessions = {s1}
    Amounts = {1}
    MaxFunding = 1
    MaxUsage = 1
    MaxLog = 2
    MaxCrashes = 2
    GrantOf <- MCGrantOf
    Currency <- MCCurrency
    SessionAllocation <- MCSessionAllocation
    SessionBinding <- MCSessionBinding
    Records <- MCRecords
PROPERTIES
    EverythingConsumed
\* The log is full, everything is consumed and nobody crashes any more.
CHECK_DEADLOCK FALSE
