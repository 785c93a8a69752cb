SPECIFICATION PageSpec
CONSTANTS
    s1 = s1
    s2 = s2
    s3 = s3
    x1 = x1
    x2 = x2
    x3 = x3
    t1 = t1
    t2 = t2
    a = a
    b = b
    NoSession = NoSession
    Sessions = {s1, s2, s3}
    Settlements = {x1, x2, x3}
    Tickets = {t1, t2}
    TicketOf <- MCTicketOf
    Allocations = {a, b}
    AllocationOf <- MCAllocationOf
    Limits = {1, 2}
    Unfiltered = Unfiltered
    NoWalk = NoWalk
SYMMETRY Symmetry
INVARIANTS
    PageTypeOK
    AttributionIsCurrent
    SettlementCountsMatch
    NoRowTwice
    NothingSkipped
PROPERTIES
    AmbiguityIsFinal
