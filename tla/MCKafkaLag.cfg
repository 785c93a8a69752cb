SPECIFICATION LagSpec
CONSTANTS
    Partitions = {1, 2}
    MaxAge = 2
    MaxReal = 4
    MaxLog = 1
    MaxBack = 0
    MaxCrashes = 1
INVARIANTS
    BoundedStaleness
    FailsClosed
\* Time stops.
CHECK_DEADLOCK FALSE
