SPECIFICATION LagSpec
CONSTANTS
    Partitions = {1}
    MaxAge = 2
    MaxReal = 5
    MaxLog = 2
    MaxBack = 2
    MaxCrashes = 0
INVARIANTS
    BoundedStaleness
PROPERTIES
    QuietTopicAccepted
    RegressOnce
\* Time stops.
CHECK_DEADLOCK FALSE
