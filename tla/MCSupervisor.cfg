SPECIFICATION LiveSupervisorSpec
CONSTANTS
    p = p
    q = q
    web = web
    ingest = ingest
    lag = lag
    onchain = onchain
    accountingLock = accountingLock
    chainLock = chainLock
    NoLock = NoLock
    Processes = {p, q}
    Releases = {1, 3}
    Config <- MCConfig
    LockOrder <- MCLockOrder
    LockOf <- MCLockOf
    Web = web
    Lag = lag
    MaxStarts = 3
INVARIANTS
    HistoryIsWhole
    RunsOnItsSchema
    ComponentsExclusive
    EvidenceIsOwn
PROPERTIES
    ErrorKept
    TearsDown
\* After its last start a process may stay down.
CHECK_DEADLOCK FALSE
