SPECIFICATION EscrowSpec
CONSTANTS
    Latest = Latest
    Start = 2
    Confirmations = 0
    BatchSize = 2
    Lookback = 2
    MaxHeight = 4
    MaxReorgs = 2
    MaxFailures = 1
    ann = ann
    bob = bob
    eve = eve
    refund = refund
    redeem = redeem
    Payloads = {refund, redeem}
    Calls <- MCCalls
    Mined <- MCMined
    Signers = {ann, bob, eve}
    Senders <- MCSenders
INVARIANTS
    EscrowTypeOK
    LedgerMirrorsContract
    CanonicalIsChain
    NeverRefusedByBooks
    SummariesAreCurrent
PROPERTIES
    GivesUpOnlyWhenDeep
\* A listener that gave up has stopped, and so does the chain at its bounds.
CHECK_DEADLOCK FALSE
