SPECIFICATION LiveEscrowSpec
CONSTANTS
    Latest = Latest
    Start = Latest
    Confirmations = 1
    BatchSize = 2
    Lookback = 2
    MaxHeight = 4
    MaxReorgs = 3
    MaxFailures = 0
    ann = ann
    fund = fund
    redeem = redeem
    Payloads = {fund, redeem}
    Calls <- MCCalls
    Mined <- MCMined
    Signers = {ann}
    Senders <- MCSenders
PROPERTIES
    CatchesUp
\* A listener that gave up has stopped, and so does the chain at its bounds.
CHECK_DEADLOCK FALSE
