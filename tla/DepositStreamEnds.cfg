\* The subscription ends while the clearing task waits.
SPECIFICATION FairSpec
CONSTANTS
    MaxEvents = 3
    MaxBlock = 2
    MaxFaults = 0
    BlockRange = 9
    Overlap = 1
    StreamEnds = TRUE
    Deposits = {0, 2}
    SourceTx <- OwnTx
    Lookalikes = {}
    NoEntry = NoEntry
    Unlinked = Unlinked
    OtherTx = OtherTx
PROPERTY EveryEventRelayed
CHECK_DEADLOCK FALSE
