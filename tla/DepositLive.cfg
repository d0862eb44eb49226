\* Both tasks with fairness and a fault while the subscription lasts.
SPECIFICATION FairSpec
CONSTANTS
    MaxEvents = 2
    MaxBlock = 2
    MaxFaults = 1
    BlockRange = 3
    Overlap = 1
    StreamEnds = FALSE
    Deposits = {0}
    SourceTx <- OwnTx
    Lookalikes = {}
    NoEntry = NoEntry
    Unlinked = Unlinked
    OtherTx = OtherTx
PROPERTIES  RelayedEventsLinked
CHECK_DEADLOCK FALSE
