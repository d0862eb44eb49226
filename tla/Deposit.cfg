\* Both tasks with a fault: what is relayed, linked and left out.
SPECIFICATION Spec
CONSTANTS
    MaxEvents = 3
    MaxBlock = 2
    MaxFaults = 1
    BlockRange = 2
    Overlap = 2
    StreamEnds = TRUE
    Deposits = {0, 1}
    SourceTx <- SharedTx
    Lookalikes = {2}
    NoEntry = NoEntry
    Unlinked = Unlinked
    OtherTx = OtherTx
INVARIANTS TypeOK StartsEarlyEnough NonceWithinEvents SubmittedInOrder LinksNameTransactions ClearingLeavesNoEvent
PROPERTIES StreamLosesOnlyOverlap ImplementsLedger
CHECK_DEADLOCK FALSE
