\* A restart after a completed checkpoint.
SPECIFICATION RelaySpec
CONSTANTS
    owner = owner oracle = oracle alice = alice bob = bob tok = tok sc = sc
    h1 = h1 h2 = h2 h3 = h3
    Owner = owner InitOperator = owner InitRelayer = owner InitOracle = oracle
    Unset = Unset NoBinding = NoBinding NoBurn = NoBurn
    Hashes = {h1, h2}
    Burns <- TwoCheckpoints
    CheckpointTxs <- TwoCheckpointsTxs
    LiveStream = FALSE
    MaxCrashes = 1
    MaxCheckpoint = 2
    Principals = {owner}
    Oracles = {oracle}
    Accounts = {alice, bob}
    OmTokens = {tok}
    ScTokens = {sc}
    Amounts = {}
    Limits = {}
    Windows = {}
    Requests = {}
    HashLists = {}
    NativeFees = {}
    PriceOf <- NoPrices
    MaxUint64 = 4
    MaxUint32 = 9
    MaxTime = 0
    MaxBalance = 0
INVARIANT ClearingAtOpenCheckpoint
CHECK_DEADLOCK FALSE
