\* The clearing task alone on a fresh deployment, with fairness.
SPECIFICATION FairRelaySpec
CONSTANTS
    owner = owner oracle = oracle alice = alice bob = bob tok = tok sc = sc
    h1 = h1 h2 = h2 h3 = h3
    Owner = owner InitOperator = owner InitRelayer = owner InitOracle = oracle
    Unset = Unset NoBinding = NoBinding NoBurn = NoBurn
    Hashes = {h1, h2, h3}
    Burns <- ThreeCheckpoints
    CheckpointTxs <- ThreeCheckpointsTxs
    LiveStream = FALSE
    MaxCrashes = 0
    MaxCheckpoint = 3
    Principals = {owner}
    Oracles = {oracle}
    Accounts = {alice, bob}
    OmTokens = {tok}
    ScTokens = {sc}
    Amounts = {}
    Limits = {}
    Windows = {}
    Requests = {}
    HashLists = {}
    NativeFees = {}
    PriceOf <- NoPrices
    MaxUint64 = 4
    MaxUint32 = 9
    MaxTime = 0
    MaxBalance = 0
PROPERTY CheckpointsSettle
CHECK_DEADLOCK FALSE
