\* Deposits against rate limits and token maps, with LayerZero withdrawals
\* on the same event counter.
SPECIFICATION Spec
CONSTANTS
    owner = owner oper = oper rel = rel oracle1 = oracle1 oracle2 = oracle2
    alice = alice bob = bob tok1 = tok1 tok2 = tok2 sc1 = sc1 sc2 = sc2
    h1 = h1 h2 = h2 h3 = h3
    Owner = owner InitOperator = owner InitRelayer = owner InitOracle = oracle1
    Unset = Unset NoBinding = NoBinding
    Hashes = {h1, h2, h3}
    Principals = {owner}
    Oracles = {oracle1}
    Accounts = {alice}
    OmTokens = {tok1, tok2}
    ScTokens = {sc1}
    Amounts = {1, 2}
    Limits = {2}
    Windows = {0, 1, 2}
    Requests <- DepositRequests
    HashLists = {}
    NativeFees = {0}
    PriceOf <- Prices
    MaxUint32 = 3
    MaxUint64 = 3
    MaxCheckpoint = 1
    MaxTime = 3
    MaxBalance = 0
INVARIANTS TypeOK EventNoncesGapless InflowWithinLimit
CHECK_DEADLOCK FALSE
