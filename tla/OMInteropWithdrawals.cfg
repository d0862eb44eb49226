\* An unconstrained relayer: any checkpoint with any burn, lists in any order.
SPECIFICATION Spec
CONSTANTS
    owner = owner oper = oper rel = rel oracle1 = oracle1 oracle2 = oracle2
    alice = alice bob = bob tok1 = tok1 tok2 = tok2 sc1 = sc1 sc2 = sc2
    h1 = h1 h2 = h2 h3 = h3
    Owner = owner InitOperator = owner InitRelayer = owner InitOracle = oracle1
    Unset = Unset NoBinding = NoBinding
    Hashes = {h1, h2, h3}
    Principals = {owner}
    Oracles = {oracle1, oracle2}
    Accounts = {alice, bob}
    OmTokens = {tok1}
    ScTokens = {sc1}
    Amounts = {}
    Limits = {}
    Windows = {}
    Requests <- ArbitraryRequests
    HashLists <- ArbitraryLists
    NativeFees = {1}
    PriceOf <- Prices
    MaxUint32 = 3
    MaxUint64 = 3
    MaxCheckpoint = 2
    MaxTime = 0
    MaxBalance = 1
INVARIANTS BridgedInNonceOrder FrontIsIncomplete
PROPERTY ClosedStaysClosed
CHECK_DEADLOCK FALSE
