\* The validator task and two others share the nonce; one fault.
SPECIFICATION FairPoaSpec
CONSTANTS
    k1 = k1 k2 = k2 k3 = k3
    Tasks = {"poa", "outgoing", "incoming"}
    PoaTask = "poa"
    MaxNonce = 2
    MaxFaults = 1
    Keys = {k1, k2, k3}
    MaxEpoch = 1
    MembersOf <- TwoEpochs
    Genesis <- GenesisSet
INVARIANTS PoaTypeOK NoncesGapless NoncesDistinct
PROPERTIES GapStaysOpen SendsComplete UpdatesReachEpoch ValidatorsFollow
CHECK_DEADLOCK FALSE
