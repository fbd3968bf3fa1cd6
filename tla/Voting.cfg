CONSTANTS
    k1 = k1
    k2 = k2
    k3 = k3
    k4 = k4
    e1 = e1
    e2 = e2
    e3 = e3
    a1 = a1
    a2 = a2
    Keys <- MCKeys
    AuthLists <- MCAuthLists
    Thresholds <- MCThresholds
    NoSettings = NoSettings
    NoAuthList = NoAuthList
    NoThreshold = NoThreshold
    Entries = {e1, e2, e3}
    Addresses = {a1, a2}
    AddressOf <- MCAddressOf
    NotRegistered = NotRegistered
SPECIFICATION MCSpec
INVARIANTS TypeOK UniqueProposals OneVoteEach NothingDecidedWaits CanStillBeDecided
PROPERTIES OnlyOwnVoteChanges ImplementsQuorum
