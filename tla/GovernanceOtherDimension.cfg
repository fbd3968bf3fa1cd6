CONSTANTS
    k1 = k1
    k2 = k2
    e1 = e1
    e2 = e2
    a1 = a1
    a2 = a2
    Keys = {k1, k2}
    AuthLists <- MCAuthLists
    Thresholds = {1, 2}
    NoSettings = NoSettings
    NoAuthList = NoAuthList
    NoThreshold = NoThreshold
    Entries = {e1, e2}
    Addresses = {a1, a2}
    AddressOf <- MCAddressOf
    NotRegistered = NotRegistered
    SharesContainer = TRUE
    DiscardsBlocks = FALSE
SPECIFICATION GSpec
PROPERTY OthersLeaveAlone
