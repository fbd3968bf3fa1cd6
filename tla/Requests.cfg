CONSTANTS
    turing = turing
    church = church
    carol = carol
    load = load
    other = other
    usd = usd
    Keys = {turing, church, carol}
    AuthLists <- MCAuthLists
    Thresholds = {1, 2, 3}
    NoSettings = NoSettings
    NoAuthList = NoAuthList
    NoThreshold = NoThreshold
    Entries <- MCEntries
    Addresses <- MCEntries
    AddressOf <- MCAddressOf
    NotRegistered = NotRegistered
    Calls <- MCCalls
    Requests <- MCRequests
    Unknown = Unknown
    Unnamed = Unnamed
    NoRequest = NoRequest
    GenesisCommands <- MCGenesisCommands
    GenesisEntries <- MCGenesisEntries
    MaxDisturbances = 1
SPECIFICATION DSpec
INVARIANTS RTypeOK RegisteredByConsent EffectsWereChecked
PROPERTIES GenesisSettles SeedDelivers
CHECK_DEADLOCK FALSE
