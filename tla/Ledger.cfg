CONSTANTS
    Elements <- MCElements
    Dimensions = {"asset", "unit"}
    Utxqs <- MCUtxqs
    Mtxqs <- MCMtxqs
    Tracks <- MCTracks
    Lists = {"asset", "utxq", "mtxq"}
    Agreements = {"standard"}
    Names = {"standard", "other"}
    PageSize = 1
    Absent = Absent
SPECIFICATION MCSpec
INVARIANTS LTypeOK ListIsWhole LinksOpen MatchesAreWitnessed
