CONSTANTS
    LeafAddresses = {"utxq", "matched", "mtxq1", "mtxq2"}
    Blobs = {"initiate", "reciprocate"}
    Absent = "absent"
    Payloads <- MCPayloads
SPECIFICATION Spec
PROPERTY MatchesBalance
