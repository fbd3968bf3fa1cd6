CONSTANTS
    IntMax = 7
    LongMax = 31
    Values = {1}
    Units = {37, 41}
    Assets = {37}
SPECIFICATION Spec
INVARIANT ProvedUnitsBalance
CHECK_DEADLOCK FALSE
