CONSTANTS
    IntMax = 7
    LongMax = 31
    Values = {0, 1, 2, 18}
    Units = {1, 3, 37}
    Assets = {37, 41}
SPECIFICATION Spec
INVARIANTS BalancedIsProved ProvedIsNearBalance
CHECK_DEADLOCK FALSE
