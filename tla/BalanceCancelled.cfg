CONSTANTS
    IntMax = 7
    LongMax = 31
    Values = {1, 2, 3}
    Units = {1, 3}
    Assets = {37}
SPECIFICATION Spec
INVARIANT ProvedIsBalanced
CHECK_DEADLOCK FALSE
