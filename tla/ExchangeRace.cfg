CONSTANTS
    Initiators = {u1, u2}
    Reciprocators = {r1, r2}
    Traders = {"alice"}
    Partnerships <- MCAlone
    InitiateVerbs <- MCAsk
    ReciprocateVerbs <- MCTell
    DependsOn <- MCTellDependsOn
    Quantities = {q1, q2}
    Absent = Absent
SPECIFICATION DSpec
INVARIANTS ETypeOK MatchedOnce MatchIsSound
PROPERTIES ImplementsLedger SubmittedGetsMatched
CHECK_DEADLOCK FALSE
