SPECIFICATION FairSpec
CONSTANTS
    Rounds = 5
    SemMax = 6
INVARIANTS
    PrintsWhole
    NothingLeft
    UndoBalance
PROPERTIES
    SemExclusion
    Unblocked
