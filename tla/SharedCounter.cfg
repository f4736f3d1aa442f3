SPECIFICATION FairSpec
CONSTANTS
    N = 3
    Writers = {1, 2}
    Limit <- ProgramLimit
INVARIANTS
    Counted
    DestroyUnused
PROPERTIES
    LockExclusion
    Terminates
