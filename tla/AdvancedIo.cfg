SPECIFICATION FairSpec
CONSTANTS
    Blocks = 4
    Cap = 2
INVARIANTS
    Safety
    Written
PROPERTIES
    TakenWhenOver
    Finishes
