SPECIFICATION FairSpec
CONSTANTS
    Lines = 8
    Cap = 3
INVARIANTS
    TypeOK
    ReaderUntilEnd
PROPERTY SurvivorEnds
