SPECIFICATION FairThreadsSpec
INVARIANTS
    Safety
    AfterTheEnd
PROPERTIES
    SemExclusion
    Finishes
