SPECIFICATION FairCondSpec
INVARIANTS
    CondTypeOK
    NoLostWakeup
    TakesOne
PROPERTY KeepsGoing
