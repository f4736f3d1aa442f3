SPECIFICATION FairSpec
CONSTANTS
    Lines = 4
    Cap = 2
    Old = 2
    QueueMax = 6
INVARIANT Safety
PROPERTIES
    DeliveredOnce
    SemGuards
    BothEnd
