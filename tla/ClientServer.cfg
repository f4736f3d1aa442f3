SPECIFICATION FairSessionSpec
INVARIANT Safety
PROPERTIES
    QuitIsHeard
    BothEnd
