SPECIFICATION FairSpec
CONSTANT Sends = 3
INVARIANT Safety
PROPERTY NoneLost
