SPECIFICATION FairSpec
CONSTANTS
    Lines = 8
    Cap = 3
PROPERTY Finishes
