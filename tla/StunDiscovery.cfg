SPECIFICATION FairSpec
CONSTANTS
    FirstTimeout = 300
    MaxTimeout = 1600
    GiveUpAfter = 7900
CHECK_DEADLOCK FALSE
INVARIANTS
    TypeOK
    Classified
    PortFree
PROPERTY Reported
