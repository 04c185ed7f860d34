SPECIFICATION FairSpec
CONSTANTS
    Threads = {th1, th2, th3}
    None = None
    MaxFrames = 3
CHECK_DEADLOCK FALSE
INVARIANTS
    TypeOK
    QueuedWhenReady
    NoLostWakeup
PROPERTIES
    InOrder
    LagGrows
    Served
    StoppedEnds
