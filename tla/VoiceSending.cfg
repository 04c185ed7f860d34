SPECIFICATION Spec
CONSTANTS
    RingFrames = 3
    Warmup = 1
    MaxFrames = 9
CHECK_DEADLOCK FALSE
INVARIANTS
    TypeOK
    Unbroken
    QueueBound
    CodedTwice
PROPERTIES
    PutForward
    SentForward
