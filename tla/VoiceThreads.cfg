SPECIFICATION FairSpec
CONSTANT MaxCalls = 2
CHECK_DEADLOCK FALSE
INVARIANTS
    TypeOK
    MicOff
    LateSend
    OwnObjects
    EncodeExclusive
PROPERTIES
    MicReleased
    FrameCoded
