SPECIFICATION Spec
CONSTANTS
    ByteMod = 4
    MaxGap = 2
    MaxGood = 3
    Den = 3
    Unit = 2
    MaxCarried = 1
    MaxSent = 6
    Window = 2
    MaxDups = 1
    Starts = {0, 13}
CHECK_DEADLOCK FALSE
INVARIANTS
    TypeOK
    QueueBound
    LostCount
PROPERTIES
    GivenForward
    PlayedForward
