SPECIFICATION Spec
CONSTANTS
    Encoders = {e1, e2}
    Decoders = {d1, d2}
INVARIANTS
    TypeOK
    CountExact
    StatesLive
    NoLeak
