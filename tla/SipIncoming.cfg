SPECIFICATION Spec
CONSTANTS
    Invites = {i1, i2}
    Txs = {t1, t2}
    None = None
    MaxSeq = 2
    Faults = TRUE
SYMMETRY Symmetry
INVARIANTS
    TypeOK
    IncomingAnswerable
    EstablishedDialogLive
PROPERTIES
    AnnouncedOncePerReset
    LineSpec
