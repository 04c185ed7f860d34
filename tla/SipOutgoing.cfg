SPECIFICATION Spec
CONSTANTS
    Invites = {}
    Txs = {t1, t2, t3}
    None = None
    MaxSeq = 3
    Faults = TRUE
SYMMETRY Symmetry
INVARIANT
    CallNumbering
PROPERTY
    AckSeqMatches
