SPECIFICATION Spec
CONSTANTS
    Invites = {i1}
    Txs = {t1, t2}
    None = None
    MaxSeq = 3
    Faults = FALSE
SYMMETRY Symmetry
PROPERTY
    RingingShown
