SPECIFICATION Spec
CONSTANTS
    None = None
    Keys = {k1, k2}
    Writers = {w1, w2}
    CacheSize = 2
    MaxReceipts = 3
    MaxVersion = 3
    Duplicates = TRUE
SYMMETRY Symmetry
CONSTRAINT SequenceBound
INVARIANT AnsweredIsReplayed
