SPECIFICATION Spec
CONSTANTS
    None = None
    Keys = {k1, k2, k3}
    Writers = {w1, w2}
    CacheSize = 2
    MaxReceipts = 3
    MaxVersion = 3
    Duplicates = FALSE
SYMMETRY Symmetry
CONSTRAINT SequenceBound
ACTION_CONSTRAINT Spares
INVARIANTS
    AnsweredIsReplayed
PROPERTIES
    DocNeverRegresses
    ImplementsPromise
