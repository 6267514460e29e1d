SPECIFICATION Spec
CONSTANTS
    None = None
    Takes = {t1, t2}
    Keys = {stop1, swap1}
    SwapKeys = {swap1}
    MaxHandles = 1
SYMMETRY Symmetry
INVARIANTS
    LeaseFollowsTake
    SingleFinalizer
    OwnerHoldsItsTake
    TakeOutcome
    AcceptedStopOwned
    ReceiptsDurable
    SafeRelease
PROPERTIES
    SourceFailureKept
