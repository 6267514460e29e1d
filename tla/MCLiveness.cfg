SPECIFICATION LiveSpec
CONSTANTS
    None = None
    Takes = {t1}
    Keys = {stop1, swap1}
    SwapKeys = {swap1}
    MaxHandles = 0
    Capacity = 1
    SegmentLength = 2
    MayHang = TRUE
    MaxItems = 2
    MaxRecFaults = 1
PROPERTIES
    WorkerTerminates
    CloseCompletes
    CloseReturns
