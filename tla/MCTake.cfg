SPECIFICATION TakeSpec
CONSTANTS
    MaxCrashes = 3
    StopTailErrors = FALSE
    BootErrors = FALSE
    StaleAtClose = FALSE
    Capacity = 2
    SegmentLength = 2
    MayHang = TRUE
    MaxItems = 3
    MaxRecFaults = 2
    Decimation = 2
    MaxCameras = 2
    MaxTaps = 2
    MaxSourceFrames = 4
    MaxSourceFaults = 2
    MaxCalls = 2
    EngineCaller = {control, recording}
    MaxEngines = 3
    MaxEngineTaps = 2
    MaxEngineFaults = 2
INVARIANTS
    FootageReachable
    TakeAccounted
    IdentityKept
    RecorderSafe
    SourcesSafe
    EngineSafe
PROPERTIES
    ImplementsLifecycle
