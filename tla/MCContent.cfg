SPECIFICATION ContentSpec
CONSTANTS
    MaxCrashes = 2
    StopTailErrors = TRUE
    BootErrors = TRUE
    StaleAtClose = TRUE
    StartsDuringRestore = FALSE
    MaxFiles = 4
    MaxVersion = 3
    MaxRestores = 2
    MaxRestoreFaults = 1
    MaxLosses = 1
    MaxCuts = 2
    TakeSequence <- TwoOfOneTake
    PageLimit = 1
    MediaSize = 2
    MaxManifest = 2
    MaxEvents = 3
    Viewer = {k1}
    Clearer = {w1, w2}
    MaxFrames = 3
    MaxClears = 2
INVARIANTS
    PublishedIsComplete
    DatabaseSafe
    CatalogSafe
    PreviewSafe
