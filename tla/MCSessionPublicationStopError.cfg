SPECIFICATION Spec
CONSTANTS
    MaxCrashes = 1
    StopTailErrors = TRUE
    BootErrors = FALSE
    StaleAtClose = FALSE
INVARIANT FootageReachable
