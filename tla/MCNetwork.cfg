SPECIFICATION NetworkSpec
CONSTANTS
    Tx = {t1, t2}
    CliRequest = {c1}
    Key = {k1, k2}
    MaxCli = 1
    MaxFaults = 2
    MaxDrops = 1
    MaxCrashes = 1
    MaxTrouble = 2
SYMMETRY Symmetry
CONSTRAINT TroubleBound
INVARIANTS
    TransactionHonest
    ProfilesKept
PROPERTIES
    CaptureUndisturbed
CHECK_DEADLOCK FALSE
