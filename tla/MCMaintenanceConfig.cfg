SPECIFICATION MaintenanceSpec
CONSTANTS
  Release = {r1, r2}
  MaxEdits = 1
  MaxOps = 2
  MaxFaults = 1
  MaxCrashes = 1
  Key = {k1, k2}
  MaxPublish = 1
INVARIANT UpdateKeepsConfig
SYMMETRY Symmetry
CHECK_DEADLOCK FALSE
