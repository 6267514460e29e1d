SPECIFICATION MaintenanceSpec
CONSTANTS
  Release = {r1, r2}
  MaxEdits = 1
  MaxOps = 2
  MaxFaults = 1
  MaxCrashes = 1
  Key = {k1, k2}
  MaxPublish = 1
CONSTRAINT EventBound
INVARIANTS DeploymentSafe TaskAtMostOnce UpdateSparesTakes
PROPERTY ReceiptFinal
CHECK_DEADLOCK FALSE
SYMMETRY Symmetry
