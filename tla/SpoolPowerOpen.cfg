SPECIFICATION Spec
CONSTANTS
  Ids = {r1, r2}
  MaxUnits = 4
  Threshold = 2
  BatchSize = 1
  QueueCap = 1
  PowerLoss = TRUE
  MaxCrashes = 1
  MaxFaults = 0
INVARIANTS
  OpenAccepts
