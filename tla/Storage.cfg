SPECIFICATION SuiteSpec
CONSTANTS
  Ids = {r1, r2}
  MaxUnits = 4
  Threshold = 1
  BatchSize = 1
  QueueCap = 1
  PowerLoss = TRUE
  MaxCrashes = 2
  MaxFaults = 1
  r1 = r1  r2 = r2  release = release  older = older  branch = branch
  old = old  new = new  t1 = t1  t2 = t2  e1 = e1  e2 = e2  s1 = s1  s2 = s2
INVARIANTS
  SpoolSound
  CrashSound
  SchemaSound
  BackupSound
PROPERTIES
  RefusesToReplace
CHECK_DEADLOCK FALSE
