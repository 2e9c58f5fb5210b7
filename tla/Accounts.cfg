SPECIFICATION SuiteSpec
CONSTANTS
  None = None  Thing = Thing  root = root  u1 = u1  u2 = u2  y1 = y1  y2 = y2
  s1 = s1  s2 = s2  s3 = s3  d1 = d1  d2 = d2  j1 = j1  j2 = j2
SYMMETRY Interchangeable
INVARIANTS
  AccessSound
  PluginsSound
  CodexSound
PROPERTIES
  AccessSteps
  NothingOverwritten
CHECK_DEADLOCK FALSE
