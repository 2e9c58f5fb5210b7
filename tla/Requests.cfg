SPECIFICATION SuiteSpec
CONSTANTS
  Keys = {k1}
  Requests = {r1, r2, r3}
  None = None
  Limits <- TwoTerms
  Window = 4
  Second = 2
  MaxTime = 7
  MaxTotal = 2
  k1 = k1  k2 = k2  c1 = c1  c2 = c2  c3 = c3  s1 = s1  s2 = s2
  i1 = i1  i2 = i2  absent = absent
SYMMETRY Interchangeable
INVARIANTS
  LeasesSound
  RequestsSound
  ConnectionsSound
PROPERTIES
  LimitsHold
  SessionKept
CHECK_DEADLOCK FALSE
