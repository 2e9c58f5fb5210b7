SPECIFICATION SuiteSpec
CONSTANTS
  None = None  i1 = i1  i2 = i2  g1 = g1  g2 = g2  u1 = u1  u2 = u2
  k1 = k1  k2 = k2  t1 = t1  t2 = t2  q1 = q1  q2 = q2
  c1 = c1  c2 = c2  c3 = c3
  release = release  older = older  branch = branch  public = public
PROPERTIES
  EventuallyIngested
  WorkIsDone
  RequestsEnd
  StopsEnd
  ChangesArrive
CHECK_DEADLOCK FALSE
