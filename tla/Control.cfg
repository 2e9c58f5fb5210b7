SPECIFICATION SuiteSpec
CONSTANTS
  None = None  Everyone = Everyone
  g1 = g1  g2 = g2  a1 = a1  a2 = a2  k1 = k1  k2 = k2  c1 = c1  c2 = c2
  p1 = p1  p2 = p2  m1 = m1  m2 = m2  r1 = r1  r2 = r2  x1 = x1  t1 = t1
  n1 = n1  n2 = n2  u1 = u1  u2 = u2  um = um
  h1 = h1  h2 = h2  b1 = b1  b2 = b2
  Gateways = {h1, h2}  Actors = {b1, b2}  Rows = {r1, r2}
  MaxWrites = 2  MaxFaults = 1
SYMMETRY Interchangeable
INVARIANTS
  TopologySound
  KeysSound
  PublishSound
  CompileSound
PROPERTIES
  NothingGoesBack
CHECK_DEADLOCK FALSE
