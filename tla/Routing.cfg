SPECIFICATION SuiteSpec
CONSTANTS
  Requests = {q1, q2}
  Objs = {o1, o2, o3}
  None = None
  Policies <- OnePolicy
  MaxSelects = 3
  MaxReloads = 2
  MaxPolicies = 0
  q1 = q1  q2 = q2  c1 = c1  c2 = c2  c3 = c3  s1 = s1  s2 = s2  s3 = s3
SYMMETRY Interchangeable
VIEW SuiteView
INVARIANTS
  HealthSound
  SelectionSound
  CacheStaysBounded
  AutomationSound
PROPERTIES
  NewerDecisionWins
CHECK_DEADLOCK FALSE
