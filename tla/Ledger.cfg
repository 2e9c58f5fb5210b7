SPECIFICATION SuiteSpec
CONSTANTS
  Ids = {"r1", "r2"}
  Users = {"alice"}
  Keys = {"k1"}
  OwnerOf <- OwnerIsAlice
  Events <- PricedEvents
  Legacy = {}
  Gateways = {g1, g2}
  Metering = {g1}
  Projecting = {g1}
  Settling = {g1, g2}
  BatchSize = 2
  NoEvent = NoEvent
  SlowRetries = FALSE
  MaxRows = 2
  MaxGrants = 1
  MaxFails = 1
  g1 = g1  g2 = g2  u1 = u1  u2 = u2  k1 = k1  k2 = k2  t1 = t1  t2 = t2
INVARIANTS
  PaidOnce
  MoneyFollows
  LeaderboardSound
PROPERTIES
  BillingSpec
  SpendingOnlyGrows
CHECK_DEADLOCK FALSE
