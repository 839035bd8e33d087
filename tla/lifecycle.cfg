SPECIFICATION LifecycleFairSpec
CONSTANTS
  u1 = u1
  u2 = u2
  m1 = m1
  m2 = m2
  Users = {u1, u2}
  Requests = {m1, m2}
  Capacities <- AnyCapacity
  MaxTime = 2
  MaxResends = 1
INVARIANTS LifecycleTypeOK SeatsMatchCapacity OneSeatPerActivity NoSaleBeforeOpening
PROPERTIES PublishedFrozen PublishedGoesOnSale
CONSTRAINT NotStale
