SPECIFICATION LifecycleSpec
CONSTANTS
  u1 = u1
  u2 = u2
  m1 = m1
  m2 = m2
  Users = {u1, u2}
  Requests = {m1, m2}
  Capacities = {1}
  MaxTime = 2
  MaxResends = 0
INVARIANTS TakenWithinCapacity
