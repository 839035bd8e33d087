SPECIFICATION Spec
CONSTANTS
  u1 = u1
  u2 = u2
  r1 = r1
  r2 = r2
  Users = {u1, u2}
  Requests = {r1}
  Worker = Worker
  Scanner = Scanner
  NoUser = NoUser
  Capacity = 1
  TimelyPay = TRUE
  MaxUncommitted = 1
  Faults = {}
  MaxFaults = 0
SYMMETRY Symmetry
PROPERTIES AuditRolledBack
