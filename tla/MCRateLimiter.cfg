SPECIFICATION Spec
CONSTANTS
  Visitors = {v1, v2}
  Ports = {p1, p2}
  Capacity = 5
  Refill = 2
  Cost = 3
  CleanupPeriod = 2
  MaxIdle = 3
  MaxTime = 9
INVARIANTS
  TypeOK
  WithinRate
  AbsentForgotten
PROPERTIES
  IdealBucket
