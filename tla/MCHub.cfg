SPECIFICATION Spec
CONSTANTS
  Clients = {c1, c2, c3}
  Wrapped = {c3}
  Keys = {k1}
  Nil = Nil
  BroadcastBuffer = 2
  SendBuffer = 1
  MaxEvents = 3
  MaxRequests = 2
  MaxFailures = 0
SYMMETRY ClientSymmetry
INVARIANTS
  TypeOK
  EventsInOrder
  AtMostOneStray
  NoGaps
