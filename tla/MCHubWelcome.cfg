SPECIFICATION Spec
CONSTANTS
  Clients = {c1}
  Wrapped = {c1}
  Keys = {k1}
  Nil = Nil
  BroadcastBuffer = 1
  SendBuffer = 2
  MaxEvents = 0
  MaxRequests = 1
  MaxFailures = 1
INVARIANTS
  WelcomeSent
