SPECIFICATION FairSpec
CONSTANTS
  Clients = {c1}
  Wrapped = {}
  Keys = {k1}
  Nil = Nil
  BroadcastBuffer = 1
  SendBuffer = 1
  MaxEvents = 2
  MaxRequests = 2
  MaxFailures = 1
INVARIANTS
  NoFatalPanic
PROPERTIES
  EveryEventHandled
  EveryClientGoes
