SPECIFICATION FairSpec
CONSTANTS
  n1 = n1
  Nodes = {n1, n2}
  Feeders = {f1}
  Requests = {r1}
  Home <- MCHome
  Stoppable = {n1}
  Nil = Nil
  MaxEvents = 2
  MaxFaults = 1
CHECK_DEADLOCK FALSE
PROPERTIES
  StopEnds
INVARIANTS
  TypeOK
  EventsInOrder
  EventsReachHubs
  UnheardOnlyIf
