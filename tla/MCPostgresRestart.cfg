SPECIFICATION Spec
CONSTANTS
  Stocks = {s1}
  Prices = {1, 2}
  Quantities = {1}
  Requests = {r1, r2, r3}
  Nil = Nil
  MaxFaults = 1
SYMMETRY Symmetry
INVARIANTS
  AcceptedOrdersStored
