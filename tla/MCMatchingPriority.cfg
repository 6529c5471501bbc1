SPECIFICATION Spec
CONSTANTS
  Stocks = {s1}
  Prices = {1, 2}
  Quantities = {1}
  Orders = {o1, o2, o3}
  Nil = Nil
SYMMETRY OrderSymmetry
INVARIANTS
  PricePriority
