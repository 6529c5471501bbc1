SPECIFICATION Spec
CONSTANTS
  Stocks = {s1, s2}
  Prices = {1, 2}
  Quantities = {1, 2}
  Orders = {o1, o2, o3}
  Nil = Nil
SYMMETRY Symmetry
INVARIANTS
  TypeOK
  Conservation
  TimePriority
  NoCrossedBook
  NoPhantomDepth
  UpdatesCaughtUp
PROPERTIES
  MatchesAtomically
