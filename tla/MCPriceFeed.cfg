SPECIFICATION FairSpec
CONSTANTS
  Stocks = {s1, s2}
  FeedStocks = {s1}
  Nil = Nil
  Prices = {1, 2}
  Volumes = {1}
  MaxUpdates = 3
  MaxDials = 2
INVARIANTS
  TypeOK
  TickerSumsUp
  TickerAnnounced
PROPERTIES
  SilentAfterStop
  EveryStopReturns
