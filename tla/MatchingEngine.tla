--------------------------- MODULE MatchingEngine ---------------------------
(***************************************************************************)
(* The matching engine over the in-memory repositories, the default        *)
(* configuration of cmd/server/main.go.  Every POST /api/orders runs in a  *)
(* goroutine of its own: it draws an order ID, builds the order, saves it  *)
(* and only then takes the mutex of the order's stock and matches.  The    *)
(* repository holds pointers, so a resting order that a request fills is   *)
(* the very object that order's own request holds.                         *)
(*                                                                         *)
(* A request is named by the ID it draws from the atomic counter.  IDs are *)
(* never compared, so Orders is an unordered set of them.                  *)
(***************************************************************************)
EXTENDS Orders, MarketData, Sequences, FiniteSets, Functions

CONSTANT Orders   \* the order IDs, one per accepted request

ASSUME NilIsNoOrder == Nil \notin Orders

VARIABLES
  pc,              \* where each request's goroutine is
  clock,           \* the last value time.Now returned to NewOrder
  orders,          \* the order objects
  saved,           \* the IDs InMemoryOrderRepository knows
  stockMu,         \* which request holds the mutex of a stock, or Nil
  oppositeOrders,  \* ProcessOrder's slice of resting orders
  visited,         \* how much of that slice the loop is done with
  counterOrder,    \* the loop's current order
  fillQty,         \* and the quantity traded with it
  traded,          \* whether this call of ProcessOrder has traded
  tradeSeq,        \* the trade ID counter
  trades,          \* the trade repository
  market,          \* the market repository
  events           \* per stock, what onEvent was called with

vars == <<pc, clock, orders, saved, stockMu, oppositeOrders, visited,
          counterOrder, fillQty, traded, tradeSeq, trades, market, events>>

request == <<oppositeOrders, visited, counterOrder, fillQty, traded>>

output == <<tradeSeq, trades, market, events>>

Init ==
  /\ pc = [o \in Orders |-> "idle"]
  /\ clock = 0
  /\ orders = [o \in Orders |-> Nil]
  /\ saved = {}
  /\ stockMu = [s \in Stocks |-> Nil]
  /\ oppositeOrders = [o \in Orders |-> {}]
  /\ visited = [o \in Orders |-> {}]
  /\ counterOrder = [o \in Orders |-> Nil]
  /\ fillQty = [o \in Orders |-> 0]
  /\ traded = [o \in Orders |-> FALSE]
  /\ tradeSeq = 0
  /\ trades = {}
  /\ market = [s \in Stocks |-> Nil]
  /\ events = [s \in Stocks |-> <<>>]

-----------------------------------------------------------------------------
(* What the repositories answer.                                           *)

\* o's goroutine is inside ProcessOrder, past the Lock.
Matching(o) == pc[o] \in {"matching", "filling", "filled"}

\* Mutant: partially filled orders are not selected.
OnlyUntouchedOrders(stock, side) ==
  {o \in saved : /\ orders[o].stock = stock
                 /\ orders[o].side = side
                 /\ orders[o].status = "OPEN"}

GetOpenOrdersByStock(stock, side) ==
  {o \in saved : /\ orders[o].stock = stock
                 /\ orders[o].side = side
                 /\ IsOpen(orders[o])}

Pending(o) == oppositeOrders[o] \ visited[o]

\* Mutant: the listing is not sorted.
AnyOf(S) == S

\* sort.Slice orders by CreatedAt and is not stable: orders created at the
\* same instant come out in either order.
Earliest(S) ==
  {c \in S : \A d \in S : orders[c].createdAt <= orders[d].createdAt}

\* Mutant: the book shows what was ordered, not what is left.
LevelsAsOrdered(S) ==
  [p \in {orders[o].price : o \in S} |->
     LET level == {o \in S : orders[o].price = p}
     IN  [quantity |-> SumFunction([o \in level |-> orders[o].quantity]),
          count    |-> Cardinality(level)]]

\* One side of buildOrderBookLocked: resting quantity and count per price.
Levels(S) ==
  [p \in {orders[o].price : o \in S} |->
     LET level == {o \in S : orders[o].price = p}
     IN  [quantity |-> SumFunction([o \in level |-> orders[o].remaining]),
          count    |-> Cardinality(level)]]

OrderBook(stock) ==
  [bids |-> Levels(GetOpenOrdersByStock(stock, "BUY")),
   asks |-> Levels(GetOpenOrdersByStock(stock, "SELL"))]

-----------------------------------------------------------------------------
(* OrderHandler.CreateOrder.                                               *)

\* The accepted part of a request: its order is built with the current time,
\* which two requests may read as the same instant.
CreateOrder(o) ==
  /\ pc[o] = "idle"
  /\ \E stock \in Stocks, side \in Sides,
        price \in Prices, quantity \in Quantities :
       /\ clock' \in {clock, clock + 1}
       /\ market' = GetOrCreate(market, stock, price)
       /\ orders' = [orders EXCEPT ![o] =
                       NewOrder(stock, side, price, quantity, clock')]
  /\ pc' = [pc EXCEPT ![o] = "created"]
  /\ UNCHANGED <<saved, stockMu, request, tradeSeq, trades, events>>

\* Mutant: the repository loses the order.
SaveOrderLost(o) ==
  /\ pc[o] = "created"
  /\ pc' = [pc EXCEPT ![o] = "saved"]
  /\ UNCHANGED <<clock, orders, saved, stockMu, request, output>>

\* From here on other requests can find and fill the order.
SaveOrder(o) ==
  /\ pc[o] = "created"
  /\ saved' = saved \cup {o}
  /\ pc' = [pc EXCEPT ![o] = "saved"]
  /\ UNCHANGED <<clock, orders, stockMu, request, output>>

-----------------------------------------------------------------------------
(* MatchingEngine.ProcessOrder.                                            *)

\* Mutant: every call makes a mutex of its own.
MutexPerCall(stock) == TRUE

\* getStockMutex returns the same mutex to everyone who asks for a stock.
MutexFree(stock) == stockMu[stock] = Nil

\* Taking the mutex and listing the other side are one step: until the
\* mutex is held nothing is read, and only its holder changes a status.
StartMatching(o) ==
  LET order == orders[o]
  IN  /\ pc[o] = "saved"
      /\ MutexFree(order.stock)
      /\ stockMu' = [stockMu EXCEPT ![order.stock] = o]
      /\ oppositeOrders' = [oppositeOrders EXCEPT ![o] =
           GetOpenOrdersByStock(order.stock, Opposite(order.side))]
      /\ pc' = [pc EXCEPT ![o] = "matching"]
      /\ UNCHANGED <<clock, orders, saved, visited, counterOrder, fillQty,
                     traded, output>>

\* Mutant: the loop ends at the first price that does not match.
BreakAtCounter(o) ==
  /\ pc[o] = "matching"
  /\ orders[o].remaining > 0
  /\ \E c \in Earliest(Pending(o)) : ~PricesMatch(orders[o], orders[c])
  /\ visited' = [visited EXCEPT ![o] = oppositeOrders[o]]
  /\ UNCHANGED <<pc, clock, orders, saved, stockMu, oppositeOrders,
                 counterOrder, fillQty, traded, output>>

\* The loop goes on to a price that does not match, or to nothing to fill.
SkipCounter(o) ==
  /\ pc[o] = "matching"
  /\ orders[o].remaining > 0
  /\ \E c \in Earliest(Pending(o)) :
       /\ \/ ~PricesMatch(orders[o], orders[c])
          \/ FillQty(orders[o], orders[c]) = 0
       /\ visited' = [visited EXCEPT ![o] = @ \cup {c}]
  /\ UNCHANGED <<pc, clock, orders, saved, stockMu, oppositeOrders,
                 counterOrder, fillQty, traded, output>>

\* order.Fill(fillQty)
FillIncoming(o) ==
  /\ pc[o] = "matching"
  /\ orders[o].remaining > 0
  /\ \E c \in Earliest(Pending(o)) :
       LET qty == FillQty(orders[o], orders[c])
       IN  /\ PricesMatch(orders[o], orders[c])
           /\ qty > 0
           /\ counterOrder' = [counterOrder EXCEPT ![o] = c]
           /\ fillQty' = [fillQty EXCEPT ![o] = qty]
           /\ orders' = [orders EXCEPT ![o] = Fill(@, qty)]
  /\ pc' = [pc EXCEPT ![o] = "filling"]
  /\ UNCHANGED <<clock, saved, stockMu, oppositeOrders, visited, traded,
                 output>>

\* counterOrder.Fill(fillQty).  UpdateStatus does nothing here.
FillCounter(o) ==
  /\ pc[o] = "filling"
  /\ orders' = [orders EXCEPT ![counterOrder[o]] = Fill(@, fillQty[o])]
  /\ pc' = [pc EXCEPT ![o] = "filled"]
  /\ UNCHANGED <<clock, saved, stockMu, request, output>>

\* Mutant: the owner of the resting order is not told.
IncomingUpdateOnly(o, c, trade, md) ==
  << [type |-> "market.trade",  data |-> trade],
     [type |-> "market.ticker", data |-> md],
     [type |-> "order.update",  id |-> o, data |-> orders[o]] >>

\* The four events of a trade between the incoming o and the resting c.
TradeEvents(o, c, trade, md) ==
  << [type |-> "market.trade",  data |-> trade],
     [type |-> "market.ticker", data |-> md],
     [type |-> "order.update",  id |-> o, data |-> orders[o]],
     [type |-> "order.update",  id |-> c, data |-> orders[c]] >>

\* The trade is saved, the market data updated and the events of the trade
\* emitted; the mutex keeps every other writer of this stock away.
RecordTrade(o) ==
  LET order == orders[o]
      c     == counterOrder[o]
      stock == order.stock
      trade == [id       |-> tradeSeq + 1,
                stock    |-> stock,
                buy      |-> IF order.side = "BUY" THEN o ELSE c,
                sell     |-> IF order.side = "BUY" THEN c ELSE o,
                price    |-> orders[c].price,
                quantity |-> fillQty[o]]
      md    == UpdatePrice(GetOrCreate(market, stock, trade.price)[stock],
                           trade.price, trade.quantity)
  IN  /\ pc[o] = "filled"
      /\ tradeSeq' = tradeSeq + 1
      /\ trades' = trades \cup {trade}
      /\ market' = [market EXCEPT ![stock] = md]
      /\ events' = [events EXCEPT ![stock] =
                      @ \o TradeEvents(o, c, trade, md)]
      /\ traded' = [traded EXCEPT ![o] = TRUE]
      /\ visited' = [visited EXCEPT ![o] = @ \cup {c}]
      /\ pc' = [pc EXCEPT ![o] = "matching"]
      /\ UNCHANGED <<clock, orders, saved, stockMu, oppositeOrders,
                     counterOrder, fillQty>>

\* The deferred Unlock.
Release(stock) == [stockMu EXCEPT ![stock] = Nil]

\* End of the loop: the book is emitted if this call traded, the mutex is
\* released and the handler answers 201.
FinishMatching(o) ==
  LET stock == orders[o].stock
  IN  /\ pc[o] = "matching"
      /\ Pending(o) = {} \/ orders[o].remaining = 0
      /\ events' = IF traded[o]
                   THEN [events EXCEPT ![stock] = Append(@,
                           [type |-> "market.orderbook",
                            data |-> OrderBook(stock)])]
                   ELSE events
      /\ stockMu' = Release(stock)
      /\ pc' = [pc EXCEPT ![o] = "done"]
      /\ UNCHANGED <<clock, orders, saved, request, tradeSeq, trades, market>>

-----------------------------------------------------------------------------
\* What a goroutine does once its request is accepted.
Process(o) ==
  \/ SaveOrder(o)
  \/ StartMatching(o)
  \/ SkipCounter(o)
  \/ FillIncoming(o)
  \/ FillCounter(o)
  \/ RecordTrade(o)
  \/ FinishMatching(o)

\* Every request of the instance has been answered.
AllAnswered == (\A o \in Orders : pc[o] = "done") /\ UNCHANGED vars

Next ==
  \/ \E o \in Orders : CreateOrder(o) \/ Process(o)
  \/ AllAnswered

Spec == Init /\ [][Next]_vars

-----------------------------------------------------------------------------
(* Properties.                                                             *)

Trade ==
  [id : Nat, stock : Stocks, buy : Orders, sell : Orders, price : Prices,
   quantity : Nat]

\* The shape of the state.
TypeOK ==
  /\ pc \in [Orders -> {"idle", "created", "saved", "matching", "filling",
                        "filled", "done"}]
  /\ clock \in Nat
  /\ orders \in [Orders -> Order \cup {Nil}]
  /\ \A o \in Orders : pc[o] # "idle" => orders[o] \in Order
  /\ saved = {o \in Orders : pc[o] \notin {"idle", "created"}}
  /\ stockMu \in [Stocks -> Orders \cup {Nil}]
  /\ oppositeOrders \in [Orders -> SUBSET saved]
  /\ visited \in [Orders -> SUBSET saved]
  /\ counterOrder \in [Orders -> Orders \cup {Nil}]
  /\ fillQty \in [Orders -> Nat]
  /\ traded \in [Orders -> BOOLEAN]
  /\ tradeSeq \in Nat
  /\ trades \in SUBSET Trade
  /\ market \in [Stocks -> Market \cup {Nil}]
  /\ DOMAIN events = Stocks

Issued == {o \in Orders : pc[o] # "idle"}

\* Fills of o whose trade has not been saved yet.
InFlight(o) ==
  IF pc[o] \in {"filling", "filled"} THEN fillQty[o]
  ELSE SumFunctionOnSet(fillQty,
         {t \in Orders : pc[t] = "filled" /\ counterOrder[t] = o})

TradesOf(o) == {t \in trades : o \in {t.buy, t.sell}}

\* Two requests for one stock never fill the same resting quantity twice
\* (README.md:632): an order's filled quantity is exactly what its trades
\* and the trade being made right now say, and never exceeds its quantity.
Conservation ==
  \A o \in Issued :
    /\ orders[o].filled =
         SumFunction([t \in TradesOf(o) |-> t.quantity]) + InFlight(o)
    /\ orders[o].filled + orders[o].remaining = orders[o].quantity

\* The resting orders that o's own request traded with.  (A trade made by
\* the other order's request leaves o or that order with nothing to fill.)
Taken(o) ==
  {c \in visited[o] : \E t \in trades : {t.buy, t.sell} = {o, c}}

\* FIFO (README.md:199): a request trades with a resting order only once
\* every order it listed that was created earlier and whose price matches
\* is filled.
TimePriority ==
  \A o \in Orders : \A c \in Taken(o), d \in oppositeOrders[o] :
    /\ orders[d].createdAt < orders[c].createdAt
    /\ PricesMatch(orders[o], orders[d])
    => orders[d].remaining = 0

\* Orders that could trade with each other.
Crossing(o, c) ==
  /\ orders[o].stock = orders[c].stock
  /\ orders[o].side # orders[c].side
  /\ PricesMatch(orders[o], orders[c])

\* README.md:213: once both requests are answered, no two orders that could
\* trade with each other both rest in the book, whichever was saved first
\* and whichever got the mutex first.
NoCrossedBook ==
  \A o, c \in Orders :
    pc[o] = "done" /\ pc[c] = "done" /\ Crossing(o, c)
      => orders[o].remaining = 0 \/ orders[c].remaining = 0

\* The last event of a kind emitted for a stock; there is one in S.
LastOf(stock, S) == events[stock][CHOOSE i \in S : \A j \in S : j <= i]

EmittedBooks(stock) ==
  {i \in DOMAIN events[stock] : events[stock][i].type = "market.orderbook"}

\* What is really left of the orders of one side at a price.
Resting(stock, side, price) ==
  LET level == {o \in saved : /\ orders[o].stock = stock
                              /\ orders[o].side = side
                              /\ orders[o].price = price}
  IN  SumFunction([o \in level |-> orders[o].remaining])

\* A subscriber to market.orderbook is never left with depth that is gone:
\* whenever nobody is matching a stock, at least the quantity that the last
\* book emitted for it shows at a price is there.
NoPhantomDepth ==
  \A s \in Stocks : stockMu[s] = Nil /\ EmittedBooks(s) # {} =>
    LET shown == LastOf(s, EmittedBooks(s)).data
    IN  /\ \A p \in DOMAIN shown.bids :
             shown.bids[p].quantity <= Resting(s, "BUY", p)
        /\ \A p \in DOMAIN shown.asks :
             shown.asks[p].quantity <= Resting(s, "SELL", p)

UpdatesOf(o) ==
  LET stock == orders[o].stock
  IN  {i \in DOMAIN events[stock] : /\ events[stock][i].type = "order.update"
                                    /\ events[stock][i].id = o}

\* A subscriber to order.update knows every order that ever traded as it is:
\* whenever nobody is matching its stock, the last update emitted for the
\* order carries its current quantities and status.
UpdatesCaughtUp ==
  \A o \in Issued : stockMu[orders[o].stock] = Nil /\ orders[o].filled > 0 =>
    /\ UpdatesOf(o) # {}
    /\ LastOf(orders[o].stock, UpdatesOf(o)).data = orders[o]

\* What an observer may count on: trades of a request still in its loop are
\* not visible yet, and neither is an order before it is saved.
Settled(t) ==
  ~\E o \in Orders : /\ Matching(o)
                     /\ o \in {t.buy, t.sell}
                     /\ visited[o] \cap {t.buy, t.sell} # {}

TermsOf(o) ==
  [stock |-> orders[o].stock, side |-> orders[o].side,
   price |-> orders[o].price, quantity |-> orders[o].quantity,
   createdAt |-> orders[o].createdAt]

DealOf(t) ==
  [buy |-> t.buy, sell |-> t.sell, price |-> t.price, quantity |-> t.quantity]

Atomic == INSTANCE Exchange WITH
  terms   <- [o \in saved |-> TermsOf(o)],
  matched <- {o \in Orders : pc[o] = "done"},
  deals   <- {DealOf(t) : t \in {u \in trades : Settled(u)}}

\* Although fills, trades and events of a request are separate steps and
\* other orders are saved meanwhile, each request matches as if in one
\* atomic step against the orders that had their turn before it.
MatchesAtomically == Atomic!Spec

Better(price, other, side) ==
  IF side = "BUY" THEN price < other ELSE price > other

\* README.md:130 calls the engine's matching price-time priority: a request
\* trades with a resting order only once every order it listed at a better
\* price is filled.
PricePriority ==
  \A o \in Orders : \A c \in Taken(o), d \in oppositeOrders[o] :
    /\ Better(orders[d].price, orders[c].price, orders[o].side)
    /\ PricesMatch(orders[o], orders[d])
    => orders[d].remaining = 0
=============================================================================
