------------------------ MODULE MatchingEngineProofs ------------------------
(***************************************************************************)
(* What TLAPS proves about MatchingEngine, for any set of stocks, prices,  *)
(* quantities and requests: its state is well typed, no order is filled    *)
(* beyond its quantity, resting orders are served first come first served, *)
(* the book of answered orders is never crossed, every fill is backed by a *)
(* trade, subscribers are left with the orders and the depth that are, and *)
(* every request matches as if in one step of Exchange.                    *)
(***************************************************************************)
EXTENDS MatchingEngine, SumFacts, TLAPS

-----------------------------------------------------------------------------
(* Typing.                                                                 *)

\* A goroutine that fills does so with an order it listed.
TypeInv ==
  /\ TypeOK
  /\ \A o \in Orders : pc[o] \in {"filling", "filled"} =>
       counterOrder[o] \in oppositeOrders[o]

\* A new order and a filled order are orders.
LEMMA NewOrderType ==
  ASSUME NEW stock \in Stocks, NEW side \in Sides, NEW price \in Prices,
         NEW quantity \in Quantities, NEW now \in Nat
  PROVE  NewOrder(stock, side, price, quantity, now) \in Order
BY PositiveInputs DEF NewOrder, Order, Statuses

LEMMA FillType ==
  ASSUME NEW order \in Order, NEW qty \in Nat
  PROVE  Fill(order, qty) \in Order
<1> DEFINE left == IF order.remaining <= qty THEN 0 ELSE order.remaining - qty
           full == [order EXCEPT
                      !.filled    = order.filled + qty,
                      !.remaining = left,
                      !.status    = IF left = 0 THEN "FILLED" ELSE "PARTIAL"]
<1>1. left \in Nat /\ order.filled + qty \in Nat
  BY DEF Order
<1>2. (IF left = 0 THEN "FILLED" ELSE "PARTIAL") \in Statuses
  BY DEF Statuses
<1> HIDE DEF left
<1>3. full \in Order
  BY <1>1, <1>2 DEF Order
<1> QED
  BY <1>3 DEF Fill, left

LEMMA FillQtyType ==
  ASSUME NEW incoming \in Order, NEW resting \in Order
  PROVE  FillQty(incoming, resting) \in Nat
BY DEF FillQty, Order

\* The market repository keeps well typed records.
LEMMA NewMarketDataType ==
  ASSUME NEW price \in Prices
  PROVE  NewMarketData(price) \in Market
BY PositiveInputs DEF NewMarketData, Market

LEMMA GetOrCreateType ==
  ASSUME NEW m \in [Stocks -> Market \cup {Nil}], NEW stock \in Stocks,
         NEW price \in Prices
  PROVE  /\ GetOrCreate(m, stock, price) \in [Stocks -> Market \cup {Nil}]
         /\ GetOrCreate(m, stock, price)[stock] \in Market
BY NewMarketDataType DEF GetOrCreate

LEMMA UpdatePriceType ==
  ASSUME NEW md \in Market, NEW price \in Prices, NEW volume \in Nat
  PROVE  UpdatePrice(md, price, volume) \in Market
BY PositiveInputs DEF UpdatePrice, Market

\* Init establishes the typing invariant.
LEMMA TypeInit == Init => TypeInv
BY DEF Init, TypeInv, TypeOK

\* Every step keeps it: one lemma per step that changes more than its own
\* bookkeeping, and TypeStep for the whole of Next.
LEMMA TypeCreateOrder ==
  ASSUME TypeInv, NEW o \in Orders, CreateOrder(o)
  PROVE  TypeInv'
<1> USE DEF TypeInv, TypeOK
<1>1. PICK stock \in Stocks, side \in Sides,
           price \in Prices, quantity \in Quantities :
        /\ clock' \in {clock, clock + 1}
        /\ market' = GetOrCreate(market, stock, price)
        /\ orders' = [orders EXCEPT ![o] =
                        NewOrder(stock, side, price, quantity, clock')]
  BY DEF CreateOrder
<1>2. clock' \in Nat
  BY <1>1
<1>3. NewOrder(stock, side, price, quantity, clock') \in Order
  BY <1>2, NewOrderType
<1>4. market' \in [Stocks -> Market \cup {Nil}]
  BY <1>1, GetOrCreateType
<1> QED
  BY <1>1, <1>2, <1>3, <1>4 DEF CreateOrder, request

LEMMA TypeSaveOrder ==
  ASSUME TypeInv, NEW o \in Orders, SaveOrder(o)
  PROVE  TypeInv'
BY DEF TypeInv, TypeOK, SaveOrder, request, output

LEMMA TypeStartMatching ==
  ASSUME TypeInv, NEW o \in Orders, StartMatching(o)
  PROVE  TypeInv'
BY DEF TypeInv, TypeOK, StartMatching, GetOpenOrdersByStock, output

LEMMA TypeSkipCounter ==
  ASSUME TypeInv, NEW o \in Orders, SkipCounter(o)
  PROVE  TypeInv'
BY DEF TypeInv, TypeOK, SkipCounter, Earliest, Pending, output

LEMMA TypeFillIncoming ==
  ASSUME TypeInv, NEW o \in Orders, FillIncoming(o)
  PROVE  TypeInv'
<1> USE DEF TypeInv, TypeOK
<1>1. PICK c \in Earliest(Pending(o)) :
        /\ counterOrder' = [counterOrder EXCEPT ![o] = c]
        /\ fillQty' = [fillQty EXCEPT ![o] = FillQty(orders[o], orders[c])]
        /\ orders' = [orders EXCEPT ![o] =
                        Fill(@, FillQty(orders[o], orders[c]))]
  BY DEF FillIncoming
<1>2. c \in oppositeOrders[o] /\ c \in saved
  BY DEF Earliest, Pending
<1>3. orders[o] \in Order /\ orders[c] \in Order
  BY <1>2 DEF FillIncoming
<1>4. FillQty(orders[o], orders[c]) \in Nat
  BY <1>3, FillQtyType
<1>5. Fill(orders[o], FillQty(orders[o], orders[c])) \in Order
  BY <1>3, <1>4, FillType
<1> QED
  BY <1>1, <1>2, <1>4, <1>5 DEF FillIncoming, output

LEMMA TypeFillCounter ==
  ASSUME TypeInv, NEW o \in Orders, FillCounter(o)
  PROVE  TypeInv'
<1> USE DEF TypeInv, TypeOK
<1> DEFINE c == counterOrder[o]
<1>1. c \in saved /\ orders[c] \in Order
  BY DEF FillCounter
<1>2. Fill(orders[c], fillQty[o]) \in Order
  BY <1>1, FillType
<1> QED
  BY <1>1, <1>2 DEF FillCounter, request, output

LEMMA TypeRecordTrade ==
  ASSUME TypeInv, NEW o \in Orders, RecordTrade(o)
  PROVE  TypeInv'
<1> USE DEF TypeInv, TypeOK
<1> DEFINE c     == counterOrder[o]
           stock == orders[o].stock
           trade == [id       |-> tradeSeq + 1,
                     stock    |-> stock,
                     buy      |-> IF orders[o].side = "BUY" THEN o ELSE c,
                     sell     |-> IF orders[o].side = "BUY" THEN c ELSE o,
                     price    |-> orders[c].price,
                     quantity |-> fillQty[o]]
           md    == UpdatePrice(GetOrCreate(market, stock, trade.price)[stock],
                                trade.price, trade.quantity)
<1>1. c \in saved /\ c \in Orders /\ orders[c] \in Order /\ orders[o] \in Order
  BY DEF RecordTrade
<1>2. trade \in Trade
  BY <1>1 DEF Trade, Order
<1>3. md \in Market
  BY <1>1, GetOrCreateType, UpdatePriceType DEF Order
<1>4. /\ pc[o] = "filled"
      /\ tradeSeq' = tradeSeq + 1
      /\ trades' = trades \cup {trade}
      /\ market' = [market EXCEPT ![stock] = md]
      /\ DOMAIN events' = DOMAIN events
      /\ traded' = [traded EXCEPT ![o] = TRUE]
      /\ visited' = [visited EXCEPT ![o] = @ \cup {c}]
      /\ pc' = [pc EXCEPT ![o] = "matching"]
      /\ UNCHANGED <<clock, orders, saved, stockMu, oppositeOrders,
                     counterOrder, fillQty>>
  BY DEF RecordTrade
<1> HIDE DEF trade, md
<1>5. stock \in Stocks
  BY <1>1 DEF Order
<1>6. pc' \in [Orders -> {"idle", "created", "saved", "matching", "filling",
                          "filled", "done"}]
  BY <1>4
<1>7. saved' = {x \in Orders : pc'[x] \notin {"idle", "created"}}
  BY <1>4
<1>8. market' \in [Stocks -> Market \cup {Nil}]
  BY <1>3, <1>4, <1>5
<1>9. visited' \in [Orders -> SUBSET saved'] /\ traded' \in [Orders -> BOOLEAN]
  BY <1>1, <1>4
<1>10. tradeSeq' \in Nat /\ trades' \in SUBSET Trade
  BY <1>2, <1>4
<1> QED
  BY <1>4, <1>6, <1>7, <1>8, <1>9, <1>10

LEMMA TypeFinishMatching ==
  ASSUME TypeInv, NEW o \in Orders, FinishMatching(o)
  PROVE  TypeInv'
BY DEF TypeInv, TypeOK, FinishMatching, Release, request

LEMMA TypeStep == TypeInv /\ [Next]_vars => TypeInv'
<1> SUFFICES ASSUME TypeInv, [Next]_vars
             PROVE  TypeInv'
  OBVIOUS
<1>1. ASSUME NEW o \in Orders, CreateOrder(o) \/ Process(o)
      PROVE  TypeInv'
  BY <1>1, TypeCreateOrder, TypeSaveOrder, TypeStartMatching,
     TypeSkipCounter, TypeFillIncoming, TypeFillCounter, TypeRecordTrade,
     TypeFinishMatching
  DEF Process
<1>2. CASE UNCHANGED vars
  BY <1>2 DEF vars, request, output, TypeInv, TypeOK
<1> QED
  BY <1>1, <1>2 DEF Next, AllAnswered

\* The state is well typed, for every value of the constants.
THEOREM TypeCorrect == Spec => []TypeOK
<1>1. Spec => []TypeInv
  BY TypeInit, TypeStep, PTL DEF Spec
<1> QED
  BY <1>1, PTL DEF TypeInv

-----------------------------------------------------------------------------
(* The inductive invariant.                                                *)

\* Whoever is inside ProcessOrder holds the mutex of its order's stock.
MutexInv == \A o \in Orders : Matching(o) => stockMu[orders[o].stock] = o

\* Filled and remaining quantity add up, and the status tells which orders
\* have something left.
QuantityInv ==
  \A o \in Issued :
    /\ orders[o].filled + orders[o].remaining = orders[o].quantity
    /\ orders[o].status = "FILLED" <=> orders[o].remaining = 0

\* A request lists orders of the other side of its stock, once it matches,
\* and goes through them from the oldest on.
ListInv ==
  \A o \in Orders :
    /\ pc[o] \in {"idle", "created", "saved"} => oppositeOrders[o] = {}
    /\ visited[o] \subseteq oppositeOrders[o]
    /\ \A c \in oppositeOrders[o] : /\ orders[c].stock = orders[o].stock
                                   /\ orders[c].side # orders[o].side
    /\ \A c \in visited[o], d \in oppositeOrders[o] :
         orders[d].createdAt < orders[c].createdAt => d \in visited[o]

\* The loop leaves an order behind only if they cannot trade any more.
VisitInv ==
  \A o \in Orders : \A c \in visited[o] :
    PricesMatch(orders[o], orders[c])
      => orders[o].remaining = 0 \/ orders[c].remaining = 0

\* Between the two fills, and from there to the end of the loop's pass.
FillInv ==
  \A o \in Orders : LET c == counterOrder[o] IN
    /\ pc[o] \in {"filling", "filled"} =>
         /\ c \in Pending(o)
         /\ o \notin visited[c]
         /\ PricesMatch(orders[o], orders[c])
         /\ \A d \in oppositeOrders[o] :
              orders[d].createdAt < orders[c].createdAt => d \in visited[o]
    /\ pc[o] = "filling" =>
         /\ fillQty[o] <= orders[c].remaining
         /\ orders[o].remaining = 0 \/ fillQty[o] = orders[c].remaining
    /\ pc[o] = "filled" =>
         orders[o].remaining = 0 \/ orders[c].remaining = 0

\* A request that matches has listed every answered order of the other side
\* at a price that matches, if anything is left of it.
OfferInv ==
  \A t, x \in Orders :
    /\ Matching(t) /\ pc[x] = "done"
    /\ Crossing(t, x)
    /\ orders[x].remaining > 0
    => x \in oppositeOrders[t]

\* What a request has taken, or is taking: older matching offers are gone.
Taking(o) ==
  Taken(o) \cup IF pc[o] \in {"filling", "filled"} THEN {counterOrder[o]} ELSE {}

PriorityInv ==
  \A o \in Orders : \A c \in Taking(o), d \in oppositeOrders[o] :
    /\ orders[d].createdAt < orders[c].createdAt
    /\ PricesMatch(orders[o], orders[d])
    => orders[d].remaining = 0

Inv ==
  /\ TypeInv
  /\ MutexInv
  /\ QuantityInv
  /\ ListInv
  /\ VisitInv
  /\ FillInv
  /\ OfferInv
  /\ PriorityInv
  /\ NoCrossedBook

LEMMA InvInit == Init => Inv
<1> SUFFICES ASSUME Init PROVE Inv
  OBVIOUS
<1> USE DEF Init
<1>1. TypeInv
  BY TypeInit
<1>2. Issued = {} /\ \A o \in Orders : ~Matching(o)
  BY DEF Issued, Matching
<1> QED
  BY <1>1, <1>2
  DEF Inv, MutexInv, QuantityInv, ListInv, VisitInv, FillInv, OfferInv,
      PriorityInv, Taking, Taken, NoCrossedBook

\* What Fill changes of an order, and that it changes nothing else.
LEMMA FillEffect ==
  ASSUME NEW order \in Order, NEW qty \in Nat, qty <= order.remaining
  PROVE  LET full == Fill(order, qty)
         IN  /\ full.stock = order.stock
             /\ full.side = order.side
             /\ full.price = order.price
             /\ full.quantity = order.quantity
             /\ full.createdAt = order.createdAt
             /\ full.filled = order.filled + qty
             /\ full.remaining = order.remaining - qty
             /\ full.status = "FILLED" <=> full.remaining = 0
BY DEF Fill, Order

\* Crossing does not depend on which of the two orders is named first.
LEMMA CrossingSymmetric ==
  ASSUME NEW a \in Orders, NEW b \in Orders,
         orders[a] \in Order, orders[b] \in Order, Crossing(a, b)
  PROVE  Crossing(b, a)
BY PositiveInputs DEF Crossing, PricesMatch, Order, Sides

\* One request matches a stock at a time.
LEMMA OneMatcher ==
  ASSUME MutexInv, NEW a \in Orders, NEW b \in Orders,
         Matching(a), Matching(b), orders[a].stock = orders[b].stock
  PROVE  a = b
BY DEF MutexInv

\* A request takes only orders it listed.
LEMMA TakingListed ==
  ASSUME TypeInv, ListInv, NEW o \in Orders
  PROVE  Taking(o) \subseteq oppositeOrders[o]
BY DEF TypeInv, ListInv, Taking, Taken

-----------------------------------------------------------------------------
(* Every action preserves the inductive invariant.                         *)

LEMMA InvCreateOrder ==
  ASSUME Inv, NEW o \in Orders, CreateOrder(o)
  PROVE  Inv'
<1> USE DEF Inv
<1>1. TypeInv'
  BY TypeCreateOrder
<1>2. /\ pc[o] = "idle"
      /\ pc' = [pc EXCEPT ![o] = "created"]
      /\ \A x \in Orders \ {o} : orders'[x] = orders[x]
      /\ UNCHANGED <<saved, stockMu, oppositeOrders, visited, counterOrder,
                     fillQty, traded, tradeSeq, trades, events>>
  BY DEF CreateOrder, request, TypeInv, TypeOK
<1>3. /\ orders'[o].filled + orders'[o].remaining = orders'[o].quantity
      /\ orders'[o].status = "OPEN" /\ orders'[o].remaining > 0
  BY PositiveInputs DEF CreateOrder, NewOrder, TypeInv, TypeOK
<1>5. /\ \A x \in Orders \ {o} : pc'[x] = pc[x]
      /\ pc'[o] = "created"
  BY <1>2 DEF TypeInv, TypeOK
<1>6. /\ \A x \in Orders : /\ oppositeOrders[x] \subseteq Orders \ {o}
                           /\ visited[x] \subseteq Orders \ {o}
      /\ oppositeOrders[o] = {} /\ visited[o] = {}
  BY <1>2 DEF TypeInv, TypeOK, ListInv
<1>7. MutexInv'
  BY <1>2, <1>5 DEF MutexInv, Matching
<1>8. QuantityInv'
  BY <1>2, <1>3, <1>5 DEF QuantityInv, Issued
<1>9. ListInv'
  BY <1>2, <1>5, <1>6 DEF ListInv
<1>10. VisitInv'
  BY <1>2, <1>5, <1>6 DEF VisitInv
<1>11. FillInv'
  BY <1>2, <1>5, <1>6 DEF FillInv, ListInv, TypeInv, TypeOK, Pending
<1>12. OfferInv'
  BY <1>2, <1>5 DEF OfferInv, Matching, Crossing
<1>13. PriorityInv'
  <2>1. \A x \in Orders \ {o} : Taking(x)' = Taking(x)
    BY <1>2, <1>5 DEF Taking, Taken
  <2>2. Taking(o)' = {}
    BY <1>2, <1>5, <1>6 DEF Taking, Taken
  <2>3. \A x \in Orders : Taking(x) \subseteq Orders \ {o}
    BY <1>6, TakingListed
  <2> QED
    BY <1>2, <1>6, <2>1, <2>2, <2>3 DEF PriorityInv
<1>14. NoCrossedBook'
  BY <1>2, <1>5 DEF NoCrossedBook, Crossing
<1> QED
  BY <1>1, <1>7, <1>8, <1>9, <1>10, <1>11, <1>12, <1>13, <1>14

LEMMA InvSaveOrder ==
  ASSUME Inv, NEW o \in Orders, SaveOrder(o)
  PROVE  Inv'
<1> USE DEF Inv
<1>1. TypeInv'
  BY TypeSaveOrder
<1>2. /\ pc[o] = "created"
      /\ UNCHANGED <<orders, stockMu, oppositeOrders, visited, counterOrder,
                     fillQty, trades>>
  BY DEF SaveOrder, request, output
<1>3. pc'[o] = "saved" /\ \A x \in Orders \ {o} : pc'[x] = pc[x]
  BY DEF SaveOrder, TypeInv, TypeOK
<1>4. MutexInv'
  BY <1>2, <1>3 DEF MutexInv, Matching
<1>5. QuantityInv'
  BY <1>2, <1>3 DEF QuantityInv, Issued
<1>6. ListInv'
  BY <1>2, <1>3 DEF ListInv
<1>7. VisitInv'
  BY <1>2 DEF VisitInv
<1>8. FillInv'
  BY <1>2, <1>3 DEF FillInv, Pending
<1>9. OfferInv'
  BY <1>2, <1>3 DEF OfferInv, Matching, Crossing
<1>10. \A x \in Orders : Taking(x)' = Taking(x)
  BY <1>2, <1>3 DEF Taking, Taken
<1>11. PriorityInv'
  BY <1>2, <1>10 DEF PriorityInv
<1>12. NoCrossedBook'
  BY <1>2, <1>3 DEF NoCrossedBook, Crossing
<1> QED
  BY <1>1, <1>4, <1>5, <1>6, <1>7, <1>8, <1>9, <1>11, <1>12

\* The mutex is free, so nobody else matches this stock; the list holds
\* every answered order of the other side that has something left.
LEMMA InvStartMatching ==
  ASSUME Inv, NEW o \in Orders, StartMatching(o)
  PROVE  Inv'
<1> USE DEF Inv
<1> DEFINE listed == GetOpenOrdersByStock(orders[o].stock,
                                          Opposite(orders[o].side))
<1>1. TypeInv'
  BY TypeStartMatching
<1>2. /\ pc[o] = "saved"
      /\ stockMu[orders[o].stock] = Nil
      /\ UNCHANGED <<orders, visited, counterOrder, fillQty, trades>>
  BY DEF StartMatching, MutexFree, output
<1>3. orders[o] \in Order /\ orders[o].stock \in Stocks
  BY <1>2 DEF TypeInv, TypeOK, Order
<1>4. /\ pc'[o] = "matching"
      /\ \A x \in Orders \ {o} : pc'[x] = pc[x]
      /\ oppositeOrders'[o] = listed
      /\ \A x \in Orders \ {o} : oppositeOrders'[x] = oppositeOrders[x]
      /\ stockMu'[orders[o].stock] = o
      /\ \A s \in Stocks \ {orders[o].stock} : stockMu'[s] = stockMu[s]
  BY <1>3 DEF StartMatching, TypeInv, TypeOK
<1>5. oppositeOrders[o] = {} /\ visited[o] = {}
  BY <1>2 DEF ListInv
<1>6. \A x \in Orders : Matching(x) => /\ orders[x].stock # orders[o].stock
                                      /\ orders[x].stock \in Stocks
  BY <1>2, NilIsNoOrder DEF MutexInv, Matching, TypeInv, TypeOK, Order
<1>7. \A c \in listed : /\ orders[c].stock = orders[o].stock
                        /\ orders[c].side # orders[o].side
  BY <1>3 DEF GetOpenOrdersByStock, Opposite, Order, Sides
<1>8. MutexInv'
  <2> SUFFICES ASSUME NEW x \in Orders, Matching(x)'
               PROVE  stockMu'[orders[x].stock] = x
    BY <1>2 DEF MutexInv
  <2>1. CASE x = o
    BY <2>1, <1>4
  <2>2. CASE x # o
    BY <2>2, <1>4, <1>6 DEF MutexInv, Matching
  <2> QED
    BY <2>1, <2>2
<1>9. QuantityInv'
  BY <1>2, <1>4 DEF QuantityInv, Issued
<1>10. ListInv'
  BY <1>2, <1>4, <1>5, <1>7 DEF ListInv
<1>11. VisitInv'
  BY <1>2 DEF VisitInv
<1>12. FillInv'
  BY <1>2, <1>4 DEF FillInv, Pending
<1>13. OfferInv'
  <2> SUFFICES ASSUME NEW t \in Orders, NEW x \in Orders,
                      Matching(t)', pc'[x] = "done", Crossing(t, x)',
                      orders[x].remaining > 0
               PROVE  x \in oppositeOrders'[t]
    BY <1>2 DEF OfferInv
  <2>1. Crossing(t, x) /\ pc[x] = "done"
    BY <1>2, <1>4 DEF Crossing
  <2>2. CASE t # o
    BY <2>1, <2>2, <1>4 DEF OfferInv, Matching
  <2>3. CASE t = o
    <3>1. x \in saved /\ x \in Issued /\ orders[x] \in Order
      BY <2>1 DEF TypeInv, TypeOK, Issued
    <3>2. orders[x].status # "FILLED"
      BY <3>1 DEF QuantityInv
    <3>3. IsOpen(orders[x])
      BY <3>1, <3>2 DEF IsOpen, Order, Statuses
    <3>4. orders[x].side = Opposite(orders[o].side)
      BY <2>1, <2>3, <3>1, <1>3 DEF Crossing, Opposite, Order, Sides
    <3> QED
      BY <2>1, <2>3, <3>1, <3>3, <3>4, <1>4 DEF GetOpenOrdersByStock, Crossing
  <2> QED
    BY <2>2, <2>3
<1>14. PriorityInv'
  <2>1. \A x \in Orders \ {o} : Taking(x)' = Taking(x)
    BY <1>2, <1>4 DEF Taking, Taken
  <2>2. Taking(o)' = {}
    BY <1>2, <1>4, <1>5 DEF Taking, Taken
  <2> QED
    BY <1>2, <1>4, <2>1, <2>2 DEF PriorityInv
<1>15. NoCrossedBook'
  BY <1>2, <1>4 DEF NoCrossedBook, Crossing
<1> QED
  BY <1>1, <1>8, <1>9, <1>10, <1>11, <1>12, <1>13, <1>14, <1>15

\* An order is skipped only when the two cannot trade, now or ever.
LEMMA InvSkipCounter ==
  ASSUME Inv, NEW o \in Orders, SkipCounter(o)
  PROVE  Inv'
<1> USE DEF Inv
<1>1. TypeInv'
  BY TypeSkipCounter
<1>2. PICK c \in Earliest(Pending(o)) :
        /\ \/ ~PricesMatch(orders[o], orders[c])
           \/ FillQty(orders[o], orders[c]) = 0
        /\ visited' = [visited EXCEPT ![o] = @ \cup {c}]
  BY DEF SkipCounter
<1>3. /\ pc[o] = "matching"
      /\ UNCHANGED <<pc, orders, stockMu, oppositeOrders, counterOrder,
                     fillQty, trades>>
  BY DEF SkipCounter, output
<1>4. /\ visited'[o] = visited[o] \cup {c}
      /\ \A x \in Orders \ {o} : visited'[x] = visited[x]
  BY <1>2 DEF TypeInv, TypeOK
<1>5. /\ c \in oppositeOrders[o] /\ c \in Orders
      /\ \A d \in oppositeOrders[o] \ visited[o] :
           orders[c].createdAt <= orders[d].createdAt
  BY DEF Earliest, Pending, TypeInv, TypeOK
<1>6. /\ orders[o] \in Order /\ orders[c] \in Order
      /\ \A d \in oppositeOrders[o] : orders[d].createdAt \in Nat
  BY <1>3, <1>5 DEF TypeInv, TypeOK, Order
<1>7. \A d \in oppositeOrders[o] :
        orders[d].createdAt < orders[c].createdAt => d \in visited[o]
  BY <1>5, <1>6 DEF Order
<1>8. PricesMatch(orders[o], orders[c])
        => orders[o].remaining = 0 \/ orders[c].remaining = 0
  BY <1>2, <1>6 DEF FillQty, Order
<1>9. MutexInv' /\ QuantityInv' /\ OfferInv' /\ NoCrossedBook'
  BY <1>3 DEF MutexInv, QuantityInv, OfferInv, NoCrossedBook, Matching,
              Issued, Crossing
<1>10. ListInv'
  BY <1>3, <1>4, <1>5, <1>7 DEF ListInv
<1>11. VisitInv'
  BY <1>3, <1>4, <1>8 DEF VisitInv
<1>12. FillInv'
  \* Nobody who is filling the order o holds is at work on this stock.
  <2> SUFFICES ASSUME NEW x \in Orders, pc[x] \in {"filling", "filled"}
               PROVE  /\ counterOrder[x] \in Pending(x)'
                      /\ x \notin visited'[counterOrder[x]]
                      /\ \A d \in oppositeOrders[x] :
                           orders[d].createdAt < orders[counterOrder[x]].createdAt
                             => d \in visited'[x]
    BY <1>3 DEF FillInv
  <2>1. x # o /\ counterOrder[x] \in Pending(x)
    BY <1>3 DEF FillInv
  <2>2. counterOrder[x] # o
    BY <2>1, <1>3, OneMatcher DEF Pending, ListInv, Matching
  <2> QED
    BY <2>1, <2>2, <1>3, <1>4 DEF FillInv, Pending, TypeInv, TypeOK
<1>13. PriorityInv'
  <2>1. \A x \in Orders \ {o} : Taking(x)' = Taking(x)
    BY <1>3, <1>4 DEF Taking, Taken
  <2>2. Taking(o)' \subseteq Taking(o) \cup {c}
    BY <1>3, <1>4 DEF Taking, Taken
  <2>3. orders[o].remaining > 0
    BY DEF SkipCounter
  <2>4. \A d \in oppositeOrders[o] :
          /\ orders[d].createdAt < orders[c].createdAt
          /\ PricesMatch(orders[o], orders[d])
          => orders[d].remaining = 0
    BY <1>7, <2>3 DEF VisitInv
  <2> QED
    BY <1>3, <2>1, <2>2, <2>4 DEF PriorityInv
<1> QED
  BY <1>1, <1>9, <1>10, <1>11, <1>12, <1>13

\* An order a is filled by no more than it has left: whatever is true of the
\* terms of orders, or of orders that have nothing left, stays true.
SameTerms(x) ==
  /\ orders'[x].stock = orders[x].stock
  /\ orders'[x].side = orders[x].side
  /\ orders'[x].price = orders[x].price
  /\ orders'[x].createdAt = orders[x].createdAt

OnlyFills(a, qty) ==
  /\ \A x \in Orders : SameTerms(x)
  /\ \A x \in Orders \ {a} : orders'[x] = orders[x]
  /\ orders'[a].remaining = orders[a].remaining - qty
  /\ orders[a].remaining \in Nat /\ qty \in Nat
  /\ qty <= orders[a].remaining

LEMMA FilledOrder ==
  ASSUME TypeInv, QuantityInv, NEW a \in Issued, NEW qty \in Nat,
         qty <= orders[a].remaining,
         orders' = [orders EXCEPT ![a] = Fill(@, qty)],
         Issued' = Issued
  PROVE  OnlyFills(a, qty) /\ QuantityInv'
<1>1. a \in Orders /\ orders[a] \in Order
  BY DEF TypeInv, TypeOK, Issued
<1>2. /\ orders'[a] = Fill(orders[a], qty)
      /\ \A x \in Orders \ {a} : orders'[x] = orders[x]
  BY <1>1 DEF TypeInv, TypeOK
<1>3. OnlyFills(a, qty)
  BY <1>1, <1>2, FillEffect DEF OnlyFills, SameTerms, Order
<1>4. QuantityInv'
  <2> SUFFICES ASSUME NEW x \in Issued
               PROVE  /\ orders'[x].filled + orders'[x].remaining
                            = orders'[x].quantity
                      /\ orders'[x].status = "FILLED"
                            <=> orders'[x].remaining = 0
    BY DEF QuantityInv
  <2>1. CASE x = a
    BY <2>1, <1>1, <1>2, FillEffect DEF QuantityInv, Order
  <2>2. CASE x # a
    BY <2>2, <1>2 DEF QuantityInv, Issued
  <2> QED
    BY <2>1, <2>2
<1> QED
  BY <1>3, <1>4

\* What a fill cannot break.
LEMMA FillPreserves ==
  ASSUME Inv, NEW a \in Orders, NEW qty \in Nat, OnlyFills(a, qty),
         UNCHANGED <<stockMu, oppositeOrders, visited>>,
         NEW o \in Orders, Matching(o), Matching(o)', pc[o] # "done",
         \A x \in Orders \ {o} : pc'[x] = pc[x]
  PROVE  MutexInv' /\ ListInv' /\ VisitInv' /\ OfferInv' /\ NoCrossedBook'
<1> USE DEF Inv
<1>1. \A x \in Orders :
        /\ pc'[x] \in {"matching", "filling", "filled"}
             => pc[x] \in {"matching", "filling", "filled"}
        /\ pc'[x] \in {"idle", "created", "saved", "done"} => pc'[x] = pc[x]
  BY DEF Matching
<1>3. \A x \in Orders : orders[x].remaining = 0 => orders'[x].remaining = 0
  BY DEF OnlyFills
<1>4. \A x \in Orders : orders'[x].remaining > 0 => orders[x].remaining > 0
  BY DEF OnlyFills
<1>5. \A x, y \in Orders :
        PricesMatch(orders'[x], orders'[y])
          <=> PricesMatch(orders[x], orders[y])
  BY DEF OnlyFills, SameTerms, PricesMatch
<1>6. MutexInv'
  <2> SUFFICES ASSUME NEW x \in Orders, Matching(x)'
               PROVE  stockMu[orders'[x].stock] = x
    BY DEF MutexInv
  <2> QED
    BY <1>1 DEF MutexInv, Matching, OnlyFills, SameTerms
<1>7. ListInv'
  <2>1. \A x \in Orders : /\ orders'[x].stock = orders[x].stock
                         /\ orders'[x].side = orders[x].side
                         /\ orders'[x].createdAt = orders[x].createdAt
    BY DEF OnlyFills, SameTerms
  <2>2. \A x \in Orders : oppositeOrders[x] \subseteq Orders
    BY DEF TypeInv, TypeOK
  <2>3. \A x \in Orders : pc'[x] \in {"idle", "created", "saved"}
                           => oppositeOrders[x] = {}
    BY <1>1 DEF ListInv
  <2> QED
    BY <2>1, <2>2, <2>3 DEF ListInv
<1>8. VisitInv'
  BY <1>3, <1>5 DEF VisitInv, TypeInv, TypeOK
<1>9. OfferInv'
  <2> SUFFICES ASSUME NEW t \in Orders, NEW x \in Orders,
                      Matching(t)', pc'[x] = "done", Crossing(t, x)',
                      orders'[x].remaining > 0
               PROVE  x \in oppositeOrders[t]
    BY DEF OfferInv
  <2> QED
    BY <1>1, <1>4, <1>5 DEF OfferInv, Matching, Crossing, OnlyFills, SameTerms
<1>10. NoCrossedBook'
  BY <1>1, <1>3, <1>5 DEF NoCrossedBook, Crossing, OnlyFills, SameTerms
<1> QED
  BY <1>6, <1>7, <1>8, <1>9, <1>10

LEMMA FillKeepsPriority ==
  ASSUME NEW a \in Orders, NEW qty \in Nat, OnlyFills(a, qty),
         NEW x \in Orders, NEW d \in Orders, NEW e \in Orders,
         /\ orders[e].createdAt < orders[d].createdAt
         /\ PricesMatch(orders[x], orders[e])
         => orders[e].remaining = 0
  PROVE  /\ orders'[e].createdAt < orders'[d].createdAt
         /\ PricesMatch(orders'[x], orders'[e])
         => orders'[e].remaining = 0
<1>1. SameTerms(x) /\ SameTerms(d) /\ SameTerms(e)
  BY DEF OnlyFills
<1>2. orders[e].remaining = 0 => orders'[e].remaining = 0
  BY DEF OnlyFills
<1> QED
  BY <1>1, <1>2 DEF SameTerms, PricesMatch

LEMMA InvFillIncoming ==
  ASSUME Inv, NEW o \in Orders, FillIncoming(o)
  PROVE  Inv'
<1> USE DEF Inv
<1>1. TypeInv'
  BY TypeFillIncoming
<1>2. PICK c \in Earliest(Pending(o)) :
        LET qty == FillQty(orders[o], orders[c])
        IN  /\ PricesMatch(orders[o], orders[c])
            /\ qty > 0
            /\ counterOrder' = [counterOrder EXCEPT ![o] = c]
            /\ fillQty' = [fillQty EXCEPT ![o] = qty]
            /\ orders' = [orders EXCEPT ![o] = Fill(@, qty)]
  BY DEF FillIncoming
<1> DEFINE qty == FillQty(orders[o], orders[c])
<1>3. /\ pc[o] = "matching"
      /\ orders[o].remaining > 0
      /\ UNCHANGED <<stockMu, oppositeOrders, visited, trades>>
  BY DEF FillIncoming, output
<1>4. /\ c \in oppositeOrders[o] /\ c \in Orders /\ c \in Pending(o)
      /\ \A d \in oppositeOrders[o] \ visited[o] :
           orders[c].createdAt <= orders[d].createdAt
  BY DEF Earliest, Pending, TypeInv, TypeOK
<1>5. /\ orders[o] \in Order /\ orders[c] \in Order
      /\ \A d \in oppositeOrders[o] : orders[d].createdAt \in Nat
  BY <1>3, <1>4 DEF TypeInv, TypeOK, Order
<1>6. /\ qty \in Nat
      /\ qty <= orders[o].remaining /\ qty <= orders[c].remaining
      /\ qty = orders[o].remaining \/ qty = orders[c].remaining
  BY <1>5 DEF FillQty, Order
<1>7. \A d \in oppositeOrders[o] :
        orders[d].createdAt < orders[c].createdAt => d \in visited[o]
  BY <1>4, <1>5 DEF Order
<1>8. /\ pc'[o] = "filling"
      /\ \A x \in Orders \ {o} : pc'[x] = pc[x]
      /\ counterOrder'[o] = c /\ fillQty'[o] = qty
      /\ \A x \in Orders \ {o} : /\ counterOrder'[x] = counterOrder[x]
                                /\ fillQty'[x] = fillQty[x]
  BY <1>2 DEF FillIncoming, TypeInv, TypeOK
<1>9. Issued' = Issued /\ o \in Issued /\ Matching(o) /\ Matching(o)'
  BY <1>3, <1>8 DEF Issued, Matching
<1> HIDE DEF qty
<1>10. OnlyFills(o, qty) /\ QuantityInv'
  BY <1>2, <1>6, <1>9, FilledOrder DEF qty
<1>11. MutexInv' /\ ListInv' /\ VisitInv' /\ OfferInv' /\ NoCrossedBook'
  BY <1>3, <1>6, <1>8, <1>9, <1>10, FillPreserves
<1>12. c # o /\ o \notin visited[c]
  <2>1. Crossing(o, c)
    BY <1>2, <1>4 DEF ListInv, Crossing
  <2>2. Crossing(c, o)
    BY <2>1, <1>4, <1>5, CrossingSymmetric
  <2> QED
    BY <2>1, <2>2, <1>2, <1>3, <1>4, <1>6 DEF VisitInv, Crossing, qty
<1>13. FillInv'
  <2> SUFFICES ASSUME NEW x \in Orders,
                      pc'[x] \in {"filling", "filled"}
               PROVE  LET d == counterOrder'[x] IN
                      /\ d \in Pending(x)'
                      /\ x \notin visited[d]
                      /\ PricesMatch(orders'[x], orders'[d])
                      /\ \A e \in oppositeOrders[x] :
                           orders'[e].createdAt < orders'[d].createdAt
                             => e \in visited[x]
                      /\ pc'[x] = "filling" =>
                           /\ fillQty'[x] <= orders'[d].remaining
                           /\ orders'[x].remaining = 0
                                \/ fillQty'[x] = orders'[d].remaining
                      /\ pc'[x] = "filled" =>
                           orders'[x].remaining = 0 \/ orders'[d].remaining = 0
    BY <1>3 DEF FillInv
  <2>1. \A e \in Orders : SameTerms(e)
    BY <1>10 DEF OnlyFills
  <2>2. \A e \in oppositeOrders[x] :
          e \in Orders /\ orders'[e].createdAt = orders[e].createdAt
    BY <2>1 DEF SameTerms, TypeInv, TypeOK
  <2>3. CASE x = o
    <3>1. PricesMatch(orders'[o], orders'[c])
      BY <2>1, <1>2, <1>4 DEF PricesMatch, SameTerms
    <3>2. /\ qty <= orders'[c].remaining
          /\ orders'[o].remaining = 0 \/ qty = orders'[c].remaining
      BY <1>4, <1>6, <1>10, <1>12 DEF OnlyFills
    <3>3. c \in Pending(o)'
      BY <1>3, <1>4 DEF Pending
    <3> QED
      BY <2>2, <2>3, <3>1, <3>2, <3>3, <1>4, <1>7, <1>8, <1>12
  <2>4. CASE x # o
    <3> DEFINE d == counterOrder[x]
    <3>1. /\ pc'[x] = pc[x] /\ counterOrder'[x] = d /\ fillQty'[x] = fillQty[x]
          /\ d \in Pending(x) /\ d \in Orders /\ d \in oppositeOrders[x]
      BY <2>4, <1>8 DEF FillInv, Pending, TypeInv, TypeOK
    <3>2. d # o
      BY <3>1, <2>4, <1>9, OneMatcher DEF ListInv, Matching
    <3>3. orders'[x] = orders[x] /\ orders'[d] = orders[d]
      BY <3>1, <3>2, <2>4, <1>10 DEF OnlyFills
    <3>4. d \in Pending(x)'
      BY <3>1, <1>3 DEF Pending
    <3> HIDE DEF d
    <3> QED
      BY <3>1, <3>3, <3>4, <2>2 DEF FillInv, d
  <2> QED
    BY <2>3, <2>4
<1>14. PriorityInv'
  <2>1. \A x \in Orders \ {o} : Taking(x)' = Taking(x)
    BY <1>3, <1>8 DEF Taking, Taken
  <2>2. Taking(o)' \subseteq Taking(o) \cup {c}
    BY <1>3, <1>8 DEF Taking, Taken
  <2>3. \A d \in oppositeOrders[o] :
          /\ orders[d].createdAt < orders[c].createdAt
          /\ PricesMatch(orders[o], orders[d])
          => orders[d].remaining = 0
    BY <1>3, <1>7 DEF VisitInv
  <2>4. \A x \in Orders : \A d \in Taking(x)', e \in oppositeOrders[x] :
          /\ orders[e].createdAt < orders[d].createdAt
          /\ PricesMatch(orders[x], orders[e])
          => orders[e].remaining = 0
    BY <2>1, <2>2, <2>3 DEF PriorityInv
  <2>5. \A x \in Orders : /\ oppositeOrders[x] \subseteq Orders
                         /\ Taking(x)' \subseteq Orders
    BY <1>4, <2>1, <2>2, TakingListed DEF TypeInv, TypeOK
  <2>6. \A x \in Orders : \A d \in Taking(x)', e \in oppositeOrders[x] :
          /\ orders'[e].createdAt < orders'[d].createdAt
          /\ PricesMatch(orders'[x], orders'[e])
          => orders'[e].remaining = 0
    BY <2>4, <2>5, <1>6, <1>10, FillKeepsPriority
  <2> QED
    BY <1>3, <2>6 DEF PriorityInv
<1> QED
  BY <1>1, <1>10, <1>11, <1>13, <1>14

LEMMA InvFillCounter ==
  ASSUME Inv, NEW o \in Orders, FillCounter(o)
  PROVE  Inv'
<1> USE DEF Inv
<1> DEFINE c   == counterOrder[o]
           qty == fillQty[o]
<1>1. TypeInv'
  BY TypeFillCounter
<1>2. /\ pc[o] = "filling"
      /\ orders' = [orders EXCEPT ![c] = Fill(@, qty)]
      /\ UNCHANGED <<stockMu, oppositeOrders, visited, counterOrder, fillQty,
                     trades>>
  BY DEF FillCounter, request, output
<1>3. /\ pc'[o] = "filled"
      /\ \A x \in Orders \ {o} : pc'[x] = pc[x]
  BY DEF FillCounter, TypeInv, TypeOK
<1>4. /\ c \in Orders /\ c \in oppositeOrders[o] /\ c \in saved
      /\ orders[o] \in Order /\ orders[c] \in Order
      /\ qty \in Nat
  BY <1>2 DEF TypeInv, TypeOK
<1>5. /\ Issued' = Issued /\ c \in Issued
      /\ Matching(o) /\ Matching(o)'
  BY <1>2, <1>3, <1>4 DEF Issued, Matching, TypeInv, TypeOK
<1>6. /\ qty <= orders[c].remaining
      /\ orders[o].remaining = 0 \/ qty = orders[c].remaining
  BY <1>2 DEF FillInv
<1> HIDE DEF c, qty
<1>7. OnlyFills(c, qty) /\ QuantityInv'
  BY <1>2, <1>4, <1>5, <1>6, FilledOrder
<1>8. MutexInv' /\ ListInv' /\ VisitInv' /\ OfferInv' /\ NoCrossedBook'
  BY <1>2, <1>3, <1>4, <1>5, <1>7, FillPreserves
<1>9. c # o
  BY <1>4 DEF ListInv
<1>10. FillInv'
  <2> SUFFICES ASSUME NEW x \in Orders,
                      pc'[x] \in {"filling", "filled"}
               PROVE  LET d == counterOrder[x] IN
                      /\ d \in Pending(x)'
                      /\ x \notin visited[d]
                      /\ PricesMatch(orders'[x], orders'[d])
                      /\ \A e \in oppositeOrders[x] :
                           orders'[e].createdAt < orders'[d].createdAt
                             => e \in visited[x]
                      /\ pc'[x] = "filling" =>
                           /\ fillQty[x] <= orders'[d].remaining
                           /\ orders'[x].remaining = 0
                                \/ fillQty[x] = orders'[d].remaining
                      /\ pc'[x] = "filled" =>
                           orders'[x].remaining = 0 \/ orders'[d].remaining = 0
    BY <1>2 DEF FillInv
  <2>1. \A e \in Orders : SameTerms(e)
    BY <1>7 DEF OnlyFills
  <2>2. \A e \in oppositeOrders[x] :
          e \in Orders /\ orders'[e].createdAt = orders[e].createdAt
    BY <2>1 DEF SameTerms, TypeInv, TypeOK
  <2>3. CASE x = o
    <3>1. c \in Pending(o) /\ o \notin visited[c]
          /\ PricesMatch(orders[o], orders[c])
          /\ \A e \in oppositeOrders[o] :
               orders[e].createdAt < orders[c].createdAt => e \in visited[o]
      BY <1>2 DEF FillInv, c
    <3>2. PricesMatch(orders'[o], orders'[c])
      BY <3>1, <2>1, <1>4 DEF PricesMatch, SameTerms
    <3>3. orders'[o].remaining = 0 \/ orders'[c].remaining = 0
      BY <1>4, <1>6, <1>7, <1>9 DEF OnlyFills
    <3>4. c \in Pending(o)'
      BY <1>2, <3>1 DEF Pending
    <3> QED
      BY <2>2, <2>3, <3>1, <3>2, <3>3, <3>4, <1>3, <1>4 DEF c
  <2>4. CASE x # o
    <3> DEFINE d == counterOrder[x]
    <3>1. /\ pc'[x] = pc[x] /\ Matching(x)
          /\ d \in Pending(x) /\ d \in Orders /\ d \in oppositeOrders[x]
      BY <2>4, <1>3 DEF FillInv, Pending, Matching, TypeInv, TypeOK
    <3>2. orders[x].stock # orders[o].stock
      BY <3>1, <2>4, <1>5, OneMatcher
    <3>3. x # c /\ d # c
      BY <3>1, <3>2, <1>4 DEF ListInv
    <3>4. orders'[x] = orders[x] /\ orders'[d] = orders[d]
      BY <3>1, <3>3, <1>7 DEF OnlyFills
    <3>5. d \in Pending(x)'
      BY <3>1, <1>2 DEF Pending
    <3> HIDE DEF d
    <3> QED
      BY <3>1, <3>4, <3>5, <2>2 DEF FillInv, d
  <2> QED
    BY <2>3, <2>4
<1>11. PriorityInv'
  <2>1. \A x \in Orders : Taking(x)' = Taking(x)
    BY <1>2, <1>3 DEF Taking, Taken
  <2>2. \A x \in Orders : /\ oppositeOrders[x] \subseteq Orders
                         /\ Taking(x) \subseteq Orders
    BY TakingListed DEF TypeInv, TypeOK
  <2>3. \A x \in Orders : \A d \in Taking(x), e \in oppositeOrders[x] :
          /\ orders'[e].createdAt < orders'[d].createdAt
          /\ PricesMatch(orders'[x], orders'[e])
          => orders'[e].remaining = 0
    BY <2>2, <1>4, <1>7, FillKeepsPriority DEF PriorityInv
  <2> QED
    BY <1>2, <2>1, <2>3 DEF PriorityInv
<1> QED
  BY <1>1, <1>7, <1>8, <1>10, <1>11

\* The loop is done with the order it traded with: one of the two is filled.
LEMMA InvRecordTrade ==
  ASSUME Inv, NEW o \in Orders, RecordTrade(o)
  PROVE  Inv'
<1> USE DEF Inv
<1> DEFINE c == counterOrder[o]
<1>1. TypeInv'
  BY TypeRecordTrade
<1>2. PICK trade :
        /\ trade.buy = IF orders[o].side = "BUY" THEN o ELSE c
        /\ trade.sell = IF orders[o].side = "BUY" THEN c ELSE o
        /\ trades' = trades \cup {trade}
  BY DEF RecordTrade
<1>3. /\ pc[o] = "filled"
      /\ UNCHANGED <<orders, stockMu, oppositeOrders, counterOrder, fillQty>>
  BY DEF RecordTrade
<1>4. /\ pc'[o] = "matching"
      /\ \A x \in Orders \ {o} : pc'[x] = pc[x]
      /\ visited'[o] = visited[o] \cup {c}
      /\ \A x \in Orders \ {o} : visited'[x] = visited[x]
  BY DEF RecordTrade, TypeInv, TypeOK
<1>5. /\ c \in Pending(o) /\ o \notin visited[c]
      /\ PricesMatch(orders[o], orders[c])
      /\ orders[o].remaining = 0 \/ orders[c].remaining = 0
      /\ \A d \in oppositeOrders[o] :
           orders[d].createdAt < orders[c].createdAt => d \in visited[o]
  BY <1>3 DEF FillInv
<1>6. c \in oppositeOrders[o] /\ c \in Orders /\ c # o
  BY <1>5 DEF Pending, ListInv, TypeInv, TypeOK
<1> HIDE DEF c
<1>7. MutexInv' /\ QuantityInv' /\ OfferInv' /\ NoCrossedBook'
  <2>1. \A x \in Orders :
          /\ pc'[x] \in {"matching", "filling", "filled"}
               => pc[x] \in {"matching", "filling", "filled"}
          /\ pc'[x] = "done" => pc[x] = "done"
          /\ pc'[x] = "idle" <=> pc[x] = "idle"
    BY <1>3, <1>4
  <2> QED
    BY <1>3, <2>1 DEF MutexInv, QuantityInv, OfferInv, NoCrossedBook,
                      Matching, Issued, Crossing
<1>8. ListInv'
  BY <1>3, <1>4, <1>5, <1>6 DEF ListInv
<1>9. VisitInv'
  BY <1>3, <1>4, <1>5 DEF VisitInv
<1>10. FillInv'
  <2> SUFFICES ASSUME NEW x \in Orders, x # o,
                      pc[x] \in {"filling", "filled"}
               PROVE  /\ counterOrder[x] \in Pending(x)'
                      /\ x \notin visited'[counterOrder[x]]
                      /\ \A d \in oppositeOrders[x] :
                           orders[d].createdAt < orders[counterOrder[x]].createdAt
                             => d \in visited'[x]
    BY <1>3, <1>4 DEF FillInv
  <2>1. counterOrder[x] \in Pending(x)
    BY DEF FillInv
  <2>2. counterOrder[x] # o
    BY <2>1, <1>3, OneMatcher DEF Pending, ListInv, Matching
  <2> QED
    BY <2>1, <2>2, <1>3, <1>4 DEF FillInv, Pending, TypeInv, TypeOK
<1>11. PriorityInv'
  <2>1. c \in Taking(o)
    BY <1>3 DEF Taking, c
  <2>2. \A x \in Orders : Taking(x)' \subseteq Taking(x)
    <3> SUFFICES ASSUME NEW x \in Orders, NEW d \in Taking(x)'
                 PROVE  d \in Taking(x)
      OBVIOUS
    <3>1. CASE d \in Taken(x)'
      <4>1. PICK t \in trades' : d \in visited'[x] /\ {t.buy, t.sell} = {x, d}
        BY <3>1 DEF Taken
      <4>2. CASE t \in trades /\ d \in visited[x]
        BY <4>1, <4>2 DEF Taking, Taken
      <4>3. CASE d \notin visited[x]
        BY <4>1, <4>3, <1>4, <2>1
      <4>4. CASE t = trade
        <5>1. {x, d} = {o, c}
          BY <4>1, <4>4, <1>2
        <5>2. x = o => d = c
          BY <5>1, <1>6
        <5>3. x # o => x = c /\ d = o
          BY <5>1
        <5> QED
          BY <5>2, <5>3, <4>1, <1>4, <1>5, <1>6, <2>1
      <4> QED
        BY <4>1, <4>2, <4>3, <4>4, <1>2
    <3>2. CASE d \notin Taken(x)'
      BY <3>2, <1>3, <1>4 DEF Taking
    <3> QED
      BY <3>1, <3>2
  <2> QED
    BY <1>3, <2>2 DEF PriorityInv
<1> QED
  BY <1>1, <1>7, <1>8, <1>9, <1>10, <1>11

\* Either the order has nothing left or everything it listed was visited, so
\* what rests cannot trade with it.
LEMMA InvFinishMatching ==
  ASSUME Inv, NEW o \in Orders, FinishMatching(o)
  PROVE  Inv'
<1> USE DEF Inv
<1>1. TypeInv'
  BY TypeFinishMatching
<1>2. /\ pc[o] = "matching"
      /\ oppositeOrders[o] \ visited[o] = {} \/ orders[o].remaining = 0
      /\ stockMu' = [stockMu EXCEPT ![orders[o].stock] = Nil]
      /\ UNCHANGED <<orders, oppositeOrders, visited, counterOrder, fillQty,
                     trades>>
  BY DEF FinishMatching, Release, Pending, request
<1>3. /\ pc'[o] = "done"
      /\ \A x \in Orders \ {o} : pc'[x] = pc[x]
  BY DEF FinishMatching, TypeInv, TypeOK
<1>4. MutexInv'
  <2> SUFFICES ASSUME NEW x \in Orders, Matching(x)'
               PROVE  stockMu'[orders[x].stock] = x
    BY <1>2 DEF MutexInv
  <2>1. x # o /\ Matching(x)
    BY <1>3 DEF Matching
  <2>2. orders[x].stock # orders[o].stock
    BY <2>1, <1>2, OneMatcher DEF Matching
  <2>3. orders[x].stock \in Stocks
    BY <2>1 DEF Matching, TypeInv, TypeOK, Order
  <2> QED
    BY <2>1, <2>2, <2>3, <1>2 DEF MutexInv, TypeInv, TypeOK
<1>5. QuantityInv'
  BY <1>2, <1>3 DEF QuantityInv, Issued
<1>6. ListInv'
  BY <1>2, <1>3 DEF ListInv
<1>7. VisitInv'
  BY <1>2 DEF VisitInv
<1>8. FillInv'
  BY <1>2, <1>3 DEF FillInv, Pending
<1>9. \A x \in Orders : x # o /\ pc[x] = "done" /\ Crossing(o, x)
        => orders[o].remaining = 0 \/ orders[x].remaining = 0
  <2> SUFFICES ASSUME NEW x \in Orders, pc[x] = "done", Crossing(o, x),
                      orders[o].remaining # 0, orders[x].remaining # 0
               PROVE  FALSE
    OBVIOUS
  <2>1. orders[o].remaining > 0 /\ orders[x].remaining > 0
    BY <1>2 DEF TypeInv, TypeOK, Order
  <2>2. x \in oppositeOrders[o]
    BY <2>1, <1>2 DEF OfferInv, Matching
  <2>3. x \in visited[o]
    BY <2>1, <2>2, <1>2
  <2> QED
    BY <2>3 DEF VisitInv, Crossing
<1>10. OfferInv'
  <2> SUFFICES ASSUME NEW t \in Orders, NEW x \in Orders,
                      Matching(t)', pc'[x] = "done", Crossing(t, x),
                      orders[x].remaining > 0
               PROVE  x \in oppositeOrders[t]
    BY <1>2 DEF OfferInv, Crossing
  <2>1. t # o /\ Matching(t)
    BY <1>3 DEF Matching
  <2>2. x # o
    \* o held the mutex of its stock, so t is at work on another one.
    BY <2>1, <1>2, OneMatcher DEF Matching, Crossing
  <2> QED
    BY <2>1, <2>2, <1>3 DEF OfferInv
<1>11. \A x \in Orders : Taking(x)' = Taking(x)
  BY <1>2, <1>3 DEF Taking, Taken
<1>12. PriorityInv'
  BY <1>2, <1>11 DEF PriorityInv
<1>13. NoCrossedBook'
  <2> SUFFICES ASSUME NEW x \in Orders, NEW y \in Orders,
                      pc'[x] = "done", pc'[y] = "done", Crossing(x, y)
               PROVE  orders[x].remaining = 0 \/ orders[y].remaining = 0
    BY <1>2 DEF NoCrossedBook, Crossing
  <2>1. x # y
    BY DEF Crossing
  <2>2. orders[x] \in Order /\ orders[y] \in Order
    BY <1>2, <1>3 DEF TypeInv, TypeOK
  <2>3. CASE x = o
    BY <2>1, <2>3, <1>3, <1>9
  <2>4. CASE y = o
    BY <2>1, <2>2, <2>4, <1>3, <1>9, CrossingSymmetric
  <2>5. CASE x # o /\ y # o
    BY <2>5, <1>3 DEF NoCrossedBook
  <2> QED
    BY <2>3, <2>4, <2>5
<1> QED
  BY <1>1, <1>4, <1>5, <1>6, <1>7, <1>8, <1>10, <1>12, <1>13

LEMMA InvStep == Inv /\ [Next]_vars => Inv'
<1> SUFFICES ASSUME Inv, [Next]_vars
             PROVE  Inv'
  OBVIOUS
<1>1. ASSUME NEW o \in Orders, CreateOrder(o) \/ Process(o)
      PROVE  Inv'
  BY <1>1, InvCreateOrder, InvSaveOrder, InvStartMatching, InvSkipCounter,
     InvFillIncoming, InvFillCounter, InvRecordTrade, InvFinishMatching
  DEF Process
<1>2. CASE UNCHANGED vars
  <2>1. TypeInv'
    BY <1>2, TypeStep DEF Inv
  <2>2. UNCHANGED <<pc, orders, stockMu, oppositeOrders, visited,
                    counterOrder, fillQty, trades>>
    BY <1>2 DEF vars
  <2>3. \A x \in Orders : Taking(x)' = Taking(x)
    BY <2>2 DEF Taking, Taken
  <2>4. PriorityInv'
    BY <2>2, <2>3 DEF Inv, PriorityInv
  <2>5. MutexInv' /\ QuantityInv' /\ OfferInv' /\ NoCrossedBook'
    BY <2>2 DEF Inv, MutexInv, QuantityInv, OfferInv, NoCrossedBook,
                Matching, Issued, Crossing
  <2>6. ListInv' /\ VisitInv' /\ FillInv'
    BY <2>2 DEF Inv, ListInv, VisitInv, FillInv, Pending
  <2> QED
    BY <2>1, <2>4, <2>5, <2>6 DEF Inv
<1> QED
  BY <1>1, <1>2 DEF Next, AllAnswered

-----------------------------------------------------------------------------
(* The theorems.                                                           *)

THEOREM Invariance == Spec => []Inv
BY InvInit, InvStep, PTL DEF Spec

\* Once two requests are answered, their orders never both rest in the book
\* at prices that match, whatever the interleaving of the requests.
THEOREM BookNeverCrossed == Spec => []NoCrossedBook
<1>1. Inv => NoCrossedBook
  BY DEF Inv
<1> QED
  BY <1>1, Invariance, PTL

\* A request serves the orders it listed in the order they were created.
THEOREM FirstComeFirstServed == Spec => []TimePriority
<1>1. Inv => TimePriority
  BY DEF Inv, PriorityInv, TimePriority, Taking
<1> QED
  BY <1>1, Invariance, PTL

\* However many requests fill an order, it is never filled beyond its
\* quantity, and its status says FILLED exactly when nothing is left.
THEOREM NeverOverfilled == Spec => []QuantityInv
<1>1. Inv => QuantityInv
  BY DEF Inv
<1> QED
  BY <1>1, Invariance, PTL
-----------------------------------------------------------------------------
(* The trades of an order add up to its filled quantity.                   *)

\* t has filled its counter order x and not yet saved the trade.
Owes(t, x) == pc[t] = "filled" /\ counterOrder[t] = x

Filling(x) == pc[x] \in {"filling", "filled"}

\* By the mutex at most one request owes x a trade, and none does while x
\* itself is at it.
FlightInv ==
  \A x \in Orders :
    /\ Filling(x) => InFlight(x) = fillQty[x] /\ \A t \in Orders : ~Owes(t, x)
    /\ ~Filling(x) /\ (\A t \in Orders : ~Owes(t, x)) => InFlight(x) = 0
    /\ \A t \in Orders : Owes(t, x) => InFlight(x) = fillQty[t]

\* Trade IDs are drawn from a counter, so that no two trades are the same
\* record, and an order trades once it is issued.
LedgerInv ==
  /\ IsFiniteSet(trades)
  /\ \A t \in trades : t.id <= tradeSeq /\ t.buy \in Issued /\ t.sell \in Issued
  /\ \A x \in Issued : orders[x].filled = Total(TradesOf(x)) + InFlight(x)

\* What is outstanding for an order follows from where the requests are:
\* the mutex of its stock lets one of them through at a time.
LEMMA FlightKnown == Inv => FlightInv
<1> SUFFICES ASSUME Inv, NEW x \in Orders
             PROVE  /\ Filling(x) => InFlight(x) = fillQty[x]
                                       /\ \A t \in Orders : ~Owes(t, x)
                    /\ ~Filling(x) /\ (\A t \in Orders : ~Owes(t, x))
                         => InFlight(x) = 0
                    /\ \A t \in Orders : Owes(t, x) => InFlight(x) = fillQty[t]
  BY DEF FlightInv
<1> USE DEF Inv
<1> DEFINE debtors == {t \in Orders : pc[t] = "filled" /\ counterOrder[t] = x}
<1>1. \A t \in Orders : Owes(t, x) =>
        /\ Matching(t) /\ t # x /\ orders[t].stock = orders[x].stock
        /\ ~Matching(x)
  <2> SUFFICES ASSUME NEW t \in Orders, Owes(t, x)
               PROVE  /\ Matching(t) /\ t # x /\ orders[t].stock = orders[x].stock
                      /\ ~Matching(x)
    OBVIOUS
  <2>1. Matching(t) /\ x \in oppositeOrders[t]
    BY DEF Owes, Matching, TypeInv
  <2>2. orders[x].stock = orders[t].stock /\ orders[x].side # orders[t].side
    BY <2>1 DEF ListInv
  <2> QED
    BY <2>1, <2>2, OneMatcher
<1>2. Filling(x) => /\ InFlight(x) = fillQty[x]
                    /\ \A t \in Orders : ~Owes(t, x)
  BY <1>1 DEF InFlight, Filling, Matching
<1>3. ~Filling(x) => InFlight(x) = SumFunctionOnSet(fillQty, debtors)
  BY DEF InFlight, Filling
<1>4. ASSUME \A t \in Orders : ~Owes(t, x)
      PROVE  SumFunctionOnSet(fillQty, debtors) = 0
  <2>1. debtors = {}
    BY <1>4 DEF Owes
  <2> HIDE DEF debtors
  <2> QED
    BY <2>1, SumEmpty
<1>5. ASSUME NEW t \in Orders, Owes(t, x)
      PROVE  InFlight(x) = fillQty[t]
  <2>1. \A u \in Orders : Owes(u, x) => u = t
    BY <1>1, <1>5, OneMatcher
  <2>2. debtors = {t}
    BY <2>1, <1>5 DEF Owes
  <2>3. fillQty[t] \in Int
    BY DEF TypeInv, TypeOK
  <2>4. ~Filling(x)
    BY <1>1, <1>5 DEF Filling, Matching
  <2> HIDE DEF debtors
  <2>5. SumFunctionOnSet(fillQty, debtors) = fillQty[t]
    BY <2>2, <2>3, SumOne
  <2> QED
    BY <2>4, <2>5, <1>3
<1> QED
  BY <1>2, <1>3, <1>4, <1>5

\* The same of the next state.
LEMMA FlightKnownNext == Inv' => FlightInv'
BY FlightKnown, PTL

\* Nothing is filled and nothing traded at the start.
LEMMA LedgerInit == Init => LedgerInv
BY FS_EmptySet DEF Init, LedgerInv, Issued

\* The trades of an order are finitely many, of natural quantities.
LEMMA TradesOfFinite ==
  ASSUME TypeInv, LedgerInv, NEW x
  PROVE  /\ IsFiniteSet(TradesOf(x))
         /\ \A t \in TradesOf(x) : t.quantity \in Nat
<1>1. TradesOf(x) \subseteq trades
  BY DEF TradesOf
<1>2. \A t \in trades : t.quantity \in Nat
  BY DEF TypeInv, TypeOK, Trade
<1> QED
  BY <1>1, <1>2, FS_Subset DEF LedgerInv

\* A step that neither fills nor trades.
NoFills ==
  /\ \A x \in Orders : x \in Issued => orders'[x].filled = orders[x].filled
  /\ \A x \in Orders : Filling(x)' <=> Filling(x)
  /\ \A t, x \in Orders : Owes(t, x)' <=> Owes(t, x)
  /\ UNCHANGED <<fillQty, trades, tradeSeq>>

\* A step without a fill or a trade that leaves nothing outstanding behind.
LEMMA LedgerNoFills ==
  ASSUME FlightInv, FlightInv', NoFills, NEW x \in Issued
  PROVE  Total(TradesOf(x))' = Total(TradesOf(x)) /\ InFlight(x)' = InFlight(x)
<1>1. x \in Orders
  BY DEF Issued
<1>2. TradesOf(x)' = TradesOf(x)
  BY DEF NoFills, TradesOf
<1>3. InFlight(x)' = InFlight(x)
  <2>1. CASE Filling(x)
    BY <2>1, <1>1 DEF FlightInv, NoFills
  <2>2. CASE ~Filling(x) /\ \A t \in Orders : ~Owes(t, x)
    BY <2>2, <1>1 DEF FlightInv, NoFills
  <2>3. CASE \E t \in Orders : Owes(t, x)
    BY <2>3, <1>1 DEF FlightInv, NoFills
  <2> QED
    BY <2>1, <2>2, <2>3
<1> QED
  BY <1>2, <1>3

\* The same, for a step that fills for nobody before or after.
LEMMA LedgerQuiet ==
  ASSUME FlightInv, FlightInv', LedgerInv, NoFills, Issued' = Issued
  PROVE  LedgerInv'
<1>1. UNCHANGED <<trades, tradeSeq>>
  BY DEF NoFills
<1>2. \A x \in Issued : /\ orders'[x].filled = orders[x].filled
                        /\ Total(TradesOf(x))' = Total(TradesOf(x))
                        /\ InFlight(x)' = InFlight(x)
  BY LedgerNoFills DEF NoFills, Issued
<1> QED
  BY <1>1, <1>2 DEF LedgerInv

\* The first order of a request starts with no trade and no fill.
LEMMA LedgerCreateOrder ==
  ASSUME Inv, Inv', LedgerInv, NEW o \in Orders, CreateOrder(o)
  PROVE  LedgerInv'
<1>1. FlightInv /\ FlightInv'
  BY FlightKnown, FlightKnownNext
<1>2. /\ pc[o] = "idle"
      /\ pc'[o] = "created" /\ \A x \in Orders \ {o} : pc'[x] = pc[x]
      /\ \A x \in Orders \ {o} : orders'[x] = orders[x]
      /\ orders'[o].filled = 0
      /\ UNCHANGED <<counterOrder, fillQty, trades, tradeSeq>>
  BY DEF CreateOrder, request, NewOrder, Inv, TypeInv, TypeOK
<1>3. Issued' = Issued \cup {o} /\ o \notin Issued
  BY <1>2 DEF Issued
<1>4. NoFills
  BY <1>2, <1>3 DEF NoFills, Issued, Filling, Owes
<1>5. Total(TradesOf(o))' = 0
  <2>1. TradesOf(o)' = {}
    BY <1>2, <1>3 DEF LedgerInv, TradesOf
  <2> QED
    BY <2>1, TotalEmpty
<1>6. InFlight(o)' = 0
  <2>1. \A t \in Orders : ~Owes(t, o)'
    BY <1>2 DEF Owes, Inv, TypeInv, TypeOK
  <2> QED
    BY <2>1, <1>1, <1>2 DEF FlightInv, Filling
<1>7. \A x \in Issued : Total(TradesOf(x))' = Total(TradesOf(x))
                        /\ InFlight(x)' = InFlight(x)
  BY <1>1, <1>4, LedgerNoFills
<1>8. \A x \in Issued : orders'[x].filled = orders[x].filled
  BY <1>2, <1>3 DEF Issued
<1> QED
  BY <1>2, <1>3, <1>5, <1>6, <1>7, <1>8 DEF LedgerInv

\* The remaining steps of a request trade nothing.
LEMMA LedgerSaveOrder ==
  ASSUME Inv, Inv', LedgerInv, NEW o \in Orders, SaveOrder(o)
  PROVE  LedgerInv'
<1>1. pc[o] = "created" /\ pc' = [pc EXCEPT ![o] = "saved"]
      /\ UNCHANGED <<orders, counterOrder, fillQty, trades, tradeSeq>>
  BY DEF SaveOrder, request, output
<1>2. NoFills /\ Issued' = Issued
  BY <1>1 DEF NoFills, Filling, Owes, Issued, Inv, TypeInv, TypeOK
<1> QED
  BY <1>2, FlightKnown, FlightKnownNext, LedgerQuiet

LEMMA LedgerStartMatching ==
  ASSUME Inv, Inv', LedgerInv, NEW o \in Orders, StartMatching(o)
  PROVE  LedgerInv'
<1>1. pc[o] = "saved" /\ pc' = [pc EXCEPT ![o] = "matching"]
      /\ UNCHANGED <<orders, counterOrder, fillQty, trades, tradeSeq>>
  BY DEF StartMatching, output
<1>2. NoFills /\ Issued' = Issued
  BY <1>1 DEF NoFills, Filling, Owes, Issued, Inv, TypeInv, TypeOK
<1> QED
  BY <1>2, FlightKnown, FlightKnownNext, LedgerQuiet

LEMMA LedgerSkipCounter ==
  ASSUME Inv, Inv', LedgerInv, NEW o \in Orders, SkipCounter(o)
  PROVE  LedgerInv'
<1>1. UNCHANGED <<pc, orders, counterOrder, fillQty, trades, tradeSeq>>
  BY DEF SkipCounter, output
<1>2. NoFills /\ Issued' = Issued
  BY <1>1 DEF NoFills, Filling, Owes, Issued
<1> QED
  BY <1>2, FlightKnown, FlightKnownNext, LedgerQuiet

LEMMA LedgerFinishMatching ==
  ASSUME Inv, Inv', LedgerInv, NEW o \in Orders, FinishMatching(o)
  PROVE  LedgerInv'
<1>1. pc[o] = "matching" /\ pc' = [pc EXCEPT ![o] = "done"]
      /\ UNCHANGED <<orders, counterOrder, fillQty, trades, tradeSeq>>
  BY DEF FinishMatching, request
<1>2. NoFills /\ Issued' = Issued
  BY <1>1 DEF NoFills, Filling, Owes, Issued, Inv, TypeInv, TypeOK
<1> QED
  BY <1>2, FlightKnown, FlightKnownNext, LedgerQuiet

\* The incoming order is filled, and its trade outstanding from here on.
LEMMA LedgerFillIncoming ==
  ASSUME Inv, Inv', LedgerInv, NEW o \in Orders, FillIncoming(o)
  PROVE  LedgerInv'
<1>1. FlightInv /\ FlightInv'
  BY FlightKnown, FlightKnownNext
<1>2. PICK qty \in Nat :
        /\ fillQty' = [fillQty EXCEPT ![o] = qty]
        /\ orders' = [orders EXCEPT ![o] = Fill(@, qty)]
        /\ qty <= orders[o].remaining
  <2>1. PICK c \in Earliest(Pending(o)) :
          LET qty == FillQty(orders[o], orders[c])
          IN  /\ fillQty' = [fillQty EXCEPT ![o] = qty]
              /\ orders' = [orders EXCEPT ![o] = Fill(@, qty)]
    BY DEF FillIncoming
  <2>2. c \in saved
    BY DEF Earliest, Pending, Inv, TypeInv, TypeOK
  <2>3. orders[o] \in Order /\ orders[c] \in Order
    BY <2>2 DEF FillIncoming, Inv, TypeInv, TypeOK
  <2>4. /\ FillQty(orders[o], orders[c]) \in Nat
        /\ FillQty(orders[o], orders[c]) <= orders[o].remaining
    BY <2>3 DEF FillQty, Order
  <2> QED
    BY <2>1, <2>4
<1>3. /\ pc[o] = "matching" /\ pc'[o] = "filling"
      /\ \A x \in Orders \ {o} : pc'[x] = pc[x]
      /\ \A x \in Orders \ {o} : counterOrder'[x] = counterOrder[x]
      /\ UNCHANGED <<trades, tradeSeq>>
  BY DEF FillIncoming, output, Inv, TypeInv, TypeOK
<1>4. Issued' = Issued
  BY <1>3 DEF Issued
<1>5. /\ orders[o] \in Order
      /\ orders'[o].filled = orders[o].filled + qty
      /\ \A x \in Orders \ {o} : orders'[x] = orders[x]
      /\ fillQty'[o] = qty
      /\ \A x \in Orders \ {o} : fillQty'[x] = fillQty[x]
  BY <1>2, <1>3, FillEffect DEF Inv, TypeInv, TypeOK
<1>6. \A x \in Orders : TradesOf(x)' = TradesOf(x)
  BY <1>3 DEF TradesOf
<1>7. InFlight(o) = 0 /\ InFlight(o)' = qty
  <2>1. \A t \in Orders : Owes(t, o) => FALSE
    <3> SUFFICES ASSUME NEW t \in Orders, Owes(t, o) PROVE FALSE
      OBVIOUS
    <3>1. o \in oppositeOrders[t] /\ Matching(t) /\ Matching(o)
      BY <1>3 DEF Owes, Matching, Inv, TypeInv
    <3>2. orders[o].stock = orders[t].stock
      BY <3>1 DEF Inv, ListInv
    <3>3. t = o
      BY <3>1, <3>2, OneMatcher DEF Inv
    <3> QED
      BY <3>3, <1>3 DEF Owes
  <2> QED
    BY <2>1, <1>1, <1>3, <1>5 DEF FlightInv, Filling
<1>8. \A x \in Orders \ {o} : InFlight(x)' = InFlight(x)
  <2> SUFFICES ASSUME NEW x \in Orders \ {o} PROVE InFlight(x)' = InFlight(x)
    OBVIOUS
  <2>1. Filling(x)' <=> Filling(x)
    BY <1>3 DEF Filling
  <2>2. \A t \in Orders : Owes(t, x)' <=> Owes(t, x)
    BY <1>3 DEF Owes
  <2>3. \A t \in Orders : Owes(t, x) => fillQty'[t] = fillQty[t]
    BY <1>3, <1>5 DEF Owes
  <2> QED
    BY <2>1, <2>2, <2>3, <1>1, <1>5 DEF FlightInv
<1>9. \A x \in Issued : orders'[x].filled = Total(TradesOf(x))' + InFlight(x)'
  <2> SUFFICES ASSUME NEW x \in Issued
               PROVE  orders'[x].filled = Total(TradesOf(x))' + InFlight(x)'
    OBVIOUS
  <2>1. Total(TradesOf(x))' = Total(TradesOf(x)) /\ Total(TradesOf(x)) \in Nat
    BY <1>6, TradesOfFinite, TotalNat DEF Issued, Inv
  <2>2. x \in Orders /\ orders[x].filled = Total(TradesOf(x)) + InFlight(x)
    BY DEF LedgerInv, Issued
  <2> QED
    BY <2>1, <2>2, <1>5, <1>7, <1>8
<1> QED
  BY <1>3, <1>4, <1>9 DEF LedgerInv

\* The resting order is filled by as much; its side of the trade is
\* outstanding too.
LEMMA LedgerFillCounter ==
  ASSUME Inv, Inv', LedgerInv, NEW o \in Orders, FillCounter(o)
  PROVE  LedgerInv'
<1>1. FlightInv /\ FlightInv'
  BY FlightKnown, FlightKnownNext
<1>2. PICK c, qty : c = counterOrder[o] /\ qty = fillQty[o]
  OBVIOUS
<1>3. /\ pc[o] = "filling" /\ pc'[o] = "filled"
      /\ \A x \in Orders \ {o} : pc'[x] = pc[x]
      /\ orders' = [orders EXCEPT ![c] = Fill(@, qty)]
      /\ UNCHANGED <<counterOrder, fillQty, trades, tradeSeq>>
  BY <1>2 DEF FillCounter, request, output, Inv, TypeInv, TypeOK
<1>4. Issued' = Issued
  BY <1>3 DEF Issued
<1>5. /\ c \in Orders /\ orders[c] \in Order /\ c \in oppositeOrders[o]
      /\ qty \in Nat /\ qty <= orders[c].remaining
  BY <1>2, <1>3 DEF Inv, TypeInv, TypeOK, FillInv
<1>6. /\ orders'[c].filled = orders[c].filled + qty
      /\ \A x \in Orders \ {c} : orders'[x] = orders[x]
  BY <1>3, <1>5, FillEffect DEF Inv, TypeInv, TypeOK
<1>7. \A x \in Orders : TradesOf(x)' = TradesOf(x)
  BY <1>3 DEF TradesOf
<1>8. c # o /\ orders[c].stock = orders[o].stock /\ Matching(o)
  BY <1>3, <1>5 DEF Inv, ListInv, Matching
<1>9. InFlight(c) = 0
  <2>1. ~Matching(c)
    BY <1>5, <1>8, OneMatcher DEF Inv
  <2>2. \A t \in Orders : Owes(t, c) => FALSE
    <3> SUFFICES ASSUME NEW t \in Orders, Owes(t, c) PROVE FALSE
      OBVIOUS
    <3>1. c \in oppositeOrders[t] /\ Matching(t)
      BY <1>2 DEF Owes, Matching, Inv, TypeInv
    <3>2. orders[c].stock = orders[t].stock
      BY <3>1 DEF Inv, ListInv
    <3>3. t = o
      BY <3>1, <3>2, <1>8, OneMatcher DEF Inv
    <3> QED
      BY <3>3, <1>3 DEF Owes
  <2> QED
    BY <2>1, <2>2, <1>1, <1>5 DEF FlightInv, Filling, Matching
<1>10. InFlight(c)' = qty
  BY <1>2, <1>1, <1>3, <1>5 DEF FlightInv, Owes
<1>11. \A x \in Orders \ {c} : InFlight(x)' = InFlight(x)
  <2> SUFFICES ASSUME NEW x \in Orders \ {c} PROVE InFlight(x)' = InFlight(x)
    OBVIOUS
  <2>1. Filling(x)' <=> Filling(x)
    BY <1>3 DEF Filling
  <2>2. \A t \in Orders : Owes(t, x)' <=> Owes(t, x)
    BY <1>2, <1>3 DEF Owes
  <2> QED
    BY <2>1, <2>2, <1>1, <1>3 DEF FlightInv
<1>12. \A x \in Issued : orders'[x].filled = Total(TradesOf(x))' + InFlight(x)'
  <2> SUFFICES ASSUME NEW x \in Issued
               PROVE  orders'[x].filled = Total(TradesOf(x))' + InFlight(x)'
    OBVIOUS
  <2>1. Total(TradesOf(x))' = Total(TradesOf(x)) /\ Total(TradesOf(x)) \in Nat
    BY <1>7, TradesOfFinite, TotalNat DEF Issued, Inv
  <2>2. x \in Orders /\ orders[x].filled = Total(TradesOf(x)) + InFlight(x)
    BY <1>2 DEF LedgerInv, Issued
  <2> QED
    BY <2>1, <2>2, <1>5, <1>6, <1>9, <1>10, <1>11
<1> QED
  BY <1>3, <1>4, <1>12 DEF LedgerInv

\* The trade settles both sides: what was outstanding is recorded.
\* Where a recorded trade leaves its request.
LEMMA RecordTradeFrame ==
  ASSUME TypeInv, NEW o \in Orders, RecordTrade(o)
  PROVE  /\ pc[o] = "filled" /\ pc'[o] = "matching"
         /\ \A x \in Orders \ {o} : pc'[x] = pc[x]
         /\ traded'[o] = TRUE /\ \A x \in Orders \ {o} : traded'[x] = traded[x]
         /\ tradeSeq' = tradeSeq + 1 /\ tradeSeq \in Nat
         /\ UNCHANGED <<orders, saved, stockMu, counterOrder, fillQty>>
<1>1. /\ pc[o] = "filled" /\ pc' = [pc EXCEPT ![o] = "matching"]
      /\ traded' = [traded EXCEPT ![o] = TRUE]
      /\ tradeSeq' = tradeSeq + 1
      /\ UNCHANGED <<orders, saved, stockMu, counterOrder, fillQty>>
  BY DEF RecordTrade
<1>2. DOMAIN pc = Orders /\ DOMAIN traded = Orders /\ tradeSeq \in Nat
  BY DEF TypeInv, TypeOK
<1> QED
  BY <1>1, <1>2

LEMMA LedgerRecordTrade ==
  ASSUME Inv, Inv', LedgerInv, NEW o \in Orders, RecordTrade(o)
  PROVE  LedgerInv'
<1>1. FlightInv /\ FlightInv'
  BY FlightKnown, FlightKnownNext
<1>2. PICK c, qty : c = counterOrder[o] /\ qty = fillQty[o]
  OBVIOUS
<1>3. PICK trade :
        /\ trade.id = tradeSeq + 1
        /\ {trade.buy, trade.sell} = {o, c}
        /\ trade.quantity = qty
        /\ trades' = trades \cup {trade}
  BY <1>2 DEF RecordTrade
<1>4. /\ pc[o] = "filled" /\ pc'[o] = "matching"
      /\ \A x \in Orders \ {o} : pc'[x] = pc[x]
      /\ tradeSeq' = tradeSeq + 1 /\ tradeSeq \in Nat
      /\ UNCHANGED <<orders, counterOrder, fillQty>>
  BY RecordTradeFrame DEF Inv
<1>5. Issued' = Issued /\ o \in Issued
  BY <1>4 DEF Issued
<1>6. c \in Issued /\ c \in oppositeOrders[o] /\ qty \in Nat
  BY <1>2, <1>4 DEF Inv, TypeInv, TypeOK, Issued
<1>7. \A t \in trades : t.id \in Nat /\ t.id <= tradeSeq
  BY <1>2 DEF LedgerInv, Inv, TypeInv, TypeOK, Trade
<1>8. trade \notin trades
  BY <1>3, <1>4, <1>7
<1>9. c # o /\ orders[c].stock = orders[o].stock /\ Matching(o)
  BY <1>4, <1>6 DEF Inv, ListInv, Matching, Issued
<1>10. ~Filling(c) /\ InFlight(o) = qty /\ InFlight(c) = qty
  <2>1. ~Matching(c)
    BY <1>6, <1>9, OneMatcher DEF Inv, Issued
  <2> QED
    BY <1>2, <2>1, <1>1, <1>4, <1>5, <1>6
    DEF FlightInv, Filling, Matching, Owes, Issued
<1>11. InFlight(o)' = 0 /\ InFlight(c)' = 0
  <2>1. \A t \in Orders : ~Owes(t, o)'
    <3>1. \A t \in Orders : ~Owes(t, o)
      BY <1>1, <1>4 DEF FlightInv, Filling
    <3> QED
      BY <3>1, <1>4 DEF Owes
  <2>2. \A t \in Orders : Owes(t, c)' => FALSE
    <3> SUFFICES ASSUME NEW t \in Orders, Owes(t, c)' PROVE FALSE
      OBVIOUS
    <3>1. t # o /\ Owes(t, c)
      BY <1>4 DEF Owes
    <3>2. c \in oppositeOrders[t] /\ Matching(t)
      BY <3>1 DEF Owes, Matching, Inv, TypeInv
    <3>3. orders[c].stock = orders[t].stock
      BY <3>2 DEF Inv, ListInv
    <3> QED
      BY <3>1, <3>2, <3>3, <1>9, OneMatcher DEF Inv
  <2>3. ~Filling(o)' /\ ~Filling(c)'
    BY <1>4, <1>6, <1>9, <1>10 DEF Filling, Issued
  <2> QED
    BY <2>1, <2>2, <2>3, <1>1, <1>6 DEF FlightInv, Issued
<1>12. \A x \in Orders \ {o, c} : InFlight(x)' = InFlight(x)
  <2> SUFFICES ASSUME NEW x \in Orders \ {o, c} PROVE InFlight(x)' = InFlight(x)
    OBVIOUS
  <2>1. Filling(x)' <=> Filling(x)
    BY <1>4 DEF Filling
  <2>2. \A t \in Orders : Owes(t, x)' <=> Owes(t, x)
    BY <1>2, <1>4 DEF Owes
  <2> QED
    BY <2>1, <2>2, <1>1, <1>4 DEF FlightInv
<1>13. \A x \in {o, c} : Total(TradesOf(x))' = Total(TradesOf(x)) + qty
  <2> SUFFICES ASSUME NEW x \in {o, c}
               PROVE  Total(TradesOf(x))' = Total(TradesOf(x)) + qty
    OBVIOUS
  <2>1. TradesOf(x)' = TradesOf(x) \cup {trade} /\ trade \notin TradesOf(x)
    BY <1>3, <1>8 DEF TradesOf
  <2>2. /\ IsFiniteSet(TradesOf(x))
        /\ \A t \in TradesOf(x) \cup {trade} : t.quantity \in Nat
    BY <1>3, <1>6, TradesOfFinite DEF Inv
  <2>3. Total(TradesOf(x) \cup {trade}) = Total(TradesOf(x)) + trade.quantity
    BY <2>1, <2>2, TotalAdd
  <2> QED
    BY <2>1, <2>3, <1>3
<1>14. \A x \in Orders \ {o, c} : TradesOf(x)' = TradesOf(x)
  BY <1>3 DEF TradesOf
<1>15. \A x \in Issued : orders'[x].filled = Total(TradesOf(x))' + InFlight(x)'
  <2> SUFFICES ASSUME NEW x \in Issued
               PROVE  orders[x].filled = Total(TradesOf(x))' + InFlight(x)'
    BY <1>4
  <2>1. /\ orders[x].filled = Total(TradesOf(x)) + InFlight(x)
        /\ Total(TradesOf(x)) \in Nat
    BY TradesOfFinite, TotalNat DEF LedgerInv, Inv
  <2>2. CASE x \in {o, c}
    <3>1. InFlight(x) = qty /\ InFlight(x)' = 0
      BY <2>2, <1>10, <1>11
    <3>2. Total(TradesOf(x))' = Total(TradesOf(x)) + qty
      BY <2>2, <1>13
    <3> QED
      BY <2>1, <3>1, <3>2, <1>6
  <2>3. CASE x \notin {o, c}
    <3>1. x \in Orders \ {o, c}
      BY <2>3 DEF Issued
    <3>2. InFlight(x)' = InFlight(x) /\ Total(TradesOf(x))' = Total(TradesOf(x))
      BY <3>1, <1>12, <1>14
    <3> QED
      BY <2>1, <3>2
  <2> QED
    BY <2>2, <2>3
<1>16. IsFiniteSet(trades')
  BY <1>3, FS_AddElement DEF LedgerInv
<1>17. \A t \in trades' : t.id <= tradeSeq' /\ t.buy \in Issued /\ t.sell \in Issued
  <2> SUFFICES ASSUME NEW t \in trades'
               PROVE  t.id <= tradeSeq' /\ t.buy \in Issued /\ t.sell \in Issued
    OBVIOUS
  <2>1. CASE t = trade
    BY <2>1, <1>3, <1>4, <1>5, <1>6
  <2>2. CASE t \in trades
    BY <2>2, <1>4, <1>7 DEF LedgerInv
  <2> QED
    BY <2>1, <2>2, <1>3
<1> QED
  BY <1>5, <1>15, <1>16, <1>17 DEF LedgerInv

\* Every step keeps the ledger.
LEMMA LedgerStep == Inv /\ Inv' /\ LedgerInv /\ [Next]_vars => LedgerInv'
<1> SUFFICES ASSUME Inv, Inv', LedgerInv, [Next]_vars
             PROVE  LedgerInv'
  OBVIOUS
<1>1. ASSUME NEW o \in Orders, CreateOrder(o) \/ Process(o)
      PROVE  LedgerInv'
  BY <1>1, LedgerCreateOrder, LedgerSaveOrder, LedgerStartMatching,
     LedgerSkipCounter, LedgerFillIncoming, LedgerFillCounter,
     LedgerRecordTrade, LedgerFinishMatching
  DEF Process
<1>2. CASE UNCHANGED vars
  <2>1. NoFills /\ Issued' = Issued
    BY <1>2 DEF vars, NoFills, Filling, Owes, Issued
  <2> QED
    BY <2>1, FlightKnown, FlightKnownNext, LedgerQuiet
<1> QED
  BY <1>1, <1>2 DEF Next, AllAnswered

\* At all times the filled quantity of an order is what its saved trades add
\* up to and what a request in the middle of a trade still owes it.
THEOREM LedgerBalances == Spec => []LedgerInv
BY LedgerInit, LedgerStep, Invariance, PTL DEF Spec

\* Once nobody trades in its stock, an order is filled by exactly the trades
\* that executeTrade saved for it: no fill is lost and none is booked twice.
THEOREM FillsConserved == Spec => []Conservation
<1>1. Inv /\ LedgerInv => Conservation
  BY DEF Conservation, Inv, QuantityInv, LedgerInv, Total
<1> QED
  BY <1>1, LedgerBalances, Invariance, PTL

-----------------------------------------------------------------------------
(* What subscribers are left with.                                         *)

\* x's quantities are ahead of what has been emitted for it.
Trading(x) ==
  Filling(x) \/ \E t \in Orders : Filling(t) /\ counterOrder[t] = x

\* i is the last of the events in S.
LastAt(i, S) == i \in S /\ \A j \in S : j <= i

SequencesInv == \A s \in Stocks : \E E : events[s] \in Seq(E)

\* Outside a trade the last update of an order carries it as it is.
UpdateInv ==
  \A x \in Issued : orders[x].filled > 0 /\ ~Trading(x) =>
    \E i : /\ LastAt(i, UpdatesOf(x))
           /\ events[orders[x].stock][i].data = orders[x]

\* The mutex of a stock is held from Lock to Unlock only.
HolderInv ==
  \A s \in Stocks : stockMu[s] # Nil =>
    Matching(stockMu[s]) /\ orders[stockMu[s]].stock = s

\* Nothing of stock s has been filled since its last book was emitted.
Unfilled(s) ==
  \/ stockMu[s] = Nil
  \/ pc[stockMu[s]] = "matching" /\ ~traded[stockMu[s]]

ShowsNoMore(s, shown) ==
  /\ \A p \in DOMAIN shown.bids : /\ shown.bids[p].quantity \in Nat
                                  /\ shown.bids[p].quantity <= Resting(s, "BUY", p)
  /\ \A p \in DOMAIN shown.asks : /\ shown.asks[p].quantity \in Nat
                                  /\ shown.asks[p].quantity <= Resting(s, "SELL", p)

DepthInv ==
  \A s \in Stocks : EmittedBooks(s) # {} /\ Unfilled(s) =>
    \E i, book : /\ LastAt(i, EmittedBooks(s))
                 /\ book = events[s][i].data
                 /\ ShowsNoMore(s, book)

EventInv ==
  SequencesInv /\ IsFiniteSet(saved) /\ HolderInv /\ UpdateInv /\ DepthInv

\* Nothing is emitted at the start.
LEMMA EventInit == Init => EventInv
<1> SUFFICES ASSUME Init PROVE EventInv
  OBVIOUS
<1>1. SequencesInv
  <2>1. \A s \in Stocks : events[s] = <<>>
    BY DEF Init
  <2>2. <<>> \in Seq({})
    OBVIOUS
  <2>3. \A s \in Stocks : events[s] \in Seq({})
    BY <2>1, <2>2
  <2> QED
    BY <2>3 DEF SequencesInv
<1>2. IsFiniteSet(saved)
  BY FS_EmptySet DEF Init
<1>3. HolderInv /\ UpdateInv
  BY DEF Init, HolderInv, UpdateInv, Issued
<1>4. DepthInv
  BY DEF Init, DepthInv, EmittedBooks
<1> QED
  BY <1>1, <1>2, <1>3, <1>4 DEF EventInv

\* The last element is the one CHOOSE finds.
LEMMA LastIsLast ==
  ASSUME NEW S \in SUBSET Nat, NEW i, LastAt(i, S)
  PROVE  (CHOOSE k \in S : \A j \in S : j <= k) = i
<1> DEFINE k == CHOOSE k \in S : \A j \in S : j <= k
<1>1. k \in S /\ \A j \in S : j <= k
  BY DEF LastAt
<1> HIDE DEF k
<1>2. k = i
  BY <1>1 DEF LastAt
<1> QED
  BY <1>2 DEF k

\* An event is found at an index of its sequence.
LEMMA EventIndices ==
  ASSUME SequencesInv, NEW s \in Stocks
  PROVE  DOMAIN events[s] \subseteq Nat
<1>1. PICK E : events[s] \in Seq(E)
  BY DEF SequencesInv
<1> QED
  BY <1>1

\* Appending to a sequence.
LEMMA Appended ==
  ASSUME NEW E, NEW es \in Seq(E), NEW F, NEW fs \in Seq(F),
         NEW n, n = Len(es)
  PROVE  /\ es \o fs \in Seq(E \cup F)
         /\ n \in Nat /\ DOMAIN es = 1 .. n
         /\ DOMAIN (es \o fs) = 1 .. (n + Len(fs))
         /\ \A i \in 1 .. n : (es \o fs)[i] = es[i]
         /\ \A i \in 1 .. Len(fs) : (es \o fs)[n + i] = fs[i]
<1>1. es \in Seq(E \cup F) /\ fs \in Seq(E \cup F) /\ Len(fs) \in Nat
  OBVIOUS
<1>2. \A i \in 1 .. Len(fs) : (es \o fs)[n + i] = fs[i]
  <2> SUFFICES ASSUME NEW i \in 1 .. Len(fs) PROVE (es \o fs)[n + i] = fs[i]
    OBVIOUS
  <2>1. n + i \in (Len(es) + 1) .. (Len(es) + Len(fs)) /\ (n + i) - Len(es) = i
    BY <1>1
  <2> QED
    BY <1>1, <2>1
<1> QED
  BY <1>1, <1>2

-----------------------------------------------------------------------------
\* No event, and no fill outside a trade.
LEMMA UpdatesQuiet ==
  ASSUME UpdateInv, UNCHANGED events,
         \A x \in Issued' : orders'[x].filled > 0 /\ ~Trading(x)' =>
           x \in Issued /\ ~Trading(x) /\ orders'[x] = orders[x]
  PROVE  UpdateInv'
<1> SUFFICES ASSUME NEW x \in Issued', orders'[x].filled > 0, ~Trading(x)'
             PROVE  \E i : /\ LastAt(i, UpdatesOf(x)')
                           /\ events[orders'[x].stock][i].data = orders'[x]
  BY DEF UpdateInv
<1>1. x \in Issued /\ ~Trading(x) /\ orders'[x] = orders[x]
  OBVIOUS
<1>2. UpdatesOf(x)' = UpdatesOf(x)
  BY <1>1 DEF UpdatesOf
<1> QED
  BY <1>1, <1>2 DEF UpdateInv

\* Orders of a stock are left alone, and others may join them: no less rests
\* at any price.
LEMMA RestingGrows ==
  ASSUME TypeInv, TypeInv', IsFiniteSet(saved'), saved \subseteq saved',
         NEW s \in Stocks,
         \A x \in saved : orders'[x].stock = orders[x].stock,
         \A x \in saved : orders[x].stock = s => orders'[x] = orders[x],
         NEW side, NEW price
  PROVE  /\ Resting(s, side, price) \in Nat
         /\ Resting(s, side, price)' \in Nat
         /\ Resting(s, side, price) <= Resting(s, side, price)'
<1> DEFINE now  == {o \in saved : /\ orders[o].stock = s
                                  /\ orders[o].side = side
                                  /\ orders[o].price = price}
           next == {o \in saved' : /\ orders'[o].stock = s
                                   /\ orders'[o].side = side
                                   /\ orders'[o].price = price}
           f == [o \in now |-> orders[o].remaining]
           g == [o \in next |-> orders'[o].remaining]
<1>1. IsFiniteSet(next) /\ now \subseteq next
  <2>1. next \subseteq saved'
    OBVIOUS
  <2>2. now \subseteq next
    OBVIOUS
  <2> HIDE DEF next, now
  <2> QED
    BY <2>1, <2>2, FS_Subset
<1>2. IsFiniteSet(now)
  BY <1>1, FS_Subset
<1>3. \A o \in next : g[o] \in Nat
  BY DEF TypeInv, TypeOK, Order
<1>4. \A o \in now : f[o] = g[o]
  BY <1>1
<1>5. Resting(s, side, price) = SumFunctionOnSet(f, now)
  BY DEF Resting, SumFunction
<1>6. Resting(s, side, price)' = SumFunctionOnSet(g, next)
  BY DEF Resting, SumFunction
<1> HIDE DEF now, next, f, g
<1>7. SumFunctionOnSet(f, now) = SumFunctionOnSet(g, now)
  BY <1>2, <1>4, SumSame
<1>8. /\ SumFunctionOnSet(g, now) \in Nat /\ SumFunctionOnSet(g, next) \in Nat
      /\ SumFunctionOnSet(g, now) <= SumFunctionOnSet(g, next)
  BY <1>1, <1>2, <1>3, SumNat, SumSubset
<1> QED
  BY <1>5, <1>6, <1>7, <1>8

\* No book is emitted, and every stock that is unfilled now was before.
LEMMA DepthQuiet ==
  ASSUME TypeInv, TypeInv', DepthInv, IsFiniteSet(saved'), saved \subseteq saved',
         \A x \in saved : orders'[x].stock = orders[x].stock,
         \A s \in Stocks : /\ EmittedBooks(s)' = EmittedBooks(s)
                           /\ \A i \in EmittedBooks(s) :
                                events'[s][i] = events[s][i],
         \A s \in Stocks : Unfilled(s)' =>
           /\ Unfilled(s)
           /\ \A x \in saved : orders[x].stock = s => orders'[x] = orders[x]
  PROVE  DepthInv'
<1> SUFFICES ASSUME NEW s \in Stocks, EmittedBooks(s)' # {}, Unfilled(s)'
             PROVE  \E i, book : /\ LastAt(i, EmittedBooks(s)')
                                 /\ book = events'[s][i].data
                                 /\ ShowsNoMore(s, book)'
  BY DEF DepthInv
<1>1. PICK i, shown : /\ LastAt(i, EmittedBooks(s))
                      /\ shown = events[s][i].data
                      /\ ShowsNoMore(s, shown)
  BY DEF DepthInv
<1>2. events'[s][i].data = shown
  BY <1>1 DEF LastAt
<1>3. \A side, p : /\ Resting(s, side, p) \in Nat
                   /\ Resting(s, side, p)' \in Nat
                   /\ Resting(s, side, p) <= Resting(s, side, p)'
  BY RestingGrows
<1>4. ShowsNoMore(s, shown)'
  BY <1>1, <1>3 DEF ShowsNoMore
<1> QED
  BY <1>1, <1>2, <1>4

\* A step that leaves the mutexes alone.
LEMMA HolderQuiet ==
  ASSUME TypeInv, HolderInv, UNCHANGED stockMu,
         \A x \in Orders : Matching(x) =>
           Matching(x)' /\ orders'[x].stock = orders[x].stock
  PROVE  HolderInv'
BY DEF HolderInv, TypeInv, TypeOK

\* Whoever holds the mutex of a stock does so for its own order.
LEMMA HolderMatches ==
  ASSUME TypeInv, MutexInv, HolderInv, NEW o \in Orders, Matching(o),
         NEW s \in Stocks
  PROVE  stockMu[s] = o <=> orders[o].stock = s
BY NilIsNoOrder DEF TypeInv, TypeOK, MutexInv, HolderInv

\* A step that emits nothing.
LEMMA EventsQuiet ==
  ASSUME TypeInv, TypeInv', EventInv, UNCHANGED events,
         saved \subseteq saved', IsFiniteSet(saved'), HolderInv',
         \A x \in Issued' : orders'[x].filled > 0 /\ ~Trading(x)' =>
           x \in Issued /\ ~Trading(x) /\ orders'[x] = orders[x],
         \A x \in saved : orders'[x].stock = orders[x].stock,
         \A s \in Stocks : Unfilled(s)' =>
           /\ Unfilled(s)
           /\ \A x \in saved : orders[x].stock = s => orders'[x] = orders[x]
  PROVE  EventInv'
<1>1. SequencesInv'
  BY DEF EventInv, SequencesInv
<1>2. UpdateInv'
  BY UpdatesQuiet DEF EventInv
<1>3. \A s \in Stocks : EmittedBooks(s)' = EmittedBooks(s)
  BY DEF EmittedBooks
<1>4. DepthInv'
  BY <1>3, DepthQuiet DEF EventInv
<1> QED
  BY <1>1, <1>2, <1>4 DEF EventInv

\* A new order is unfilled and not yet saved.
LEMMA EventCreateOrder ==
  ASSUME Inv, Inv', EventInv, NEW o \in Orders, CreateOrder(o)
  PROVE  EventInv'
<1> USE DEF Inv
<1>1. /\ pc[o] = "idle"
      /\ pc'[o] = "created" /\ \A x \in Orders \ {o} : pc'[x] = pc[x]
      /\ \A x \in Orders \ {o} : orders'[x] = orders[x]
      /\ orders'[o].filled = 0
      /\ UNCHANGED <<saved, stockMu, traded, counterOrder, events>>
  BY DEF CreateOrder, request, NewOrder, TypeInv, TypeOK
<1>2. o \notin saved /\ saved \subseteq Orders
  BY <1>1 DEF TypeInv, TypeOK
<1>3. HolderInv'
  <2>1. \A x \in Orders : Matching(x) =>
          Matching(x)' /\ orders'[x].stock = orders[x].stock
    BY <1>1 DEF Matching
  <2> QED
    BY <2>1, <1>1, HolderQuiet DEF EventInv
<1>4. \A x \in Orders : Trading(x) => Trading(x)'
  BY <1>1 DEF Trading, Filling
<1>5. \A x \in Issued' : x = o \/ x \in Issued
  BY <1>1 DEF Issued
<1>6. \A x \in Issued' : orders'[x].filled > 0 /\ ~Trading(x)' =>
        x \in Issued /\ ~Trading(x) /\ orders'[x] = orders[x]
  BY <1>1, <1>4, <1>5 DEF Issued
<1>7. \A s \in Stocks : Unfilled(s)' => Unfilled(s)
  BY <1>1 DEF Unfilled, TypeInv, TypeOK
<1> QED
  BY <1>1, <1>2, <1>3, <1>6, <1>7, EventsQuiet DEF EventInv

\* Saving an order only adds to what rests.
LEMMA EventSaveOrder ==
  ASSUME Inv, Inv', EventInv, NEW o \in Orders, SaveOrder(o)
  PROVE  EventInv'
<1> USE DEF Inv
<1>1. /\ pc[o] = "created"
      /\ pc'[o] = "saved" /\ \A x \in Orders \ {o} : pc'[x] = pc[x]
      /\ saved' = saved \cup {o}
      /\ UNCHANGED <<orders, stockMu, traded, counterOrder, events>>
  BY DEF SaveOrder, request, output, TypeInv, TypeOK
<1>2. IsFiniteSet(saved')
  BY <1>1, FS_AddElement DEF EventInv
<1>3. HolderInv'
  <2>1. \A x \in Orders : Matching(x) => Matching(x)'
    BY <1>1 DEF Matching
  <2> QED
    BY <2>1, <1>1, HolderQuiet DEF EventInv
<1>4. \A x \in Orders : Trading(x) => Trading(x)'
  BY <1>1 DEF Trading, Filling
<1>5. Issued' = Issued
  BY <1>1 DEF Issued
<1>6. \A s \in Stocks : Unfilled(s)' => Unfilled(s)
  BY <1>1 DEF Unfilled, TypeInv, TypeOK
<1> QED
  BY <1>1, <1>2, <1>3, <1>4, <1>5, <1>6, EventsQuiet DEF Issued

\* Whoever takes the mutex has filled nothing yet.
LEMMA EventStartMatching ==
  ASSUME Inv, Inv', EventInv, NEW o \in Orders, StartMatching(o)
  PROVE  EventInv'
<1> USE DEF Inv
<1>1. /\ pc[o] = "saved" /\ stockMu[orders[o].stock] = Nil
      /\ pc'[o] = "matching" /\ \A x \in Orders \ {o} : pc'[x] = pc[x]
      /\ stockMu' = [stockMu EXCEPT ![orders[o].stock] = o]
      /\ UNCHANGED <<saved, orders, traded, counterOrder, events>>
  BY DEF StartMatching, MutexFree, output, TypeInv, TypeOK
<1>2. IsFiniteSet(saved')
  BY <1>1 DEF EventInv
<1>3. HolderInv /\ ~Matching(o)
  BY <1>1 DEF EventInv, Matching
<1>4. HolderInv'
  <2> SUFFICES ASSUME NEW s \in Stocks, NEW h, h = stockMu'[s], h # Nil
               PROVE  Matching(h)' /\ orders[h].stock = s
    BY <1>1 DEF HolderInv
  <2>1. CASE s = orders[o].stock
    BY <2>1, <1>1 DEF Matching, TypeInv, TypeOK
  <2>2. CASE s # orders[o].stock
    <3>1. h = stockMu[s] /\ h \in Orders
      BY <2>2, <1>1 DEF TypeInv, TypeOK
    <3>2. Matching(h) /\ orders[h].stock = s
      BY <3>1, <1>3 DEF HolderInv
    <3> QED
      BY <3>1, <3>2, <1>1 DEF Matching
  <2> QED
    BY <2>1, <2>2
<1>5. \A x \in Orders : Trading(x) => Trading(x)'
  BY <1>1 DEF Trading, Filling
<1>6. Issued' = Issued
  BY <1>1 DEF Issued
<1>7. ASSUME NEW s \in Stocks, Unfilled(s)'
      PROVE  Unfilled(s)
  <2>1. CASE s = orders[o].stock
    BY <2>1, <1>1 DEF Unfilled
  <2>2. CASE s # orders[o].stock
    <3>1. stockMu'[s] = stockMu[s] /\ stockMu[s] \in Orders \cup {Nil}
      BY <2>2, <1>1 DEF TypeInv, TypeOK
    <3>2. stockMu[s] # o \/ stockMu[s] = Nil
      BY <1>3 DEF HolderInv
    <3> QED
      BY <3>1, <3>2, <1>1, <1>7 DEF Unfilled
  <2> QED
    BY <2>1, <2>2
<1> QED
  BY <1>1, <1>2, <1>4, <1>5, <1>6, <1>7, EventsQuiet DEF Issued

\* A counter order that is passed over is left as it was.
LEMMA EventSkipCounter ==
  ASSUME Inv, Inv', EventInv, NEW o \in Orders, SkipCounter(o)
  PROVE  EventInv'
<1> USE DEF Inv
<1>1. UNCHANGED <<pc, saved, orders, stockMu, traded, counterOrder, events>>
  BY DEF SkipCounter, output
<1>2. HolderInv' /\ IsFiniteSet(saved')
  BY <1>1 DEF EventInv, HolderInv, Matching
<1>3. \A x \in Orders : Trading(x)' <=> Trading(x)
  BY <1>1 DEF Trading, Filling
<1>4. Issued' = Issued
  BY <1>1 DEF Issued
<1>5. \A s \in Stocks : Unfilled(s)' <=> Unfilled(s)
  BY <1>1 DEF Unfilled
<1> QED
  BY <1>1, <1>2, <1>3, <1>4, <1>5, EventsQuiet DEF Issued

\* A fill of a, by request o which holds the mutex of a's stock.
LEMMA EventFill ==
  ASSUME Inv, Inv', EventInv, NEW o \in Orders, NEW a \in Orders,
         pc[o] \in {"matching", "filling"}, pc'[o] \in {"filling", "filled"},
         \A x \in Orders \ {o} : pc'[x] = pc[x],
         orders[a].stock = orders[o].stock,
         \A x \in Orders \ {a} : orders'[x] = orders[x],
         orders'[a].stock = orders[a].stock,
         \A x \in Orders : Trading(x) => Trading(x)',
         Trading(a)',
         UNCHANGED <<saved, stockMu, traded, events>>
  PROVE  EventInv'
<1> USE DEF Inv
<1>1. HolderInv /\ HolderInv'
  <2>1. \A x \in Orders : Matching(x) =>
          Matching(x)' /\ orders'[x].stock = orders[x].stock
    BY DEF Matching
  <2> QED
    BY <2>1, HolderQuiet DEF EventInv
<1>2. Issued' = Issued
  BY DEF Issued
<1>3. ASSUME NEW s \in Stocks, Unfilled(s)'
      PROVE  Unfilled(s) /\ orders[o].stock # s
  <2>1. Matching(o)
    BY DEF Matching
  <2>2. stockMu[s] # o
    BY <1>3, NilIsNoOrder DEF Unfilled
  <2>3. orders[o].stock # s
    BY <2>1, <2>2, <1>1, HolderMatches
  <2>4. Unfilled(s)
    BY <2>2, <1>3 DEF Unfilled, TypeInv, TypeOK
  <2> QED
    BY <2>3, <2>4
<1>4. \A x \in saved : x \in Orders
  BY DEF TypeInv, TypeOK
<1>5. IsFiniteSet(saved')
  BY DEF EventInv
<1> QED
  BY <1>1, <1>2, <1>3, <1>4, <1>5, EventsQuiet DEF Issued

\* Both fills of a trade happen while its orders are being traded.
LEMMA EventFillIncoming ==
  ASSUME Inv, Inv', EventInv, NEW o \in Orders, FillIncoming(o)
  PROVE  EventInv'
<1> USE DEF Inv
<1>1. PICK c \in Earliest(Pending(o)) :
        /\ counterOrder' = [counterOrder EXCEPT ![o] = c]
        /\ orders' = [orders EXCEPT ![o] =
                        Fill(@, FillQty(orders[o], orders[c]))]
  BY DEF FillIncoming
<1>2. /\ pc[o] = "matching" /\ pc'[o] = "filling"
      /\ \A x \in Orders \ {o} : pc'[x] = pc[x]
      /\ UNCHANGED <<saved, stockMu, traded, events>>
  BY DEF FillIncoming, output, TypeInv, TypeOK
<1>3. c \in saved /\ orders[c] \in Order /\ orders[o] \in Order
  BY <1>1, <1>2 DEF Earliest, Pending, TypeInv, TypeOK
<1>4. /\ FillQty(orders[o], orders[c]) \in Nat
      /\ FillQty(orders[o], orders[c]) <= orders[o].remaining
  BY <1>3 DEF FillQty, Order
<1>5. /\ \A x \in Orders \ {o} : orders'[x] = orders[x]
      /\ orders'[o].stock = orders[o].stock
  BY <1>1, <1>3, <1>4, FillEffect DEF TypeInv, TypeOK
<1>6. \A x \in Orders : Trading(x) => Trading(x)'
  <2>1. \A t \in Orders : Filling(t) => t # o /\ Filling(t)'
    BY <1>2 DEF Filling
  <2>2. \A t \in Orders \ {o} : counterOrder'[t] = counterOrder[t]
    BY <1>1 DEF TypeInv, TypeOK
  <2> QED
    BY <2>1, <2>2 DEF Trading
<1>7. Trading(o)'
  BY <1>2 DEF Trading, Filling
<1> QED
  BY <1>2, <1>5, <1>6, <1>7, EventFill

LEMMA EventFillCounter ==
  ASSUME Inv, Inv', EventInv, NEW o \in Orders, FillCounter(o)
  PROVE  EventInv'
<1> USE DEF Inv
<1>1. PICK c, qty : c = counterOrder[o] /\ qty = fillQty[o]
  OBVIOUS
<1>2. /\ pc[o] = "filling" /\ pc'[o] = "filled"
      /\ \A x \in Orders \ {o} : pc'[x] = pc[x]
      /\ orders' = [orders EXCEPT ![c] = Fill(@, qty)]
      /\ UNCHANGED <<saved, stockMu, traded, counterOrder, events>>
  BY <1>1 DEF FillCounter, request, output, TypeInv, TypeOK
<1>3. /\ c \in Orders /\ c \in oppositeOrders[o] /\ orders[c] \in Order
      /\ qty \in Nat /\ qty <= orders[c].remaining
  BY <1>1, <1>2 DEF TypeInv, TypeOK, FillInv
<1>4. /\ \A x \in Orders \ {c} : orders'[x] = orders[x]
      /\ orders'[c].stock = orders[c].stock
  BY <1>2, <1>3, FillEffect DEF TypeInv, TypeOK
<1>5. orders[c].stock = orders[o].stock
  BY <1>3 DEF ListInv
<1>6. \A x \in Orders : Trading(x) => Trading(x)'
  <2>1. \A t \in Orders : Filling(t) => Filling(t)'
    BY <1>2 DEF Filling
  <2> QED
    BY <2>1, <1>2 DEF Trading
<1>7. Trading(c)'
  BY <1>1, <1>2 DEF Trading, Filling
<1> QED
  BY <1>2, <1>3, <1>4, <1>5, <1>6, <1>7, EventFill

\* The two orders of the trade are announced as they are, the later update
\* being that of the resting order.
LEMMA EventRecordTrade ==
  ASSUME Inv, Inv', EventInv, NEW o \in Orders, RecordTrade(o)
  PROVE  EventInv'
<1> USE DEF Inv
<1>1. PICK c, stock : c = counterOrder[o] /\ stock = orders[o].stock
  OBVIOUS
<1>2. PICK trade, md :
        events' = [events EXCEPT ![stock] = @ \o TradeEvents(o, c, trade, md)]
  BY <1>1 DEF RecordTrade
<1>3. /\ pc[o] = "filled" /\ pc'[o] = "matching"
      /\ \A x \in Orders \ {o} : pc'[x] = pc[x]
      /\ traded'[o] = TRUE /\ \A x \in Orders \ {o} : traded'[x] = traded[x]
      /\ UNCHANGED <<saved, orders, stockMu, counterOrder>>
  BY RecordTradeFrame
<1>4. /\ c \in Orders /\ c \in oppositeOrders[o] /\ c # o
      /\ orders[c].stock = stock /\ stock \in Stocks
      /\ Matching(o)
  BY <1>1, <1>3 DEF TypeInv, TypeOK, Order, ListInv, Matching
<1>5. HolderInv /\ HolderInv' /\ IsFiniteSet(saved')
  <2>1. \A x \in Orders : Matching(x) => Matching(x)'
    BY <1>3 DEF Matching
  <2> QED
    BY <2>1, <1>3, HolderQuiet DEF EventInv
<1>6. PICK E, n : events[stock] \in Seq(E) /\ n = Len(events[stock])
  BY <1>4 DEF EventInv, SequencesInv
<1>7. PICK new, F : /\ new = TradeEvents(o, c, trade, md)
                    /\ F = {new[1], new[2], new[3], new[4]}
  OBVIOUS
<1>8. /\ new \in Seq(F) /\ Len(new) = 4
      /\ new[1].type = "market.trade" /\ new[2].type = "market.ticker"
      /\ new[3].type = "order.update" /\ new[3].id = o /\ new[3].data = orders[o]
      /\ new[4].type = "order.update" /\ new[4].id = c /\ new[4].data = orders[c]
  BY <1>7 DEF TradeEvents
<1>9. /\ events'[stock] = events[stock] \o new
      /\ \A s \in Stocks \ {stock} : events'[s] = events[s]
  BY <1>2, <1>4, <1>7 DEF TypeInv, TypeOK
<1>10. /\ events'[stock] \in Seq(E \cup F)
       /\ n \in Nat /\ DOMAIN events[stock] = 1 .. n
       /\ DOMAIN events'[stock] = 1 .. (n + 4)
       /\ \A i \in 1 .. n : events'[stock][i] = events[stock][i]
       /\ \A i \in 1 .. 4 : events'[stock][n + i] = new[i]
  <2>1. PICK es : es = events[stock]
    OBVIOUS
  <2>2. es \in Seq(E) /\ n = Len(es) /\ new \in Seq(F)
    BY <2>1, <1>6, <1>8
  <2>3. /\ es \o new \in Seq(E \cup F)
        /\ n \in Nat /\ DOMAIN es = 1 .. n
        /\ DOMAIN (es \o new) = 1 .. (n + Len(new))
        /\ \A i \in 1 .. n : (es \o new)[i] = es[i]
        /\ \A i \in 1 .. Len(new) : (es \o new)[n + i] = new[i]
    BY <2>2, Appended
  <2>4. events'[stock] = es \o new
    BY <2>1, <1>9
  <2> QED
    BY <2>1, <2>3, <2>4, <1>8
<1>11. /\ events'[stock][n + 1] = new[1] /\ events'[stock][n + 2] = new[2]
       /\ events'[stock][n + 3] = new[3] /\ events'[stock][n + 4] = new[4]
  BY <1>10
<1>12. \A i \in DOMAIN events'[stock] :
         \/ i \in 1 .. n /\ events'[stock][i] = events[stock][i]
         \/ i = n + 1 /\ events'[stock][i] = new[1]
         \/ i = n + 2 /\ events'[stock][i] = new[2]
         \/ i = n + 3 /\ events'[stock][i] = new[3]
         \/ i = n + 4 /\ events'[stock][i] = new[4]
  <2>1. \A i \in 1 .. (n + 4) : i \in 1 .. n \/ i \in {n + 1, n + 2, n + 3, n + 4}
    BY <1>10
  <2> QED
    BY <2>1, <1>10, <1>11
<1>13. SequencesInv'
  BY <1>9, <1>10 DEF EventInv, SequencesInv
<1>14. \A s \in Stocks : /\ EmittedBooks(s)' = EmittedBooks(s)
                         /\ \A i \in EmittedBooks(s) :
                              events'[s][i] = events[s][i]
  <2> SUFFICES ASSUME NEW s \in Stocks
               PROVE  /\ EmittedBooks(s)' = EmittedBooks(s)
                      /\ \A i \in EmittedBooks(s) :
                           events'[s][i] = events[s][i]
    OBVIOUS
  <2>1. CASE s # stock
    BY <2>1, <1>9 DEF EmittedBooks
  <2>2. CASE s = stock
    <3>1. EmittedBooks(stock) \subseteq EmittedBooks(stock)'
      BY <1>10 DEF EmittedBooks
    <3>2. EmittedBooks(stock)' \subseteq EmittedBooks(stock)
      BY <1>8, <1>10, <1>12 DEF EmittedBooks
    <3> QED
      BY <2>2, <3>1, <3>2, <1>10 DEF EmittedBooks
  <2> QED
    BY <2>1, <2>2
<1>15. \A s \in Stocks : Unfilled(s)' => Unfilled(s)
  <2> SUFFICES ASSUME NEW s \in Stocks, Unfilled(s)' PROVE Unfilled(s)
    OBVIOUS
  <2>1. stockMu[s] # o
    BY <1>3, NilIsNoOrder DEF Unfilled
  <2> QED
    BY <2>1, <1>3 DEF Unfilled, TypeInv, TypeOK
<1>16. DepthInv'
  BY <1>3, <1>5, <1>14, <1>15, DepthQuiet DEF EventInv
<1>17. UpdateInv'
  <2> SUFFICES ASSUME NEW x \in Issued', orders[x].filled > 0, ~Trading(x)'
               PROVE  \E i : /\ LastAt(i, UpdatesOf(x)')
                             /\ events'[orders[x].stock][i].data = orders[x]
    BY <1>3 DEF UpdateInv
  <2>1. x \in Issued /\ x \in Orders
    BY <1>3 DEF Issued
  <2>2. CASE x = o
    <3>1. UpdatesOf(o)' \subseteq (1 .. n) \cup {n + 3}
      BY <1>1, <1>3, <1>4, <1>8, <1>12 DEF UpdatesOf
    <3>2. n + 3 \in UpdatesOf(o)'
      <4>1. n + 3 \in DOMAIN events'[stock]
        BY <1>10
      <4> QED
        BY <4>1, <1>1, <1>3, <1>8, <1>11 DEF UpdatesOf
    <3>3. LastAt(n + 3, UpdatesOf(o)')
      BY <3>1, <3>2, <1>10 DEF LastAt
    <3> QED
      BY <3>3, <2>2, <1>1, <1>8, <1>11
  <2>3. CASE x = c
    <3>1. UpdatesOf(c)' \subseteq 1 .. (n + 4) /\ n + 4 \in UpdatesOf(c)'
      BY <1>3, <1>4, <1>8, <1>10, <1>11 DEF UpdatesOf
    <3>2. LastAt(n + 4, UpdatesOf(c)')
      BY <3>1, <1>10 DEF LastAt
    <3> QED
      BY <3>2, <2>3, <1>4, <1>8, <1>11
  <2>4. CASE x \notin {o, c}
    <3>1. ~Trading(x)
      BY <2>1, <2>4, <1>1, <1>3 DEF Trading, Filling
    <3>2. PICK i : LastAt(i, UpdatesOf(x))
                   /\ events[orders[x].stock][i].data = orders[x]
      BY <3>1, <2>1 DEF EventInv, UpdateInv
    <3>3. CASE orders[x].stock = stock
      <4>1. UpdatesOf(x) \subseteq UpdatesOf(x)'
        BY <3>3, <1>3, <1>10 DEF UpdatesOf
      <4>2. UpdatesOf(x)' \subseteq UpdatesOf(x)
        BY <3>3, <2>4, <1>3, <1>8, <1>10, <1>12 DEF UpdatesOf
      <4>3. i \in 1 .. n
        BY <3>2, <3>3, <1>10 DEF LastAt, UpdatesOf
      <4>4. events'[stock][i] = events[stock][i]
        BY <4>3, <1>10
      <4>5. UpdatesOf(x)' = UpdatesOf(x)
        BY <4>1, <4>2
      <4> QED
        BY <3>2, <3>3, <4>4, <4>5
    <3>4. CASE orders[x].stock # stock
      <4>1. orders[x].stock \in Stocks
        BY <2>1 DEF TypeInv, TypeOK, Issued, Order
      <4>2. events'[orders[x].stock] = events[orders[x].stock]
        BY <3>4, <4>1, <1>9
      <4>3. UpdatesOf(x)' = UpdatesOf(x)
        BY <4>2, <1>3 DEF UpdatesOf
      <4> QED
        BY <3>2, <4>2, <4>3
    <3> QED
      BY <3>3, <3>4
  <2> QED
    BY <2>2, <2>3, <2>4
<1> QED
  BY <1>5, <1>13, <1>16, <1>17 DEF EventInv

\* A book shows no more than what rests.
LEMMA BookShowsResting ==
  ASSUME TypeInv, IsFiniteSet(saved), NEW s \in Stocks
  PROVE  ShowsNoMore(s, OrderBook(s))
<1>1. ASSUME NEW side, NEW p \in DOMAIN Levels(GetOpenOrdersByStock(s, side))
      PROVE  LET shown == Levels(GetOpenOrdersByStock(s, side))[p].quantity
             IN  shown \in Nat /\ shown <= Resting(s, side, p)
  <2> DEFINE open  == GetOpenOrdersByStock(s, side)
             level == {o \in open : orders[o].price = p}
             rest  == {o \in saved : /\ orders[o].stock = s
                                     /\ orders[o].side = side
                                     /\ orders[o].price = p}
             f == [o \in level |-> orders[o].remaining]
             g == [o \in rest |-> orders[o].remaining]
  <2>1. level \subseteq rest /\ rest \subseteq saved
    BY DEF GetOpenOrdersByStock
  <2>2. \A o \in rest : g[o] \in Nat
    BY DEF TypeInv, TypeOK, Order
  <2>3. \A o \in level : f[o] = g[o]
    BY <2>1
  <2>4. p \in {orders[o].price : o \in open}
    BY <1>1 DEF Levels
  <2>5. Levels(open)[p].quantity = SumFunctionOnSet(f, level)
    BY <2>4 DEF Levels, SumFunction
  <2>6. Resting(s, side, p) = SumFunctionOnSet(g, rest)
    BY DEF Resting, SumFunction
  <2> HIDE DEF level, rest, f, g
  <2>7. IsFiniteSet(rest) /\ IsFiniteSet(level)
    BY <2>1, FS_Subset
  <2>8. SumFunctionOnSet(f, level) = SumFunctionOnSet(g, level)
    BY <2>3, <2>7, SumSame
  <2>9. /\ SumFunctionOnSet(g, level) \in Nat
        /\ SumFunctionOnSet(g, level) <= SumFunctionOnSet(g, rest)
    BY <2>1, <2>2, <2>7, SumNat, SumSubset
  <2> QED
    BY <2>5, <2>6, <2>8, <2>9
<1> QED
  BY <1>1 DEF ShowsNoMore, OrderBook

\* The book is emitted before the mutex is released, and after the last fill.
LEMMA EventFinishMatching ==
  ASSUME Inv, Inv', EventInv, NEW o \in Orders, FinishMatching(o)
  PROVE  EventInv'
<1> USE DEF Inv
<1>1. PICK stock : stock = orders[o].stock
  OBVIOUS
<1>2. /\ pc[o] = "matching" /\ pc'[o] = "done"
      /\ \A x \in Orders \ {o} : pc'[x] = pc[x]
      /\ stockMu' = [stockMu EXCEPT ![stock] = Nil]
      /\ UNCHANGED <<saved, orders, counterOrder, fillQty, traded>>
  BY <1>1 DEF FinishMatching, Release, request, TypeInv, TypeOK
<1>3. stock \in Stocks /\ Matching(o) /\ o \in Issued
  BY <1>1, <1>2 DEF TypeInv, TypeOK, Order, Matching, Issued
<1>4. \A s \in Stocks : stockMu[s] = o <=> s = stock
  BY <1>1, <1>3, HolderMatches DEF EventInv
<1>5. IsFiniteSet(saved')
  BY <1>2 DEF EventInv
<1>6. HolderInv'
  <2> SUFFICES ASSUME NEW s \in Stocks, NEW h, h = stockMu'[s], h # Nil
               PROVE  Matching(h)' /\ orders[h].stock = s
    BY <1>2 DEF HolderInv
  <2>1. s # stock /\ h = stockMu[s] /\ h \in Orders /\ h # o
    BY <1>2, <1>4 DEF TypeInv, TypeOK
  <2>2. Matching(h) /\ orders[h].stock = s
    BY <2>1 DEF EventInv, HolderInv
  <2> QED
    BY <2>1, <2>2, <1>2 DEF Matching
<1>7. \A x \in Orders : Trading(x)' <=> Trading(x)
  <2>1. \A x \in Orders : Filling(x)' <=> Filling(x)
    BY <1>2 DEF Filling
  <2> QED
    BY <2>1, <1>2 DEF Trading
<1>8. Issued' = Issued
  BY <1>2 DEF Issued
<1>9. \A s \in Stocks \ {stock} : Unfilled(s)' => Unfilled(s)
  <2> SUFFICES ASSUME NEW s \in Stocks \ {stock}, Unfilled(s)'
               PROVE  Unfilled(s)
    OBVIOUS
  <2>1. stockMu'[s] = stockMu[s] /\ stockMu[s] # o
    BY <1>2, <1>4 DEF TypeInv, TypeOK
  <2> QED
    BY <2>1, <1>2 DEF Unfilled, TypeInv, TypeOK
<1>10. CASE ~traded[o]
  <2>1. UNCHANGED events
    BY <1>10 DEF FinishMatching
  <2>2. Unfilled(stock)
    BY <1>2, <1>3, <1>4, <1>10 DEF Unfilled
  <2>3. \A s \in Stocks : Unfilled(s)' => Unfilled(s)
    BY <2>2, <1>9
  <2> QED
    BY <2>1, <2>3, <1>2, <1>5, <1>6, <1>7, <1>8, EventsQuiet DEF Issued
<1>11. CASE traded[o]
  <2>1. PICK book, e, es, E : /\ book = OrderBook(stock)
                              /\ e = [type |-> "market.orderbook", data |-> book]
                              /\ es = events[stock] /\ es \in Seq(E)
    BY <1>3 DEF EventInv, SequencesInv
  <2>2. PICK n : n = Len(es)
    OBVIOUS
  <2>3. /\ events'[stock] = Append(es, e)
        /\ \A s \in Stocks \ {stock} : events'[s] = events[s]
    BY <1>1, <1>3, <1>11, <2>1 DEF FinishMatching, TypeInv, TypeOK
  <2>4. /\ n \in Nat /\ DOMAIN es = 1 .. n
        /\ Append(es, e) \in Seq(E \cup {e})
        /\ DOMAIN Append(es, e) = 1 .. (n + 1)
        /\ Append(es, e)[n + 1] = e
        /\ \A i \in 1 .. n : Append(es, e)[i] = es[i]
    <3>1. es \in Seq(E \cup {e}) /\ e \in E \cup {e}
      BY <2>1
    <3> QED
      BY <2>1, <2>2, <3>1
  <2>5. SequencesInv'
    BY <2>1, <2>3, <2>4 DEF EventInv, SequencesInv
  <2>6. \A s \in Stocks \ {stock} : EmittedBooks(s)' = EmittedBooks(s)
    BY <2>3 DEF EmittedBooks
  <2>7. EmittedBooks(stock)' \subseteq 1 .. (n + 1) /\ n + 1 \in EmittedBooks(stock)'
    BY <2>1, <2>3, <2>4 DEF EmittedBooks
  <2>8. LastAt(n + 1, EmittedBooks(stock)')
    BY <2>4, <2>7 DEF LastAt
  <2>9. ShowsNoMore(stock, book)'
    <3>1. ShowsNoMore(stock, book)
      BY <1>3, <2>1, BookShowsResting DEF EventInv
    <3>2. \A side, p : Resting(stock, side, p)' = Resting(stock, side, p)
      BY <1>2 DEF Resting
    <3> QED
      BY <3>1, <3>2 DEF ShowsNoMore
  <2>10. DepthInv'
    <3> SUFFICES ASSUME NEW s \in Stocks, EmittedBooks(s)' # {}, Unfilled(s)'
                 PROVE  \E i, shown : /\ LastAt(i, EmittedBooks(s)')
                                      /\ shown = events'[s][i].data
                                      /\ ShowsNoMore(s, shown)'
      BY DEF DepthInv
    <3>1. CASE s = stock
      BY <3>1, <2>1, <2>3, <2>4, <2>8, <2>9
    <3>2. CASE s # stock
      <4>1. PICK i, shown : /\ LastAt(i, EmittedBooks(s))
                            /\ shown = events[s][i].data
                            /\ ShowsNoMore(s, shown)
        BY <3>2, <1>9, <2>6 DEF EventInv, DepthInv
      <4>2. \A side, p : Resting(s, side, p)' = Resting(s, side, p)
        BY <1>2 DEF Resting
      <4>3. ShowsNoMore(s, shown)'
        BY <4>1, <4>2 DEF ShowsNoMore
      <4> QED
        BY <3>2, <4>1, <4>3, <2>3, <2>6
    <3> QED
      BY <3>1, <3>2
  <2>11. UpdateInv'
    <3> SUFFICES ASSUME NEW x \in Issued, orders[x].filled > 0, ~Trading(x)
                 PROVE  \E i : /\ LastAt(i, UpdatesOf(x)')
                               /\ events'[orders[x].stock][i].data = orders[x]
      BY <1>2, <1>7, <1>8 DEF UpdateInv, Issued
    <3>1. PICK i : LastAt(i, UpdatesOf(x))
                   /\ events[orders[x].stock][i].data = orders[x]
      BY DEF EventInv, UpdateInv
    <3>2. orders[x].stock \in Stocks
      BY DEF TypeInv, TypeOK, Order, Issued
    <3>3. CASE orders[x].stock # stock
      <4>1. UpdatesOf(x)' = UpdatesOf(x)
        BY <3>2, <3>3, <1>2, <2>3 DEF UpdatesOf
      <4> QED
        BY <3>1, <3>2, <3>3, <4>1, <2>3
    <3>4. CASE orders[x].stock = stock
      <4>1. \A j \in 1 .. (n + 1) : j \in 1 .. n \/ j = n + 1
        BY <2>4
      <4>2. UpdatesOf(x)' \subseteq UpdatesOf(x)
        BY <3>4, <4>1, <1>2, <2>1, <2>3, <2>4 DEF UpdatesOf
      <4>3. UpdatesOf(x) \subseteq UpdatesOf(x)'
        BY <3>4, <1>2, <2>1, <2>3, <2>4 DEF UpdatesOf
      <4>4. UpdatesOf(x)' = UpdatesOf(x)
        BY <4>2, <4>3
      <4>5. i \in 1 .. n
        BY <3>1, <3>4, <2>1, <2>4 DEF LastAt, UpdatesOf
      <4>6. events'[stock][i] = events[stock][i]
        BY <4>5, <2>1, <2>3, <2>4
      <4> QED
        BY <3>1, <3>4, <4>4, <4>6
    <3> QED
      BY <3>3, <3>4
  <2> QED
    BY <1>5, <1>6, <2>5, <2>10, <2>11 DEF EventInv
<1> QED
  BY <1>10, <1>11 DEF TypeInv, TypeOK

\* Every step keeps the invariant of the emitted events.
LEMMA EventStep == Inv /\ Inv' /\ EventInv /\ [Next]_vars => EventInv'
<1> SUFFICES ASSUME Inv, Inv', EventInv, [Next]_vars
             PROVE  EventInv'
  OBVIOUS
<1>1. ASSUME NEW o \in Orders, CreateOrder(o) \/ Process(o)
      PROVE  EventInv'
  BY <1>1, EventCreateOrder, EventSaveOrder, EventStartMatching,
     EventSkipCounter, EventFillIncoming, EventFillCounter,
     EventRecordTrade, EventFinishMatching
  DEF Process
<1>2. CASE UNCHANGED vars
  <2>1. UNCHANGED <<pc, saved, orders, stockMu, traded, counterOrder, events>>
    BY <1>2 DEF vars
  <2>2. HolderInv' /\ IsFiniteSet(saved')
    BY <2>1 DEF EventInv, HolderInv, Matching
  <2>3. \A x \in Orders : Trading(x)' <=> Trading(x)
    BY <2>1 DEF Trading, Filling
  <2>4. Issued' = Issued
    BY <2>1 DEF Issued
  <2>5. \A s \in Stocks : Unfilled(s)' <=> Unfilled(s)
    BY <2>1 DEF Unfilled
  <2> QED
    BY <2>1, <2>2, <2>3, <2>4, <2>5, EventsQuiet DEF Issued, Inv
<1> QED
  BY <1>1, <1>2 DEF Next, AllAnswered

\* The invariant of the emitted events.
THEOREM EventsInvariance == Spec => []EventInv
BY EventInit, EventStep, Invariance, PTL DEF Spec

\* Once nobody trades in its stock, the last order.update of a filled order
\* shows it as it is stored: executeTrade emits after both fills, and the
\* mutex keeps the updates of two trades from overtaking each other.
THEOREM UpdatesNeverBehind == Spec => []UpdatesCaughtUp
<1>1. Inv /\ EventInv => UpdatesCaughtUp
  <2> SUFFICES ASSUME Inv, EventInv, NEW x \in Issued,
                      stockMu[orders[x].stock] = Nil, orders[x].filled > 0
               PROVE  /\ UpdatesOf(x) # {}
                      /\ LastOf(orders[x].stock, UpdatesOf(x)).data = orders[x]
    BY DEF UpdatesCaughtUp
  <2> USE DEF Inv
  <2>1. x \in Orders /\ orders[x].stock \in Stocks
    BY DEF Issued, TypeInv, TypeOK, Order
  <2>2. ~Trading(x)
    <3>1. ~Matching(x)
      BY <2>1, NilIsNoOrder DEF MutexInv
    <3>2. ASSUME NEW t \in Orders, Filling(t), counterOrder[t] = x
          PROVE  FALSE
      <4>1. Matching(t) /\ x \in oppositeOrders[t]
        BY <3>2 DEF Filling, Matching, TypeInv
      <4>2. orders[x].stock = orders[t].stock
        BY <4>1 DEF ListInv
      <4> QED
        BY <4>1, <4>2, NilIsNoOrder DEF MutexInv
    <3> QED
      BY <3>1, <3>2 DEF Trading, Filling, Matching
  <2>3. PICK i : LastAt(i, UpdatesOf(x))
                 /\ events[orders[x].stock][i].data = orders[x]
    BY <2>2 DEF EventInv, UpdateInv
  <2>4. UpdatesOf(x) \in SUBSET Nat
    BY <2>1, EventIndices DEF EventInv, UpdatesOf
  <2>5. (CHOOSE k \in UpdatesOf(x) : \A j \in UpdatesOf(x) : j <= k) = i
    BY <2>3, <2>4, LastIsLast
  <2> QED
    BY <2>3, <2>5 DEF LastOf, LastAt
<1> QED
  BY <1>1, EventsInvariance, Invariance, PTL

\* Once nobody trades in a stock, the last book emitted for it shows no more
\* at any price than rests there: subscribers are never offered a quantity
\* that has been filled.
THEOREM NoPhantoms == Spec => []NoPhantomDepth
<1>1. EventInv => NoPhantomDepth
  <2> SUFFICES ASSUME EventInv, NEW s \in Stocks,
                      stockMu[s] = Nil, EmittedBooks(s) # {}
               PROVE  ShowsNoMore(s, LastOf(s, EmittedBooks(s)).data)
    BY DEF NoPhantomDepth, ShowsNoMore
  <2>1. PICK i, book : /\ LastAt(i, EmittedBooks(s))
                       /\ book = events[s][i].data
                       /\ ShowsNoMore(s, book)
    BY DEF EventInv, DepthInv, Unfilled
  <2>2. EmittedBooks(s) \in SUBSET Nat
    BY EventIndices DEF EventInv, EmittedBooks
  <2>3. (CHOOSE k \in EmittedBooks(s) : \A j \in EmittedBooks(s) : j <= k) = i
    BY <2>1, <2>2, LastIsLast
  <2> QED
    BY <2>1, <2>3 DEF LastOf
<1> QED
  BY <1>1, EventsInvariance, PTL

-----------------------------------------------------------------------------
(* Every request matches as if in one step.                                *)

Parties(t) == {t.buy, t.sell}

\* The request of a made the trade t with the resting order c.
MadeBy(t, a, c) ==
  /\ t.buy = IF orders[a].side = "BUY" THEN a ELSE c
  /\ t.sell = IF orders[a].side = "BUY" THEN c ELSE a
  /\ t.price = orders[c].price
  /\ PricesMatch(orders[a], orders[c])
  /\ c \in visited[a] /\ a \notin visited[c]

\* Every trade was made in the turn of one of its two orders, at the price of
\* the other, and no two orders trade twice.
TradeInv ==
  /\ \A t \in trades : t.quantity > 0 /\ \E a, c \in saved : MadeBy(t, a, c)
  /\ \A t, u \in trades : Parties(t) = Parties(u) => t = u

\* In the turn of o: nobody else touches the orders it listed, so those ahead
\* still have something left; those behind at a matching price were taken; at
\* most one of them is not used up, and none while o goes on to the next.
Turn(o) ==
  /\ \A c \in Pending(o) : \/ orders[c].remaining > 0
                           \/ pc[o] = "filled" /\ c = counterOrder[o]
  /\ \A c \in visited[o] : PricesMatch(orders[o], orders[c]) => c \in Taken(o)
  /\ \A c, d \in Taken(o) :
       c = d \/ orders[c].remaining = 0 \/ orders[d].remaining = 0
  /\ Filling(o) =>
       /\ fillQty[o] > 0
       /\ \A d \in Taken(o) : orders[d].remaining = 0
       /\ \A t \in trades : Parties(t) # {o, counterOrder[o]}

TurnInv == \A o \in Orders : Matching(o) => Turn(o)

StepInv == Inv /\ LedgerInv /\ TradeInv /\ TurnInv

\* What an order was placed for never changes once it is saved.
LEMMA TermsStay ==
  ASSUME TypeInv, NEW o \in Orders, CreateOrder(o) \/ Process(o)
  PROVE  /\ saved \subseteq saved'
         /\ \A x \in saved : TermsOf(x)' = TermsOf(x)
<1> USE DEF TypeInv, TypeOK
<1>1. CASE CreateOrder(o)
  <2>1. saved' = saved /\ o \notin saved
    BY <1>1 DEF CreateOrder
  <2>2. \A x \in saved : orders'[x] = orders[x]
    BY <1>1, <2>1 DEF CreateOrder
  <2> QED
    BY <2>1, <2>2 DEF TermsOf
<1>2. CASE UNCHANGED orders /\ saved \subseteq saved'
  BY <1>2 DEF TermsOf
<1>3. ASSUME NEW a \in saved, NEW qty, orders' = [orders EXCEPT ![a] = Fill(@, qty)],
             saved' = saved
      PROVE  \A x \in saved : TermsOf(x)' = TermsOf(x)
  <2>1. orders[a] \in Order /\ orders'[a] = Fill(orders[a], qty)
    BY <1>3
  <2>2. TermsOf(a)' = TermsOf(a)
    BY <2>1 DEF TermsOf, Fill, Order
  <2>3. \A x \in saved \ {a} : orders'[x] = orders[x]
    BY <1>3
  <2>4. \A x \in saved \ {a} : TermsOf(x)' = TermsOf(x)
    BY <2>3 DEF TermsOf
  <2> QED
    BY <2>2, <2>4
<1>4. CASE FillIncoming(o)
  <2>1. saved' = saved /\ o \in saved
    BY <1>4 DEF FillIncoming
  <2>2. PICK qty : orders' = [orders EXCEPT ![o] = Fill(@, qty)]
    BY <1>4 DEF FillIncoming
  <2> QED
    BY <1>3, <2>1, <2>2
<1>5. CASE FillCounter(o)
  <2>1. saved' = saved /\ counterOrder[o] \in saved
    BY <1>5 DEF FillCounter
  <2> QED
    BY <1>3, <1>5, <2>1 DEF FillCounter
<1> QED
  BY <1>1, <1>2, <1>4, <1>5
  DEF Process, SaveOrder, StartMatching, SkipCounter, RecordTrade, FinishMatching

\* What a step leaves of the turn of another request.
Elsewhere(o) ==
  /\ pc'[o] = pc[o]
  /\ oppositeOrders'[o] = oppositeOrders[o] /\ visited'[o] = visited[o]
  /\ counterOrder'[o] = counterOrder[o] /\ fillQty'[o] = fillQty[o]
  /\ \A c \in oppositeOrders[o] : orders'[c] = orders[c]
  /\ trades \subseteq trades'
  /\ \A t \in trades' \ trades : o \notin Parties(t)

LEMMA TurnKept ==
  ASSUME Inv, NEW o \in Orders, Matching(o), Turn(o), Elsewhere(o),
         TermsOf(o)' = TermsOf(o)
  PROVE  Turn(o)'
<1>1. /\ visited[o] \subseteq oppositeOrders[o]
      /\ Filling(o) => counterOrder[o] \in oppositeOrders[o]
  BY DEF Inv, ListInv, TypeInv, Filling
<1>2. /\ Pending(o)' = Pending(o) /\ Pending(o) \subseteq oppositeOrders[o]
      /\ Filling(o)' <=> Filling(o)
  BY DEF Elsewhere, Pending, Filling
<1>3. Taken(o)' = Taken(o)
  <2>1. \A c : (\E t \in trades' : {t.buy, t.sell} = {o, c})
                 <=> (\E t \in trades : {t.buy, t.sell} = {o, c})
    BY DEF Elsewhere, Parties
  <2> QED
    BY <2>1 DEF Taken, Elsewhere
<1>4. Taken(o) \subseteq oppositeOrders[o]
  BY <1>1 DEF Taken
<1>5. \A c \in oppositeOrders[o] :
        PricesMatch(orders'[o], orders'[c]) <=> PricesMatch(orders[o], orders[c])
  BY DEF Elsewhere, PricesMatch, TermsOf
<1>6. \A c \in Pending(o)' : \/ orders'[c].remaining > 0
                             \/ pc'[o] = "filled" /\ c = counterOrder'[o]
  BY <1>2 DEF Turn, Elsewhere
<1>7. \A c \in visited'[o] : PricesMatch(orders'[o], orders'[c]) => c \in Taken(o)'
  BY <1>1, <1>3, <1>5 DEF Turn, Elsewhere
<1>8. \A c, d \in Taken(o)' :
       c = d \/ orders'[c].remaining = 0 \/ orders'[d].remaining = 0
  BY <1>3, <1>4 DEF Turn, Elsewhere
<1>9. Filling(o)' =>
       /\ fillQty'[o] > 0
       /\ \A d \in Taken(o)' : orders'[d].remaining = 0
  BY <1>2, <1>3, <1>4 DEF Turn, Elsewhere
<1>10. Filling(o)' => \A t \in trades' : Parties(t) # {o, counterOrder'[o]}
  BY <1>2 DEF Turn, Elsewhere, Parties
<1> QED
  BY <1>6, <1>7, <1>8, <1>9, <1>10 DEF Turn, Parties

\* The trade between o and the order its loop is at.
LEMMA TradeRecorded ==
  ASSUME NEW o \in Orders, RecordTrade(o)
  PROVE  \E trade :
           /\ trades' = trades \cup {trade}
           /\ trade.buy = IF orders[o].side = "BUY" THEN o ELSE counterOrder[o]
           /\ trade.sell = IF orders[o].side = "BUY" THEN counterOrder[o] ELSE o
           /\ trade.price = orders[counterOrder[o]].price
           /\ trade.quantity = fillQty[o]
           /\ {trade.buy, trade.sell} = {o, counterOrder[o]}
<1> DEFINE trade == [id       |-> tradeSeq + 1,
                     stock    |-> orders[o].stock,
                     buy      |-> IF orders[o].side = "BUY" THEN o ELSE counterOrder[o],
                     sell     |-> IF orders[o].side = "BUY" THEN counterOrder[o] ELSE o,
                     price    |-> orders[counterOrder[o]].price,
                     quantity |-> fillQty[o]]
<1>1. trades' = trades \cup {trade}
  BY DEF RecordTrade
<1>2. /\ trade.buy = IF orders[o].side = "BUY" THEN o ELSE counterOrder[o]
      /\ trade.sell = IF orders[o].side = "BUY" THEN counterOrder[o] ELSE o
      /\ trade.price = orders[counterOrder[o]].price
      /\ trade.quantity = fillQty[o]
  OBVIOUS
<1> HIDE DEF trade
<1>3. {trade.buy, trade.sell} = {o, counterOrder[o]}
  BY <1>2
<1> QED
  BY <1>1, <1>2, <1>3

\* The mutex keeps the others away from what o listed.
LEMMA OthersTurn ==
  ASSUME Inv, NEW p \in Orders, NEW o \in Orders, o # p, Matching(o),
         CreateOrder(p) \/ Process(p)
  PROVE  Elsewhere(o)
<1> USE DEF Inv, TypeInv, TypeOK
<1>1. \A c \in oppositeOrders[o] : c \in saved /\ orders[c].stock = orders[o].stock
  BY DEF ListInv
<1>2. ASSUME UNCHANGED <<orders, trades>>,
             SaveOrder(p) \/ StartMatching(p) \/ SkipCounter(p) \/ FinishMatching(p)
      PROVE  Elsewhere(o)
  BY <1>2 DEF SaveOrder, StartMatching, SkipCounter, FinishMatching, request, output,
              Elsewhere
<1>3. CASE CreateOrder(p)
  <2>1. p \notin saved
    BY <1>3 DEF CreateOrder
  <2>2. \A c \in oppositeOrders[o] : orders'[c] = orders[c]
    BY <1>1, <1>3, <2>1 DEF CreateOrder
  <2> QED
    BY <1>3, <2>2 DEF CreateOrder, request, Elsewhere
<1>4. CASE FillIncoming(p)
  <2>1. Matching(p)
    BY <1>4 DEF FillIncoming, Matching
  <2>2. p \notin oppositeOrders[o]
    BY <1>1, <2>1, OneMatcher
  <2>3. \A c \in oppositeOrders[o] : orders'[c] = orders[c]
    BY <1>1, <1>4, <2>2 DEF FillIncoming
  <2>4. counterOrder'[o] = counterOrder[o] /\ fillQty'[o] = fillQty[o]
    BY <1>4 DEF FillIncoming
  <2> QED
    BY <1>4, <2>3, <2>4 DEF FillIncoming, output, Elsewhere
<1>5. CASE FillCounter(p)
  <2>1. Matching(p) /\ counterOrder[p] \in oppositeOrders[p]
    BY <1>5 DEF FillCounter, Matching
  <2>2. orders[counterOrder[p]].stock = orders[p].stock
    BY <2>1 DEF ListInv
  <2>3. counterOrder[p] \notin oppositeOrders[o]
    BY <1>1, <2>1, <2>2, OneMatcher
  <2>4. \A c \in oppositeOrders[o] : orders'[c] = orders[c]
    BY <1>1, <1>5, <2>3 DEF FillCounter
  <2> QED
    BY <1>5, <2>4 DEF FillCounter, request, output, Elsewhere
<1>6. CASE RecordTrade(p)
  <2>1. Matching(p) /\ counterOrder[p] \in oppositeOrders[p]
    BY <1>6 DEF RecordTrade, Matching
  <2>2. orders[counterOrder[p]].stock = orders[p].stock
    BY <2>1 DEF ListInv
  <2>3. counterOrder[p] # o
    BY <2>1, <2>2, OneMatcher
  <2>4. PICK trade : /\ trades' = trades \cup {trade}
                     /\ {trade.buy, trade.sell} = {p, counterOrder[p]}
    BY <1>6, TradeRecorded
  <2>5. \A t \in trades' \ trades : o \notin Parties(t)
    BY <2>3, <2>4 DEF Parties
  <2> QED
    BY <1>6, <2>4, <2>5 DEF RecordTrade, Elsewhere
<1>7. UNCHANGED <<orders, trades>> \/ CreateOrder(p) \/ FillIncoming(p)
      \/ FillCounter(p) \/ RecordTrade(p)
  BY DEF Process, SaveOrder, StartMatching, SkipCounter, FinishMatching, output
<1> QED
  BY <1>2, <1>3, <1>4, <1>5, <1>6, <1>7 DEF Process

\* Only orders that cross trade with each other, and afterwards one of them
\* is used up.
LEMMA TradedCross ==
  ASSUME Inv, TradeInv, NEW o \in saved, NEW c \in oppositeOrders[o],
         NEW t \in trades, Parties(t) = {o, c}
  PROVE  /\ PricesMatch(orders[o], orders[c])
         /\ orders[o].remaining = 0 \/ orders[c].remaining = 0
<1> USE DEF Inv
<1>1. PICK a \in saved : \E b \in saved : MadeBy(t, a, b)
  BY DEF TradeInv
<1>2. PICK b \in saved : MadeBy(t, a, b)
  BY <1>1
<1>3. {a, b} = {o, c} /\ b \in visited[a] /\ PricesMatch(orders[a], orders[b])
  BY <1>2 DEF MadeBy, Parties
<1>4. /\ o \in Orders /\ c \in Orders /\ c \in saved
      /\ orders[o] \in Order /\ orders[c] \in Order
  BY DEF TypeInv, TypeOK
<1>5. orders[c].stock = orders[o].stock /\ orders[c].side # orders[o].side
  BY <1>4 DEF ListInv
<1>6. c # o
  BY <1>5
<1>7. PricesMatch(orders[o], orders[c])
  <2>1. CASE a = o
    BY <1>3, <1>6, <2>1
  <2>2. CASE a = c
    <3>1. Crossing(c, o)
      BY <1>3, <1>5, <1>6, <2>2 DEF Crossing
    <3> QED
      BY <1>4, <3>1, CrossingSymmetric DEF Crossing
  <2> QED
    BY <1>3, <2>1, <2>2
<1>8. orders[a].remaining = 0 \/ orders[b].remaining = 0
  BY <1>3, <1>4 DEF VisitInv, TypeInv, TypeOK
<1> QED
  BY <1>3, <1>7, <1>8

\* Saved trades stay what they are unless one order visits the other again.
LEMMA TradesStay ==
  ASSUME TypeInv, TradeInv, NEW o \in Orders, CreateOrder(o) \/ Process(o),
         \A x \in Orders : visited[x] \subseteq visited'[x],
         \A t \in trades : \A a, c \in saved : MadeBy(t, a, c) => a \notin visited'[c]
  PROVE  \A t \in trades : t.quantity > 0 /\ \E a, c \in saved' : MadeBy(t, a, c)'
<1> SUFFICES ASSUME NEW t \in trades
             PROVE  t.quantity > 0 /\ \E a, c \in saved' : MadeBy(t, a, c)'
  OBVIOUS
<1>1. PICK a \in saved : \E c \in saved : MadeBy(t, a, c)
  BY DEF TradeInv
<1>2. PICK c \in saved : MadeBy(t, a, c)
  BY <1>1
<1>3. /\ a \in saved' /\ c \in saved'
      /\ TermsOf(a)' = TermsOf(a) /\ TermsOf(c)' = TermsOf(c)
  BY TermsStay
<1>4. /\ orders'[a].side = orders[a].side /\ orders'[a].price = orders[a].price
      /\ orders'[c].price = orders[c].price
  BY <1>3 DEF TermsOf
<1>5. PricesMatch(orders'[a], orders'[c])
  BY <1>2, <1>4 DEF MadeBy, PricesMatch
<1>6. c \in visited'[a] /\ a \notin visited'[c]
  <2>1. a \in Orders
    BY DEF TypeInv, TypeOK
  <2> QED
    BY <1>2, <2>1 DEF MadeBy
<1>7. MadeBy(t, a, c)'
  BY <1>2, <1>4, <1>5, <1>6 DEF MadeBy
<1> QED
  BY <1>3, <1>7 DEF TradeInv

LEMMA TradesQuiet ==
  ASSUME TypeInv, TradeInv, NEW o \in Orders, CreateOrder(o) \/ Process(o),
         UNCHANGED <<visited, trades>>
  PROVE  TradeInv'
<1>1. \A t \in trades : \A a, c \in saved : MadeBy(t, a, c) => a \notin visited'[c]
  BY DEF MadeBy
<1>2. \A t \in trades : t.quantity > 0 /\ \E a, c \in saved' : MadeBy(t, a, c)'
  BY <1>1, TradesStay
<1> QED
  BY <1>2 DEF TradeInv, Parties

-----------------------------------------------------------------------------
(* What each step does to the turn of its own request.                     *)

LEMMA TurnInit == Init => TradeInv /\ TurnInv
BY DEF Init, TradeInv, TurnInv, Matching

\* The listed orders all have something left.
LEMMA TurnStartMatching ==
  ASSUME Inv, TradeInv, NEW o \in Orders, StartMatching(o)
  PROVE  TradeInv' /\ Turn(o)'
<1> USE DEF Inv
<1>1. TradeInv'
  BY TradesQuiet DEF StartMatching, output, Process
<1>2. /\ pc'[o] = "matching" /\ UNCHANGED <<orders, visited>>
      /\ oppositeOrders'[o] = GetOpenOrdersByStock(orders[o].stock,
                                                   Opposite(orders[o].side))
  BY DEF StartMatching, TypeInv, TypeOK
<1>3. visited[o] = {}
  BY DEF StartMatching, ListInv
<1>4. \A c \in oppositeOrders'[o] : orders[c].remaining > 0
  <2> SUFFICES ASSUME NEW c \in saved, IsOpen(orders[c])
               PROVE  orders[c].remaining > 0
    BY <1>2 DEF GetOpenOrdersByStock
  <2>1. c \in Issued /\ orders[c] \in Order
    BY DEF TypeInv, TypeOK, Issued
  <2>2. orders[c].remaining # 0
    BY <2>1 DEF QuantityInv, IsOpen
  <2> QED
    BY <2>1, <2>2 DEF Order
<1>5. Taken(o)' = {} /\ Pending(o)' \subseteq oppositeOrders'[o] /\ ~Filling(o)'
  BY <1>2, <1>3 DEF Taken, Pending, Filling
<1> QED
  BY <1>1, <1>2, <1>3, <1>4, <1>5 DEF Turn

\* The loop leaves an order behind without a trade if it asks another price;
\* the two have not traded before either.
LEMMA SkipsUntraded ==
  ASSUME Inv, TradeInv, NEW o \in Orders, Turn(o), SkipCounter(o)
  PROVE  \E c \in oppositeOrders[o] :
           /\ visited'[o] = visited[o] \cup {c}
           /\ \A x \in Orders \ {o} : visited'[x] = visited[x]
           /\ ~PricesMatch(orders[o], orders[c])
           /\ \A t \in trades : Parties(t) # {o, c}
<1> USE DEF Inv
<1>1. PICK c \in Earliest(Pending(o)) :
        /\ ~PricesMatch(orders[o], orders[c]) \/ FillQty(orders[o], orders[c]) = 0
        /\ visited' = [visited EXCEPT ![o] = @ \cup {c}]
  BY DEF SkipCounter
<1>2. pc[o] = "matching" /\ orders[o].remaining > 0
  BY DEF SkipCounter
<1>3. c \in Pending(o) /\ c \in oppositeOrders[o] /\ c \in saved /\ o \in saved
  BY <1>2 DEF Earliest, Pending, TypeInv, TypeOK
<1>4. ~PricesMatch(orders[o], orders[c])
  <2>1. orders[c].remaining > 0
    BY <1>2, <1>3 DEF Turn
  <2> QED
    BY <1>1, <1>2, <2>1 DEF FillQty
<1>5. \A t \in trades : Parties(t) # {o, c}
  BY <1>3, <1>4, TradedCross
<1>6. /\ visited'[o] = visited[o] \cup {c}
      /\ \A x \in Orders \ {o} : visited'[x] = visited[x]
  BY <1>1 DEF TypeInv, TypeOK
<1> QED
  BY <1>3, <1>4, <1>5, <1>6

LEMMA TurnSkipCounter ==
  ASSUME Inv, TradeInv, NEW o \in Orders, Turn(o), SkipCounter(o)
  PROVE  TradeInv' /\ Turn(o)'
<1> USE DEF Inv
<1>1. PICK c \in oppositeOrders[o] :
        /\ visited'[o] = visited[o] \cup {c}
        /\ \A x \in Orders \ {o} : visited'[x] = visited[x]
        /\ ~PricesMatch(orders[o], orders[c])
        /\ \A t \in trades : Parties(t) # {o, c}
  BY SkipsUntraded
<1>2. /\ pc[o] = "matching"
      /\ UNCHANGED <<pc, orders, saved, oppositeOrders, counterOrder, fillQty, trades>>
  BY DEF SkipCounter, output
<1>3. TradeInv'
  <2>1. \A x \in Orders : visited[x] \subseteq visited'[x]
    BY <1>1
  <2>2. ASSUME NEW t \in trades, NEW a \in saved, NEW b \in saved, MadeBy(t, a, b)
        PROVE  a \notin visited'[b]
    <3>1. Parties(t) = {a, b} /\ b \in Orders /\ a \notin visited[b]
      BY <2>2 DEF MadeBy, Parties, TypeInv, TypeOK
    <3> QED
      BY <1>1, <3>1
  <2>3. \A t \in trades : t.quantity > 0 /\ \E a, b \in saved' : MadeBy(t, a, b)'
    BY <2>1, <2>2, TradesStay DEF Process
  <2> QED
    BY <1>2, <2>3 DEF TradeInv, Parties
<1>4. Pending(o)' \subseteq Pending(o) /\ ~Filling(o)'
  BY <1>1, <1>2 DEF Pending, Filling
<1>5. Taken(o)' = Taken(o)
  BY <1>1, <1>2 DEF Taken, Parties
<1> QED
  BY <1>1, <1>2, <1>3, <1>4, <1>5 DEF Turn

\* The request goes on to the next order only if the last one is used up.
LEMMA TurnFillIncoming ==
  ASSUME Inv, TradeInv, NEW o \in Orders, Turn(o), FillIncoming(o)
  PROVE  TradeInv' /\ Turn(o)'
<1> USE DEF Inv
<1>1. TradeInv'
  BY TradesQuiet DEF FillIncoming, output, Process
<1>2. PICK c \in Earliest(Pending(o)) : \E qty :
        /\ qty > 0
        /\ counterOrder' = [counterOrder EXCEPT ![o] = c]
        /\ fillQty' = [fillQty EXCEPT ![o] = qty]
        /\ orders' = [orders EXCEPT ![o] = Fill(@, qty)]
  BY DEF FillIncoming
<1> PICK qty :
        /\ qty > 0
        /\ counterOrder' = [counterOrder EXCEPT ![o] = c]
        /\ fillQty' = [fillQty EXCEPT ![o] = qty]
        /\ orders' = [orders EXCEPT ![o] = Fill(@, qty)]
  BY <1>2
<1>3. /\ pc[o] = "matching" /\ orders[o].remaining > 0 /\ pc'[o] = "filling"
      /\ UNCHANGED <<saved, oppositeOrders, visited, trades>>
  BY DEF FillIncoming, output, TypeInv, TypeOK
<1>4. c \in Pending(o) /\ c \in oppositeOrders[o] /\ c \in saved /\ o \in saved
  BY <1>3 DEF Earliest, Pending, TypeInv, TypeOK
<1>5. counterOrder'[o] = c /\ fillQty'[o] = qty
  BY <1>2 DEF TypeInv, TypeOK
<1>6. visited[o] \subseteq oppositeOrders[o] /\ o \notin oppositeOrders[o]
  BY DEF ListInv
<1>7. \A d \in oppositeOrders[o] : orders'[d] = orders[d]
  BY <1>2, <1>6 DEF TypeInv, TypeOK
<1>8. \A d \in oppositeOrders[o] :
        PricesMatch(orders'[o], orders'[d]) <=> PricesMatch(orders[o], orders[d])
  <2>1. TermsOf(o)' = TermsOf(o)
    BY <1>4, TermsStay DEF Process
  <2> QED
    BY <1>7, <2>1 DEF PricesMatch, TermsOf
<1>9. Taken(o)' = Taken(o) /\ Pending(o)' = Pending(o)
  BY <1>3 DEF Taken, Pending
<1>10. \A d \in Taken(o) : orders[d].remaining = 0
  <2> SUFFICES ASSUME NEW d \in Taken(o) PROVE orders[d].remaining = 0
    OBVIOUS
  <2>1. PICK t \in trades : Parties(t) = {o, d}
    BY DEF Taken, Parties
  <2>2. d \in visited[o] /\ d \in oppositeOrders[o]
    BY <1>6 DEF Taken
  <2>3. orders[o].remaining = 0 \/ orders[d].remaining = 0
    BY <1>4, <2>1, <2>2, TradedCross
  <2> QED
    BY <1>3, <2>3
<1>11. orders[c].remaining > 0
  BY <1>3, <1>4 DEF Turn
<1>12. \A t \in trades : Parties(t) # {o, c}
  BY <1>3, <1>4, <1>11, TradedCross
<1>13. \A d \in Pending(o) : orders'[d].remaining > 0
  BY <1>3, <1>7 DEF Turn, Pending
<1>14. \A d \in visited[o] : PricesMatch(orders'[o], orders'[d]) => d \in Taken(o)
  BY <1>6, <1>8 DEF Turn
<1>15. \A d \in Taken(o) : orders'[d].remaining = 0
  BY <1>6, <1>7, <1>10 DEF Taken
<1> QED
  BY <1>1, <1>2, <1>3, <1>5, <1>9, <1>12, <1>13, <1>14, <1>15 DEF Turn, Parties

LEMMA TurnFillCounter ==
  ASSUME Inv, TradeInv, NEW o \in Orders, Turn(o), FillCounter(o)
  PROVE  TradeInv' /\ Turn(o)'
<1> USE DEF Inv
<1>1. TradeInv'
  BY TradesQuiet DEF FillCounter, request, output, Process
<1>2. /\ pc[o] = "filling" /\ pc'[o] = "filled"
      /\ orders' = [orders EXCEPT ![counterOrder[o]] = Fill(@, fillQty[o])]
      /\ UNCHANGED <<saved, oppositeOrders, visited, counterOrder, fillQty, trades>>
  BY DEF FillCounter, request, output, TypeInv, TypeOK
<1>3. counterOrder[o] \in Pending(o) /\ o \in saved
  BY <1>2 DEF FillInv, TypeInv, TypeOK
<1>4. visited[o] \subseteq oppositeOrders[o] /\ oppositeOrders[o] \subseteq Orders
  BY DEF ListInv, TypeInv, TypeOK
<1>5. \A d \in oppositeOrders[o] \ {counterOrder[o]} : orders'[d] = orders[d]
  BY <1>2, <1>4 DEF TypeInv, TypeOK
<1>6. \A d \in visited[o] : orders'[d] = orders[d]
  BY <1>3, <1>4, <1>5 DEF Pending
<1>7. Taken(o)' = Taken(o) /\ Pending(o)' = Pending(o)
      /\ Pending(o) \subseteq oppositeOrders[o] /\ Taken(o) \subseteq visited[o]
  BY <1>2 DEF Taken, Pending
<1>8. \A d \in visited[o] : PricesMatch(orders'[o], orders'[d]) => d \in Taken(o)
  <2>1. TermsOf(o)' = TermsOf(o)
    BY <1>3, TermsStay DEF Process
  <2>2. \A d \in visited[o] :
          PricesMatch(orders'[o], orders'[d]) <=> PricesMatch(orders[o], orders[d])
    BY <1>6, <2>1 DEF PricesMatch, TermsOf
  <2> QED
    BY <2>2 DEF Turn
<1>9. \A d \in Pending(o) \ {counterOrder[o]} : orders'[d].remaining > 0
  BY <1>2, <1>5, <1>7 DEF Turn
<1>10. /\ fillQty[o] > 0
       /\ \A d \in Taken(o) : orders'[d].remaining = 0
       /\ \A t \in trades : Parties(t) # {o, counterOrder[o]}
  BY <1>2, <1>6, <1>7 DEF Turn, Filling
<1> QED
  BY <1>1, <1>2, <1>7, <1>8, <1>9, <1>10 DEF Turn, Parties

\* The first and only trade of the two orders.
LEMMA TurnRecordTrade ==
  ASSUME Inv, TradeInv, NEW o \in Orders, Turn(o), RecordTrade(o)
  PROVE  TradeInv' /\ Turn(o)'
<1> USE DEF Inv
<1>1. PICK c : c = counterOrder[o]
  OBVIOUS
<1>2. PICK trade :
        /\ trades' = trades \cup {trade}
        /\ trade.buy = IF orders[o].side = "BUY" THEN o ELSE c
        /\ trade.sell = IF orders[o].side = "BUY" THEN c ELSE o
        /\ trade.price = orders[c].price
        /\ trade.quantity = fillQty[o]
        /\ {trade.buy, trade.sell} = {o, c}
  BY <1>1, TradeRecorded
<1>3. /\ pc[o] = "filled" /\ pc'[o] = "matching"
      /\ visited' = [visited EXCEPT ![o] = @ \cup {c}]
      /\ UNCHANGED <<orders, saved, oppositeOrders>>
  BY <1>1 DEF RecordTrade, TypeInv, TypeOK
<1>4. /\ c \in Pending(o) /\ o \notin visited[c] /\ PricesMatch(orders[o], orders[c])
      /\ c \in saved /\ o \in saved /\ c \in oppositeOrders[o]
  BY <1>1, <1>3 DEF FillInv, Pending, TypeInv, TypeOK
<1>5. c # o
  BY <1>4 DEF ListInv
<1>6. /\ visited'[o] = visited[o] \cup {c}
      /\ \A x \in Orders \ {o} : visited'[x] = visited[x]
  BY <1>3 DEF TypeInv, TypeOK
<1>7. /\ fillQty[o] > 0
      /\ \A d \in Taken(o) : orders[d].remaining = 0
      /\ \A t \in trades : Parties(t) # {o, c}
  BY <1>1, <1>3 DEF Turn, Filling
<1>8. TradeInv'
  <2>1. \A x \in Orders : visited[x] \subseteq visited'[x]
    BY <1>6
  <2>2. ASSUME NEW t \in trades, NEW a \in saved, NEW b \in saved, MadeBy(t, a, b)
        PROVE  a \notin visited'[b]
    <3>1. Parties(t) = {a, b} /\ b \in Orders /\ a \notin visited[b]
      BY <2>2 DEF MadeBy, Parties, TypeInv, TypeOK
    <3> QED
      BY <1>6, <1>7, <3>1
  <2>3. \A t \in trades : t.quantity > 0 /\ \E a, b \in saved' : MadeBy(t, a, b)'
    BY <2>1, <2>2, TradesStay DEF Process
  <2>4. MadeBy(trade, o, c)'
    <3>1. c \in Orders
      BY <1>4 DEF TypeInv, TypeOK
    <3> QED
      BY <1>2, <1>3, <1>4, <1>5, <1>6, <3>1 DEF MadeBy
  <2>5. \A t \in trades' : t.quantity > 0 /\ \E a, b \in saved' : MadeBy(t, a, b)'
    BY <1>2, <1>3, <1>4, <1>7, <2>3, <2>4
  <2>6. \A t, u \in trades' : Parties(t) = Parties(u) => t = u
    BY <1>2, <1>7 DEF TradeInv, Parties
  <2> QED
    BY <2>5, <2>6 DEF TradeInv, Parties
<1>9. /\ Pending(o)' \subseteq Pending(o) /\ c \notin Pending(o)' /\ ~Filling(o)'
  BY <1>3, <1>6 DEF Pending, Filling
<1>10. Taken(o) \subseteq Taken(o)' /\ Taken(o)' \subseteq Taken(o) \cup {c}
       /\ c \in Taken(o)'
  BY <1>2, <1>5, <1>6 DEF Taken
<1>11. \A d \in Pending(o)' : orders[d].remaining > 0
  BY <1>1, <1>9 DEF Turn
<1>12. \A d \in visited'[o] : PricesMatch(orders[o], orders[d]) => d \in Taken(o)'
  BY <1>6, <1>10 DEF Turn
<1>13. \A d, e \in Taken(o)' :
         d = e \/ orders[d].remaining = 0 \/ orders[e].remaining = 0
  BY <1>7, <1>10
<1> QED
  BY <1>3, <1>8, <1>9, <1>11, <1>12, <1>13 DEF Turn

\* Every step keeps what is known of the turns.
LEMMA TurnStep == Inv /\ TradeInv /\ TurnInv /\ [Next]_vars => TradeInv' /\ TurnInv'
<1> SUFFICES ASSUME Inv, TradeInv, TurnInv, [Next]_vars
             PROVE  TradeInv' /\ TurnInv'
  OBVIOUS
<1>1. ASSUME NEW o \in Orders, CreateOrder(o) \/ Process(o)
      PROVE  TradeInv' /\ TurnInv'
  <2>1. TypeInv
    BY DEF Inv
  <2>2. TradeInv' /\ (Matching(o)' => Turn(o)')
    <3>1. CASE UNCHANGED <<visited, trades>> /\ ~Matching(o)'
      BY <1>1, <2>1, <3>1, TradesQuiet
    <3>2. CASE CreateOrder(o) \/ SaveOrder(o) \/ FinishMatching(o)
      <4>1. pc'[o] \in {"created", "saved", "done"} /\ UNCHANGED <<visited, trades>>
        BY <2>1, <3>2 DEF CreateOrder, SaveOrder, FinishMatching, request, output,
                          TypeInv, TypeOK
      <4> QED
        BY <3>1, <4>1 DEF Matching
    <3>3. CASE StartMatching(o)
      BY <3>3, TurnStartMatching
    <3>4. ASSUME Matching(o) PROVE Turn(o)
      BY <3>4 DEF TurnInv
    <3>5. CASE SkipCounter(o)
      BY <3>4, <3>5, TurnSkipCounter DEF SkipCounter, Matching
    <3>6. CASE FillIncoming(o)
      BY <3>4, <3>6, TurnFillIncoming DEF FillIncoming, Matching
    <3>7. CASE FillCounter(o)
      BY <3>4, <3>7, TurnFillCounter DEF FillCounter, Matching
    <3>8. CASE RecordTrade(o)
      BY <3>4, <3>8, TurnRecordTrade DEF RecordTrade, Matching
    <3> QED
      BY <1>1, <3>2, <3>3, <3>5, <3>6, <3>7, <3>8 DEF Process
  <2>3. ASSUME NEW x \in Orders, x # o, Matching(x)'
        PROVE  Turn(x)'
    <3>1. Matching(x)
      <4>1. pc'[x] = pc[x]
        BY <1>1, <2>1, <2>3
        DEF CreateOrder, Process, SaveOrder, StartMatching, SkipCounter,
            FillIncoming, FillCounter, RecordTrade, FinishMatching, TypeInv, TypeOK
      <4> QED
        BY <2>3, <4>1 DEF Matching
    <3>2. Elsewhere(x)
      BY <1>1, <2>3, <3>1, OthersTurn
    <3>3. x \in saved
      BY <2>1, <3>1 DEF Matching, TypeInv, TypeOK
    <3>4. TermsOf(x)' = TermsOf(x)
      BY <1>1, <2>1, <3>3, TermsStay
    <3> QED
      BY <3>1, <3>2, <3>4, TurnKept DEF TurnInv
  <2> QED
    BY <2>2, <2>3 DEF TurnInv
<1>2. CASE UNCHANGED vars
  <2>1. UNCHANGED <<pc, orders, saved, oppositeOrders, visited, counterOrder, fillQty,
                    trades>>
    BY <1>2 DEF vars
  <2>2. \A t, a, c : MadeBy(t, a, c)' <=> MadeBy(t, a, c)
    BY <2>1 DEF MadeBy
  <2>3. TradeInv'
    BY <2>1, <2>2 DEF TradeInv, Parties
  <2>4. \A o \in Orders : Pending(o)' = Pending(o) /\ Taken(o)' = Taken(o)
                         /\ (Filling(o)' <=> Filling(o)) /\ (Matching(o)' <=> Matching(o))
    BY <2>1 DEF Pending, Taken, Filling, Matching
  <2>5. \A o \in Orders : Turn(o) => Turn(o)'
    BY <2>1, <2>4 DEF Turn, Parties
  <2> QED
    BY <2>3, <2>4, <2>5 DEF TurnInv
<1> QED
  BY <1>1, <1>2 DEF Next, AllAnswered

-----------------------------------------------------------------------------
(* The turn of a request as one step of Exchange.                          *)

\* The trades that o's request has made so far.
Mine(o) == {t \in trades : o \in Parties(t) /\ visited[o] \cap Parties(t) # {}}

Placement == [o \in saved |-> TermsOf(o)]

Done == {o \in Orders : pc[o] = "done"}

SettledTrades == {t \in trades : Settled(t)}

Deals == {DealOf(t) : t \in SettledTrades}

LEMMA MineMadeBy ==
  ASSUME Inv, TradeInv, NEW o \in Orders, NEW t \in Mine(o)
  PROVE  \E c \in visited[o] : c \in oppositeOrders[o] /\ c \in saved /\ MadeBy(t, o, c)
<1>1. PICK a \in saved : \E b \in saved : MadeBy(t, a, b)
  BY DEF TradeInv, Mine
<1>2. PICK b \in saved : MadeBy(t, a, b)
  BY <1>1
<1>3. Parties(t) = {a, b} /\ b \in visited[a] /\ a \notin visited[b]
  BY <1>2 DEF MadeBy, Parties
<1>4. o \notin visited[o] /\ visited[o] \subseteq oppositeOrders[o]
  BY DEF Inv, ListInv
<1>5. o = a
  BY <1>3, <1>4 DEF Mine
<1> QED
  BY <1>2, <1>3, <1>4, <1>5

\* A trade is unsettled in the turn of one of its orders only.
LEMMA SettledOrMine ==
  ASSUME Inv, TradeInv, NEW o \in Orders, Matching(o), NEW t \in trades,
         NEW x \in Parties(t), orders[x].stock = orders[o].stock
  PROVE  Settled(t) <=> t \notin Mine(o)
<1>1. Settled(t) => t \notin Mine(o)
  BY DEF Settled, Mine, Parties
<1>2. ASSUME ~Settled(t) PROVE t \in Mine(o)
  <2>1. PICK p \in Orders : Matching(p) /\ t \in Mine(p)
    BY <1>2 DEF Settled, Mine, Parties
  <2>2. PICK c \in visited[p] : c \in oppositeOrders[p] /\ MadeBy(t, p, c)
    BY <2>1, MineMadeBy
  <2>3. Parties(t) = {p, c} /\ orders[c].stock = orders[p].stock
    BY <2>1, <2>2 DEF MadeBy, Parties, Inv, ListInv
  <2>4. p = o
    BY <2>1, <2>3, OneMatcher DEF Inv
  <2> QED
    BY <2>1, <2>4
<1> QED
  BY <1>1, <1>2

\* A step that settles nothing and places nothing is no step of Exchange.
LEMMA NothingSettled ==
  ASSUME TypeInv, NEW o \in Orders, Process(o) \/ CreateOrder(o),
         saved' = saved, Done' = Done, trades \subseteq trades',
         \A t \in trades' : Settled(t)' <=> t \in trades /\ Settled(t)
  PROVE  UNCHANGED <<Placement, Done, Deals>>
<1>1. Placement' = Placement
  BY TermsStay DEF Placement
<1>2. SettledTrades' = SettledTrades
  BY DEF SettledTrades
<1>3. Deals' = Deals
  BY <1>2 DEF Deals, DealOf
<1> QED
  BY <1>1, <1>3

LEMMA VisitsUntraded ==
  ASSUME Inv, TradeInv, NEW o \in Orders, Turn(o), SkipCounter(o) \/ RecordTrade(o)
  PROVE  \E c : /\ visited'[o] = visited[o] \cup {c}
                /\ \A x \in Orders \ {o} : visited'[x] = visited[x]
                /\ c # o /\ \A t \in trades : Parties(t) # {o, c}
<1>1. CASE SkipCounter(o)
  BY <1>1, SkipsUntraded DEF Inv, ListInv
<1>2. CASE RecordTrade(o)
  <2>1. PICK c : c = counterOrder[o]
    OBVIOUS
  <2>2. visited' = [visited EXCEPT ![o] = @ \cup {c}] /\ pc[o] = "filled"
    BY <1>2, <2>1 DEF RecordTrade
  <2>3. c # o
    BY <2>1, <2>2 DEF Inv, FillInv, ListInv, Pending
  <2> QED
    BY <2>1, <2>2, <2>3 DEF Turn, Filling, Inv, TypeInv, TypeOK
<1> QED
  BY <1>1, <1>2

\* Whether t was made in the turn of x, which is not over.
Unsettled(t, x) == Matching(x) /\ x \in Parties(t) /\ visited[x] \cap Parties(t) # {}

LEMMA SettledMeans == \A t : Settled(t) <=> \A x \in Orders : ~Unsettled(t, x)
BY DEF Settled, Unsettled, Parties

LEMMA SettledMeansNext == \A t : Settled(t)' <=> \A x \in Orders : ~Unsettled(t, x)'
BY DEF Settled, Unsettled, Parties

\* Within a turn no step settles a trade.
LEMMA SettlesNothing ==
  ASSUME Inv, TradeInv, TurnInv, NEW o \in Orders,
         \/ CreateOrder(o) \/ StartMatching(o) \/ SkipCounter(o)
         \/ FillIncoming(o) \/ FillCounter(o) \/ RecordTrade(o)
  PROVE  UNCHANGED <<Placement, Done, Deals>>
<1> USE DEF Inv, TypeInv, TypeOK
<1>1. saved' = saved /\ Done' = Done
  <2>1. saved' = saved
    BY DEF CreateOrder, StartMatching, SkipCounter, FillIncoming, FillCounter, RecordTrade
  <2>2. \A x \in Orders : pc'[x] = "done" <=> pc[x] = "done"
    <3>1. CASE CreateOrder(o) \/ StartMatching(o) \/ SkipCounter(o)
      BY <3>1 DEF CreateOrder, StartMatching, SkipCounter
    <3>2. CASE FillIncoming(o) \/ FillCounter(o)
      BY <3>2 DEF FillIncoming, FillCounter
    <3>3. CASE RecordTrade(o)
      BY <3>3 DEF RecordTrade
    <3> QED
      BY <3>1, <3>2, <3>3
  <2> QED
    BY <2>1, <2>2 DEF Done
<1>2. trades \subseteq trades' /\ \A t \in trades' : Settled(t)' <=> t \in trades /\ Settled(t)
  <2>1. ASSUME trades' = trades, \A t \in trades : \A x \in Orders :
                                   Unsettled(t, x)' <=> Unsettled(t, x)
        PROVE  \A t \in trades' : Settled(t)' <=> t \in trades /\ Settled(t)
    BY <2>1, SettledMeans, SettledMeansNext
  <2>2. CASE CreateOrder(o) \/ FillIncoming(o) \/ FillCounter(o)
    <3>1. UNCHANGED <<visited, trades>> /\ \A x \in Orders : Matching(x)' <=> Matching(x)
      BY <2>2 DEF CreateOrder, FillIncoming, FillCounter, request, output, Matching
    <3> QED
      BY <2>1, <3>1 DEF Unsettled, Parties
  <2>3. CASE StartMatching(o)
    <3>1. UNCHANGED <<visited, trades>> /\ visited[o] = {}
          /\ \A x \in Orders \ {o} : Matching(x)' <=> Matching(x)
      BY <2>3 DEF StartMatching, ListInv, output, Matching
    <3> QED
      BY <2>1, <3>1 DEF Unsettled, Parties
  <2>4. CASE SkipCounter(o) \/ RecordTrade(o)
    <3>1. Matching(o) /\ Turn(o) /\ \A x \in Orders : Matching(x)' <=> Matching(x)
      <4>1. CASE SkipCounter(o)
        BY <4>1 DEF SkipCounter, Matching, TurnInv
      <4>2. CASE RecordTrade(o)
        BY <4>2, RecordTradeFrame DEF Matching, TurnInv
      <4> QED
        BY <2>4, <4>1, <4>2
    <3>2. PICK c : /\ visited'[o] = visited[o] \cup {c}
                   /\ \A x \in Orders \ {o} : visited'[x] = visited[x]
                   /\ c # o /\ \A t \in trades : Parties(t) # {o, c}
      BY <2>4, <3>1, VisitsUntraded
    <3>3. \A t \in trades : o \in Parties(t) => c \notin Parties(t)
      BY <3>2 DEF Parties
    <3>4. \A t \in trades : \A x \in Orders : Unsettled(t, x)' <=> Unsettled(t, x)
      BY <3>1, <3>2, <3>3 DEF Unsettled, Parties
    <3>5. CASE SkipCounter(o)
      BY <2>1, <3>4, <3>5 DEF SkipCounter, output
    <3>6. CASE RecordTrade(o)
      <4>1. PICK trade : trades' = trades \cup {trade}
                         /\ {trade.buy, trade.sell} = {o, counterOrder[o]}
        BY <3>6, TradeRecorded
      <4>2. visited'[o] = visited[o] \cup {counterOrder[o]} /\ Matching(o)'
            /\ \A t \in trades : Parties(t) # {o, counterOrder[o]}
        BY <3>1, <3>6 DEF RecordTrade, Matching, Turn, Filling
      <4>3. Unsettled(trade, o)' /\ trade \notin trades
        BY <4>1, <4>2 DEF Unsettled, Parties
      <4>4. \A t \in trades : Settled(t)' <=> Settled(t)
        BY <3>4, SettledMeans, SettledMeansNext
      <4>5. ~Settled(trade)'
        BY <4>3, SettledMeansNext
      <4> QED
        BY <4>1, <4>3, <4>4, <4>5
    <3> QED
      BY <2>4, <3>5, <3>6
  <2> QED
    BY <2>2, <2>3, <2>4
       DEF CreateOrder, StartMatching, SkipCounter, FillIncoming, FillCounter, RecordTrade,
           output
<1> QED
  BY <1>1, <1>2, NothingSettled DEF Process

\* What an observer still counts for x while its stock is matched: what is left
\* of it and what the request in its turn has taken from it.
LEMMA LeftWithMine ==
  ASSUME Inv, LedgerInv, TradeInv, NEW o \in Orders, pc[o] = "matching",
         NEW x \in saved, orders[x].stock = orders[o].stock
  PROVE  /\ orders[x].quantity - Total({d \in Deals : x \in {d.buy, d.sell}})
              = orders[x].remaining + Total(Mine(o) \cap TradesOf(x))
         /\ Total(Mine(o) \cap TradesOf(x)) \in Nat
         /\ orders[x].remaining \in Nat
<1> USE DEF Inv
<1>1. x \in Orders /\ x \in Issued /\ orders[x] \in Order /\ Matching(o)
  BY DEF TypeInv, TypeOK, Issued, Matching
<1>2. InFlight(x) = 0
  <2>1. ~Filling(x)
    BY <1>1, OneMatcher DEF Filling, Matching
  <2>2. ASSUME NEW t \in Orders, Owes(t, x) PROVE FALSE
    <3>1. Matching(t) /\ x \in oppositeOrders[t] /\ t # o
      BY <2>2 DEF Owes, Matching, TypeInv
    <3>2. orders[t].stock = orders[x].stock
      BY <3>1 DEF ListInv
    <3> QED
      BY <1>1, <3>1, <3>2, OneMatcher
  <2> QED
    BY <1>1, <2>1, <2>2, FlightKnown DEF FlightInv
<1> DEFINE M == Mine(o) \cap TradesOf(x)
           S == {t \in TradesOf(x) : Settled(t)}
<1>3. IsFiniteSet(TradesOf(x)) /\ \A t \in TradesOf(x) : t.quantity \in Nat
  BY TradesOfFinite
<1>4. \A t \in TradesOf(x) : Settled(t) <=> t \notin Mine(o)
  BY <1>1, SettledOrMine DEF TradesOf, Parties
<1>5. M \cap S = {} /\ M \cup S = TradesOf(x)
  BY <1>4
<1>6. IsFiniteSet(M) /\ IsFiniteSet(S)
  BY <1>3, FS_Subset
<1>7. Total(TradesOf(x)) = Total(M) + Total(S)
  <2> HIDE DEF M, S
  <2>1. Total(M \cup S) = Total(M) + Total(S)
    BY <1>3, <1>5, <1>6, TotalUnion
  <2> QED
    BY <1>5, <2>1
<1>8. Total(M) \in Nat /\ Total(S) \in Nat
  <2>1. \A t \in M : t.quantity \in Nat
    BY <1>3
  <2>2. \A t \in S : t.quantity \in Nat
    BY <1>3
  <2> QED
    BY <1>6, <2>1, <2>2, TotalNat
<1>9. Total({d \in Deals : x \in {d.buy, d.sell}}) = Total(S)
  <2> DEFINE m == [t \in S |-> DealOf(t)]
  <2>1. \A t \in S : t.quantity \in Nat /\ m[t].quantity = t.quantity
    BY <1>3 DEF DealOf
  <2>2. \A t, u \in S : m[t] = m[u] => t = u
    <3> SUFFICES ASSUME NEW t \in S, NEW u \in S, m[t] = m[u] PROVE t = u
      OBVIOUS
    <3>1. t.buy = u.buy /\ t.sell = u.sell
      BY DEF DealOf
    <3> QED
      BY <3>1 DEF TradesOf, TradeInv, Parties
  <2>3. {d \in Deals : x \in {d.buy, d.sell}} = {m[t] : t \in S}
    <3>1. {d \in Deals : x \in {d.buy, d.sell}} \subseteq {m[t] : t \in S}
      <4> SUFFICES ASSUME NEW d \in Deals, x \in {d.buy, d.sell}
                   PROVE  d \in {m[t] : t \in S}
        OBVIOUS
      <4>1. PICK t \in trades : Settled(t) /\ d = DealOf(t)
        BY DEF Deals, SettledTrades
      <4>2. x \in {t.buy, t.sell}
        BY <4>1 DEF DealOf
      <4>3. t \in S
        BY <4>1, <4>2 DEF TradesOf
      <4> QED
        BY <4>1, <4>3
    <3>2. {m[t] : t \in S} \subseteq {d \in Deals : x \in {d.buy, d.sell}}
      <4> SUFFICES ASSUME NEW t \in S
                   PROVE  m[t] \in Deals /\ x \in {m[t].buy, m[t].sell}
        OBVIOUS
      <4>1. t \in SettledTrades /\ x \in {t.buy, t.sell}
        BY DEF TradesOf, SettledTrades
      <4> QED
        BY <4>1 DEF Deals, DealOf
    <3> QED
      BY <3>1, <3>2
  <2> HIDE DEF m, S
  <2>4. Total({m[t] : t \in S}) = Total(S)
    BY <1>6, <2>1, <2>2, TotalImage
  <2> QED
    BY <2>3, <2>4
<1>10. /\ orders[x].filled = Total(TradesOf(x))
       /\ orders[x].filled + orders[x].remaining = orders[x].quantity
       /\ orders[x].filled \in Nat /\ orders[x].remaining \in Nat
       /\ orders[x].quantity \in Nat
  <2>1. Total(TradesOf(x)) \in Nat
    BY <1>3, TotalNat
  <2>2. orders[x].filled \in Nat /\ orders[x].remaining \in Nat
        /\ orders[x].quantity \in Nat
    BY <1>1, PositiveInputs DEF Order
  <2> QED
    BY <1>1, <1>2, <2>1, <2>2 DEF LedgerInv, QuantityInv
<1> HIDE DEF M, S
<1>11. orders[x].quantity - Total(S) = orders[x].remaining + Total(M)
  BY <1>7, <1>8, <1>10
<1> QED
  BY <1>8, <1>9, <1>10, <1>11 DEF M

\* What an observer counts as left of x.
Left(x) == orders[x].quantity - Total({d \in Deals : x \in {d.buy, d.sell}})

\* The listed orders whose price matches, and what o's request traded with c.
Seen(o) == {c \in oppositeOrders[o] : PricesMatch(orders[o], orders[c])}

Part(o, c) == Total(Mine(o) \cap TradesOf(c))

LEMMA SeenLeft ==
  ASSUME Inv, LedgerInv, TradeInv, NEW o \in Orders, pc[o] = "matching",
         NEW c \in oppositeOrders[o]
  PROVE  /\ c \in saved /\ c # o /\ orders[c] \in Order
         /\ orders[c].stock = orders[o].stock /\ orders[c].side # orders[o].side
         /\ Left(c) = orders[c].remaining + Part(o, c)
         /\ orders[c].remaining \in Nat /\ Part(o, c) \in Nat
<1>1. c \in saved /\ orders[c] \in Order
  BY DEF Inv, TypeInv, TypeOK
<1>2. orders[c].stock = orders[o].stock /\ orders[c].side # orders[o].side
  BY DEF Inv, ListInv
<1> QED
  BY <1>1, <1>2, LeftWithMine DEF Left, Part

LEMMA OwnLeft ==
  ASSUME Inv, LedgerInv, TradeInv, NEW o \in Orders, pc[o] = "matching"
  PROVE  /\ o \in saved /\ orders[o] \in Order
         /\ Left(o) = orders[o].remaining + Total(Mine(o))
         /\ orders[o].remaining \in Nat /\ Total(Mine(o)) \in Nat
<1>1. o \in saved /\ orders[o] \in Order
  BY DEF Inv, TypeInv, TypeOK
<1>2. Mine(o) \cap TradesOf(o) = Mine(o)
  BY DEF Mine, TradesOf, Parties
<1> QED
  BY <1>1, <1>2, LeftWithMine DEF Left

\* The one trade of o's turn with an order it listed.
LEMMA OwnTrade ==
  ASSUME Inv, TradeInv, NEW o \in Orders, NEW t \in Mine(o),
         NEW c \in oppositeOrders[o], c \in Parties(t)
  PROVE  /\ c \in Taken(o) /\ MadeBy(t, o, c)
         /\ Mine(o) \cap TradesOf(c) = {t}
         /\ Part(o, c) = t.quantity /\ t.quantity \in Nat /\ t.quantity > 0
<1>1. PICK b \in visited[o] : MadeBy(t, o, b)
  BY MineMadeBy
<1>2. c # o
  BY DEF Inv, ListInv
<1>3. Parties(t) = {o, b} /\ b = c
  BY <1>1, <1>2 DEF MadeBy, Parties
<1>4. t \in trades /\ t.quantity \in Nat /\ t.quantity > 0
  BY DEF Mine, TradeInv, Inv, TypeInv, TypeOK, Trade
<1>5. c \in Taken(o)
  BY <1>1, <1>3, <1>4 DEF Taken, Parties
<1>6. Mine(o) \cap TradesOf(c) = {t}
  <2>1. ASSUME NEW u \in Mine(o) \cap TradesOf(c) PROVE u = t
    <3>1. u \in trades /\ Parties(u) = {o, c}
      BY <1>2 DEF Mine, TradesOf, Parties
    <3> QED
      BY <1>3, <1>4, <3>1 DEF TradeInv
  <2>2. t \in Mine(o) \cap TradesOf(c)
    BY <1>4 DEF TradesOf, Parties
  <2> QED
    BY <2>1, <2>2
<1>7. Total({t}) = t.quantity
  <2>1. IsFiniteSet({}) /\ {} \cup {t} = {t}
    BY FS_EmptySet
  <2>2. Total({} \cup {t}) = Total({}) + t.quantity
    BY <1>4, <2>1, TotalAdd
  <2> QED
    BY <1>4, <2>1, <2>2, TotalEmpty
<1> QED
  BY <1>1, <1>3, <1>4, <1>5, <1>6, <1>7 DEF Part

LEMMA PartOfTaken ==
  ASSUME Inv, TradeInv, NEW o \in Orders, NEW c \in oppositeOrders[o]
  PROVE  Part(o, c) # 0 <=> c \in Taken(o)
<1>1. ASSUME c \in Taken(o) PROVE Part(o, c) # 0
  <2>1. PICK t \in trades : Parties(t) = {o, c} /\ c \in visited[o]
    BY <1>1 DEF Taken, Parties
  <2>2. t \in Mine(o) /\ c \in Parties(t)
    BY <2>1 DEF Mine
  <2> QED
    BY <2>2, OwnTrade
<1>2. ASSUME c \notin Taken(o) PROVE Part(o, c) = 0
  <2>1. Mine(o) \cap TradesOf(c) = {}
    <3> SUFFICES ASSUME NEW t \in Mine(o), c \in Parties(t) PROVE FALSE
      BY DEF TradesOf, Parties
    <3> QED
      BY <1>2, OwnTrade
  <2> QED
    BY <2>1, TotalEmpty DEF Part
<1> QED
  BY <1>1, <1>2

\* The parts add up to all that o's request has traded.
LEMMA PartsAddUp ==
  ASSUME Inv, LedgerInv, TradeInv, IsFiniteSet(saved), NEW o \in Orders, NEW alloc,
         \A c \in Seen(o) : alloc[c] = Part(o, c)
  PROVE  SumFunctionOnSet(alloc, Seen(o)) = Total(Mine(o))
<1> DEFINE M == [c \in Seen(o) |-> Mine(o) \cap TradesOf(c)]
<1>1. IsFiniteSet(Seen(o))
  <2>1. Seen(o) \subseteq saved
    BY DEF Seen, Inv, TypeInv, TypeOK
  <2> QED
    BY <2>1, FS_Subset
<1>2. IsFiniteSet(trades) /\ \A t \in trades : t.quantity \in Nat
  BY DEF LedgerInv, Inv, TypeInv, TypeOK, Trade
<1>3. \A c \in Seen(o) : M[c] \subseteq trades /\ alloc[c] = Total(M[c])
  BY DEF Part, Mine
<1>4. \A c \in Seen(o) : c # o
  BY DEF Seen, Inv, ListInv
<1>5. \A c, d \in Seen(o) : c # d => M[c] \cap M[d] = {}
  BY <1>4 DEF Mine, TradesOf, Parties
<1>6. UNION {M[c] : c \in Seen(o)} = Mine(o)
  <2>1. ASSUME NEW t \in Mine(o) PROVE \E c \in Seen(o) : t \in M[c]
    <3>1. PICK c \in visited[o] : c \in oppositeOrders[o] /\ MadeBy(t, o, c)
      BY MineMadeBy
    <3>2. c \in Seen(o)
      BY <3>1 DEF Seen, MadeBy
    <3>3. t \in TradesOf(c)
      BY <3>1 DEF MadeBy, TradesOf, Mine
    <3> QED
      BY <3>2, <3>3
  <2> QED
    BY <2>1
<1> HIDE DEF M
<1>7. SumFunctionOnSet(alloc, Seen(o)) = Total(UNION {M[c] : c \in Seen(o)})
  BY <1>1, <1>2, <1>3, <1>5, TotalOfParts
<1> QED
  BY <1>6, <1>7

\* When the loop ends, the parts are a way to fill o from what it has seen.
LEMMA PartsFill ==
  ASSUME StepInv, IsFiniteSet(saved), NEW o \in Orders, pc[o] = "matching",
         Pending(o) = {} \/ orders[o].remaining = 0,
         NEW alloc, \A c \in Seen(o) : alloc[c] = Part(o, c),
         NEW left, \A c \in Seen(o) : left[c] = Left(c)
  PROVE  /\ \A c \in Seen(o) : alloc[c] \in 0 .. Left(o) /\ alloc[c] <= Left(c)
         /\ SumFunctionOnSet(alloc, Seen(o)) =
              IF Left(o) <= SumFunctionOnSet(left, Seen(o))
              THEN Left(o) ELSE SumFunctionOnSet(left, Seen(o))
<1> USE DEF StepInv
<1>1. IsFiniteSet(Seen(o)) /\ Seen(o) \subseteq oppositeOrders[o]
  <2>1. Seen(o) \subseteq saved /\ Seen(o) \subseteq oppositeOrders[o]
    BY DEF Seen, Inv, TypeInv, TypeOK
  <2> QED
    BY <2>1, FS_Subset
<1>2. /\ Left(o) = orders[o].remaining + Total(Mine(o))
      /\ orders[o].remaining \in Nat /\ Total(Mine(o)) \in Nat
  BY OwnLeft
<1>3. \A c \in Seen(o) :
        /\ left[c] = orders[c].remaining + alloc[c]
        /\ orders[c].remaining \in Nat /\ alloc[c] \in Nat
  BY <1>1, SeenLeft
<1>4. SumFunctionOnSet(alloc, Seen(o)) = Total(Mine(o))
  BY PartsAddUp
<1>5. \A c \in Seen(o) : left[c] \in Nat /\ alloc[c] <= left[c]
  BY <1>3
<1>6. /\ SumFunctionOnSet(left, Seen(o)) \in Nat
      /\ SumFunctionOnSet(alloc, Seen(o)) <= SumFunctionOnSet(left, Seen(o))
  <2>1. SumFunctionOnSet(left, Seen(o)) \in Nat
    BY <1>1, <1>5, SumNat
  <2>2. \A c \in Seen(o) : alloc[c] \in Int /\ left[c] \in Int /\ alloc[c] <= left[c]
    BY <1>3, <1>5
  <2>3. SumFunctionOnSet(alloc, Seen(o)) <= SumFunctionOnSet(left, Seen(o))
    BY <1>1, <2>2, SumMonotone
  <2> QED
    BY <2>1, <2>3
<1>7. \A c \in Seen(o) : alloc[c] <= Total(Mine(o))
  <2> SUFFICES ASSUME NEW c \in Seen(o) PROVE alloc[c] <= Total(Mine(o))
    OBVIOUS
  <2>1. alloc[c] \in Int
    BY <1>3
  <2>2. SumFunctionOnSet(alloc, {c}) = alloc[c]
    BY <2>1, SumOne
  <2>3. {c} \in SUBSET Seen(o) /\ \A x \in Seen(o) : alloc[x] \in Nat
    BY <1>3
  <2>4. SumFunctionOnSet(alloc, {c}) <= SumFunctionOnSet(alloc, Seen(o))
    BY <1>1, <2>3, SumSubset
  <2> QED
    BY <1>4, <2>2, <2>4
<1>8. \A c \in Seen(o) : alloc[c] \in 0 .. Left(o) /\ alloc[c] <= Left(c)
  BY <1>2, <1>3, <1>5, <1>7
<1>9. CASE orders[o].remaining = 0
  BY <1>2, <1>4, <1>6, <1>8, <1>9
<1>10. CASE orders[o].remaining # 0
  <2>1. \A c \in Seen(o) : orders[c].remaining = 0
    <3> SUFFICES ASSUME NEW c \in Seen(o) PROVE orders[c].remaining = 0
      OBVIOUS
    <3>1. c \in visited[o]
      BY <1>1, <1>10 DEF Pending
    <3> QED
      BY <1>10, <3>1 DEF Seen, Inv, VisitInv
  <2>2. \A c \in Seen(o) : alloc[c] = left[c]
    BY <1>3, <2>1
  <2>3. SumFunctionOnSet(alloc, Seen(o)) = SumFunctionOnSet(left, Seen(o))
    BY <1>1, <2>2, SumSame
  <2> QED
    BY <1>2, <1>4, <1>8, <1>10, <2>3
<1> QED
  BY <1>9, <1>10

\* Oldest first, and at most one in part.
LEMMA PartsInOrder ==
  ASSUME StepInv, NEW o \in Orders, pc[o] = "matching",
         NEW alloc, \A c \in Seen(o) : alloc[c] = Part(o, c)
  PROVE  /\ \A c, d \in Seen(o) :
              orders[c].createdAt < orders[d].createdAt /\ alloc[d] > 0
                => alloc[c] = Left(c)
         /\ Cardinality({c \in Seen(o) : alloc[c] \in 1 .. (Left(c) - 1)}) <= 1
<1> USE DEF StepInv
<1>1. \A c \in Seen(o) :
        /\ c \in oppositeOrders[o] /\ PricesMatch(orders[o], orders[c])
        /\ Left(c) = orders[c].remaining + alloc[c]
        /\ orders[c].remaining \in Nat /\ alloc[c] \in Nat
        /\ alloc[c] # 0 <=> c \in Taken(o)
  <2> SUFFICES ASSUME NEW c \in Seen(o)
               PROVE  /\ c \in oppositeOrders[o] /\ PricesMatch(orders[o], orders[c])
                      /\ Left(c) = orders[c].remaining + alloc[c]
                      /\ orders[c].remaining \in Nat /\ alloc[c] \in Nat
                      /\ alloc[c] # 0 <=> c \in Taken(o)
    OBVIOUS
  <2>1. c \in oppositeOrders[o] /\ PricesMatch(orders[o], orders[c])
    BY DEF Seen
  <2>2. alloc[c] # 0 <=> c \in Taken(o)
    BY <2>1, PartOfTaken
  <2> QED
    BY <2>1, <2>2, SeenLeft
<1>2. ASSUME NEW c \in Seen(o), NEW d \in Seen(o),
             orders[c].createdAt < orders[d].createdAt, alloc[d] > 0
      PROVE  alloc[c] = Left(c)
  <2>1. d \in Taking(o)
    BY <1>1, <1>2 DEF Taking
  <2>2. orders[c].remaining = 0
    BY <1>1, <1>2, <2>1 DEF Inv, PriorityInv
  <2> QED
    BY <1>1, <2>2
<1>3. Cardinality({c \in Seen(o) : alloc[c] \in 1 .. (Left(c) - 1)}) <= 1
  <2> DEFINE P == {c \in Seen(o) : alloc[c] \in 1 .. (Left(c) - 1)}
  <2>1. \A c \in P : c \in Taken(o) /\ orders[c].remaining # 0
    BY <1>1
  <2>2. Turn(o)
    BY DEF TurnInv, Matching
  <2>3. \A c, d \in P : c = d
    BY <2>1, <2>2 DEF Turn
  <2> HIDE DEF P
  <2>4. Cardinality(P) <= 1
    <3>1. CASE P = {}
      <4>1. Cardinality(P) = 0
        BY <3>1, FS_EmptySet
      <4> QED
        BY <4>1
    <3>2. CASE P # {}
      <4>1. PICK c : P = {c}
        BY <2>3, <3>2
      <4>2. Cardinality({c}) = 1
        BY FS_Singleton
      <4>3. Cardinality(P) = 1
        BY <4>1, <4>2
      <4> QED
        BY <4>3
    <3> QED
      BY <3>1, <3>2
  <2> QED
    BY <2>4 DEF P
<1> QED
  BY <1>2, <1>3

\* o sees rivals only, and misses none that had its turn.
LEMMA SeenRivals ==
  ASSUME StepInv, NEW o \in Orders, pc[o] = "matching"
  PROVE  /\ \A c \in Seen(o) : c \in saved /\ Crossing(o, c) /\ Left(c) > 0
         /\ \A c \in saved : pc[c] = "done" /\ Crossing(o, c) /\ Left(c) > 0 => c \in Seen(o)
<1> USE DEF StepInv
<1>1. ASSUME NEW c \in Seen(o) PROVE c \in saved /\ Crossing(o, c) /\ Left(c) > 0
  <2>1. c \in oppositeOrders[o] /\ PricesMatch(orders[o], orders[c])
    BY DEF Seen
  <2>2. c \in saved /\ Crossing(o, c)
    BY <2>1, SeenLeft DEF Crossing
  <2>3. orders[c].remaining > 0 \/ Part(o, c) # 0
    <3>1. Turn(o)
      BY DEF TurnInv, Matching
    <3>2. CASE c \in visited[o]
      BY <2>1, <3>1, <3>2, PartOfTaken DEF Turn
    <3>3. CASE c \notin visited[o]
      BY <2>1, <3>1, <3>3 DEF Turn, Pending
    <3> QED
      BY <3>2, <3>3
  <2> QED
    BY <2>1, <2>2, <2>3, SeenLeft
<1>2. ASSUME NEW c \in saved, pc[c] = "done", Crossing(o, c), Left(c) > 0
      PROVE  c \in Seen(o)
  <2>1. orders[c].stock = orders[o].stock /\ PricesMatch(orders[o], orders[c]) /\ c # o
    BY <1>2 DEF Crossing
  <2>2. /\ Left(c) = orders[c].remaining + Part(o, c)
        /\ orders[c].remaining \in Nat /\ Part(o, c) \in Nat
    BY <2>1, LeftWithMine DEF Left, Part
  <2>3. CASE orders[c].remaining > 0
    <3>1. c \in Orders
      BY DEF Inv, TypeInv, TypeOK
    <3> QED
      BY <1>2, <2>1, <2>3, <3>1 DEF Inv, OfferInv, Matching, Seen
  <2>4. CASE Part(o, c) > 0
    <3>1. Mine(o) \cap TradesOf(c) # {}
      BY <2>4, TotalEmpty DEF Part
    <3>2. PICK t \in Mine(o) : c \in Parties(t)
      BY <3>1 DEF TradesOf, Parties
    <3>3. PICK b \in visited[o] : b \in oppositeOrders[o] /\ MadeBy(t, o, b)
      BY <3>2, MineMadeBy
    <3>4. b = c
      BY <2>1, <3>2, <3>3 DEF MadeBy, Parties
    <3> QED
      BY <2>1, <3>3, <3>4 DEF Seen
  <2> QED
    BY <1>2, <2>2, <2>3, <2>4
<1> QED
  BY <1>1, <1>2

-----------------------------------------------------------------------------
(* The steps of Exchange.                                                  *)

LEMMA SameSums ==
  /\ \A f : Atomic!SumFunction(f) = SumFunction(f)
  /\ \A f, S : Atomic!SumFunctionOnSet(f, S) = SumFunctionOnSet(f, S)
<1>1. \A f, S : Atomic!SumFunctionOnSet(f, S) = SumFunctionOnSet(f, S)
  BY DEF Atomic!SumFunctionOnSet, SumFunctionOnSet, Atomic!FoldFunctionOnSet,
         FoldFunctionOnSet, MapThenFoldSet, Atomic!MapThenFoldSet
<1>2. \A f : Atomic!SumFunction(f) = SumFunction(f)
  BY <1>1 DEF Atomic!SumFunction, SumFunction
<1> QED
  BY <1>1, <1>2

LEMMA SameLeft ==
  ASSUME NEW x \in saved
  PROVE  Atomic!Left(x) = Left(x)
<1>1. [o \in saved |-> TermsOf(o)][x].quantity = orders[x].quantity
  BY DEF TermsOf
<1>2. {d \in {DealOf(t) : t \in {u \in trades : Settled(u)}} : x \in {d.buy, d.sell}}
        = {d \in Deals : x \in {d.buy, d.sell}}
  BY DEF Deals, SettledTrades
<1> QED
  BY <1>1, <1>2, SameSums DEF Atomic!Left, Left, Total

LEMMA SameRivals ==
  ASSUME TypeInv, NEW o \in saved
  PROVE  Atomic!Rivals(o) = {c \in saved : Crossing(o, c) /\ Left(c) > 0}
<1>1. \A x \in saved : [p \in saved |-> TermsOf(p)][x] = TermsOf(x)
  OBVIOUS
<1>2. \A c \in saved : Atomic!PricesMatch(TermsOf(o), TermsOf(c))
                         <=> PricesMatch(orders[o], orders[c])
  BY DEF Atomic!PricesMatch, PricesMatch, TermsOf
<1>3. Atomic!Placed = saved
  BY DEF Atomic!Placed
<1> QED
  BY <1>1, <1>2, <1>3, SameLeft DEF Atomic!Rivals, Crossing, TermsOf

\* Saving an order places it.
LEMMA SaveOrderPlaces ==
  ASSUME Inv, NEW o \in Orders, SaveOrder(o)
  PROVE  Atomic!Place(o)
<1> USE DEF Inv, TypeInv, TypeOK
<1>1. /\ pc[o] = "created" /\ o \notin saved /\ saved' = saved \cup {o}
      /\ pc' = [pc EXCEPT ![o] = "saved"]
      /\ UNCHANGED <<orders, visited, trades>>
  BY DEF SaveOrder, request, output
<1>2. /\ Placement' = [x \in saved \cup {o} |-> TermsOf(x)]
      /\ DOMAIN Placement = saved
  BY <1>1 DEF Placement, TermsOf
<1>3. TermsOf(o) \in Atomic!Terms
  <2>1. orders[o] \in Order
    BY <1>1
  <2> QED
    BY <2>1 DEF TermsOf, Order, Atomic!Terms, Sides, Atomic!Sides
<1>4. Done' = Done
  BY <1>1 DEF Done
<1>5. Deals' = Deals
  <2>1. \A x \in Orders : Matching(x)' <=> Matching(x)
    BY <1>1 DEF Matching
  <2>2. \A t : Settled(t)' <=> Settled(t)
    BY <1>1, <2>1, SettledMeans, SettledMeansNext DEF Unsettled, Parties
  <2> QED
    BY <1>1, <2>2 DEF Deals, SettledTrades, DealOf
<1> QED
  BY <1>1, <1>2, <1>3, <1>4, <1>5
  DEF Atomic!Place, Atomic!Placed, Placement, Done, Deals, SettledTrades

\* The end of a turn settles its trades: together they are one step of Exchange.
LEMMA FinishSettlesMine ==
  ASSUME Inv, TradeInv, NEW o \in Orders, FinishMatching(o)
  PROVE  /\ Placement' = Placement /\ Done' = Done \cup {o}
         /\ Deals' = Deals \cup {DealOf(t) : t \in Mine(o)}
<1> USE DEF Inv, TypeInv, TypeOK
<1>1. /\ pc[o] = "matching" /\ pc' = [pc EXCEPT ![o] = "done"]
      /\ UNCHANGED <<orders, saved, visited, trades>>
  BY DEF FinishMatching, request
<1>2. Placement' = Placement
  BY <1>1 DEF Placement, TermsOf
<1>3. Done' = Done \cup {o}
  BY <1>1 DEF Done
<1>4. ~Matching(o)' /\ \A x \in Orders \ {o} : Matching(x)' <=> Matching(x)
  BY <1>1 DEF Matching
<1>5. ASSUME NEW t \in trades PROVE Settled(t)' <=> Settled(t) \/ t \in Mine(o)
  <2>1. \A x \in Orders \ {o} : Unsettled(t, x)' <=> Unsettled(t, x)
    BY <1>1, <1>4 DEF Unsettled, Parties
  <2>2. ~Unsettled(t, o)'
    BY <1>4 DEF Unsettled
  <2>3. Unsettled(t, o) <=> t \in Mine(o)
    BY <1>1 DEF Unsettled, Mine, Matching
  <2>4. ASSUME t \in Mine(o), NEW x \in Orders \ {o}
        PROVE  ~Unsettled(t, x)
    <3>1. ASSUME Unsettled(t, x) PROVE FALSE
      <4>1. Matching(x) /\ Matching(o) /\ t \in Mine(x)
        BY <1>1, <3>1 DEF Unsettled, Mine, Matching
      <4>2. PICK b \in visited[o] : b \in oppositeOrders[o] /\ MadeBy(t, o, b)
        BY <2>4, MineMadeBy
      <4>3. Parties(t) = {o, b} /\ orders[b].stock = orders[o].stock
        BY <4>2 DEF MadeBy, Parties, ListInv
      <4>4. x = b
        BY <2>4, <3>1, <4>3 DEF Unsettled
      <4> QED
        BY <2>4, <4>1, <4>3, <4>4, OneMatcher
    <3> QED
      BY <3>1
  <2> QED
    BY <2>1, <2>2, <2>3, <2>4, SettledMeans, SettledMeansNext
<1>6. SettledTrades' = SettledTrades \cup Mine(o)
  BY <1>1, <1>5 DEF SettledTrades, Mine
<1>7. Deals' = Deals \cup {DealOf(t) : t \in Mine(o)}
  BY <1>6 DEF Deals, DealOf
<1> QED
  BY <1>2, <1>3, <1>7

\* The deals of the turn of o: one with each order it took a part of.
LEMMA MineDeals ==
  ASSUME Inv, LedgerInv, TradeInv, NEW o \in Orders, pc[o] = "matching",
         NEW alloc, \A c \in Seen(o) : alloc[c] = Part(o, c)
  PROVE  {DealOf(t) : t \in Mine(o)}
           = {Atomic!Deal(o, c, alloc[c]) : c \in {d \in Seen(o) : alloc[d] > 0}}
<1>1. o \in saved
  BY DEF Inv, TypeInv, TypeOK
<1>2. ASSUME NEW t \in Mine(o), NEW c \in Seen(o), c \in Parties(t)
      PROVE  alloc[c] > 0 /\ DealOf(t) = Atomic!Deal(o, c, alloc[c])
  <2>1. c \in oppositeOrders[o] /\ c \in saved
    BY DEF Seen, Inv, TypeInv, TypeOK
  <2>2. MadeBy(t, o, c) /\ alloc[c] = t.quantity /\ t.quantity > 0
    BY <1>2, <2>1, OwnTrade
  <2>3. /\ [x \in saved |-> TermsOf(x)][o].side = orders[o].side
        /\ [x \in saved |-> TermsOf(x)][c].price = orders[c].price
    BY <1>1, <2>1 DEF TermsOf
  <2> QED
    BY <2>2, <2>3 DEF MadeBy, DealOf, Atomic!Deal
<1>3. ASSUME NEW t \in Mine(o) PROVE \E c \in Seen(o) : c \in Parties(t)
  <2>1. PICK c \in visited[o] : c \in oppositeOrders[o] /\ MadeBy(t, o, c)
    BY MineMadeBy
  <2> QED
    BY <2>1 DEF MadeBy, Seen, Parties
<1>4. ASSUME NEW c \in Seen(o), alloc[c] > 0 PROVE \E t \in Mine(o) : c \in Parties(t)
  <2>1. Part(o, c) > 0
    BY <1>4
  <2>2. Mine(o) \cap TradesOf(c) # {}
    BY <2>1, TotalEmpty DEF Part
  <2> QED
    BY <2>2 DEF TradesOf, Parties
<1> QED
  BY <1>2, <1>3, <1>4

LEMMA FinishMatches ==
  ASSUME StepInv, IsFiniteSet(saved), NEW o \in Orders, FinishMatching(o)
  PROVE  Atomic!Match(o)
<1>1. /\ pc[o] = "matching" /\ o \in saved /\ TypeInv /\ saved \subseteq Orders
      /\ Pending(o) = {} \/ orders[o].remaining = 0
  BY DEF FinishMatching, StepInv, Inv, TypeInv, TypeOK
<1> DEFINE seen == Seen(o)
           alloc == [c \in seen |-> Part(o, c)]
           left == [c \in seen |-> Left(c)]
<1>2. seen \subseteq saved
  BY DEF Seen, StepInv, Inv, TypeInv, TypeOK
<1>3. (\A c \in seen : alloc[c] = Part(o, c)) /\ \A c \in seen : left[c] = Left(c)
  OBVIOUS
<1>4. alloc \in [seen -> 0 .. Atomic!Left(o)]
  <2>1. \A c \in seen : alloc[c] \in 0 .. Left(o)
    BY <1>1, <1>3, PartsFill
  <2> QED
    BY <1>1, <2>1, SameLeft
<1>5. Atomic!FifoAllocation(o, seen, alloc)
  <2>1. \A c \in seen : Atomic!Left(c) = Left(c)
    BY <1>2, SameLeft
  <2>2. \A c \in seen : [x \in saved |-> TermsOf(x)][c].createdAt = orders[c].createdAt
    BY <1>2 DEF TermsOf
  <2>3. [c \in seen |-> Atomic!Left(c)] = left
    BY <2>1
  <2>4. SumFunction(left) = SumFunctionOnSet(left, seen)
    BY DEF SumFunction
  <2> HIDE DEF alloc, left, seen
  <2>5. \A c \in seen : alloc[c] <= Left(c)
    BY <1>1, <1>3, PartsFill DEF seen
  <2>6. SumFunctionOnSet(alloc, seen) =
          IF Left(o) <= SumFunctionOnSet(left, seen)
          THEN Left(o) ELSE SumFunctionOnSet(left, seen)
    BY <1>1, <1>3, PartsFill DEF seen
  <2>7. \A c, d \in seen : orders[c].createdAt < orders[d].createdAt /\ alloc[d] > 0
                             => alloc[c] = Left(c)
    BY <1>1, <1>3, PartsInOrder DEF seen
  <2>8. Cardinality({c \in seen : alloc[c] \in 1 .. (Left(c) - 1)}) <= 1
    BY <1>1, <1>3, PartsInOrder DEF seen
  <2>9. {c \in seen : alloc[c] \in 1 .. (Atomic!Left(c) - 1)}
          = {c \in seen : alloc[c] \in 1 .. (Left(c) - 1)}
    BY <2>1
  <2>10. Atomic!Left(o) = Left(o)
    BY <1>1, SameLeft
  <2>11. \A c \in seen : alloc[c] <= Atomic!Left(c)
    BY <2>1, <2>5
  <2>12. Atomic!SumFunctionOnSet(alloc, seen) =
           IF Atomic!Left(o) <= Atomic!SumFunction([c \in seen |-> Atomic!Left(c)])
           THEN Atomic!Left(o) ELSE Atomic!SumFunction([c \in seen |-> Atomic!Left(c)])
    BY <2>3, <2>4, <2>6, <2>10, SameSums
  <2>13. \A c, d \in seen :
           /\ [x \in saved |-> TermsOf(x)][c].createdAt
                < [x \in saved |-> TermsOf(x)][d].createdAt
           /\ alloc[d] > 0
           => alloc[c] = Atomic!Left(c)
    BY <2>1, <2>2, <2>7
  <2>14. Atomic!Cardinality({c \in seen : alloc[c] \in 1 .. (Atomic!Left(c) - 1)}) <= 1
    <3>1. \A S : Atomic!Cardinality(S) = Cardinality(S)
      BY DEF Atomic!Cardinality, Cardinality
    <3> QED
      BY <2>8, <2>9, <3>1
  <2> QED
    BY <2>11, <2>12, <2>13, <2>14 DEF Atomic!FifoAllocation
<1>6. seen \in SUBSET Atomic!Rivals(o) /\ Atomic!Rivals(o) \cap Done \subseteq seen
  <2>1. \A c \in seen : c \in saved /\ Crossing(o, c) /\ Left(c) > 0
    BY <1>1, SeenRivals
  <2>2. \A c \in saved : pc[c] = "done" /\ Crossing(o, c) /\ Left(c) > 0 => c \in seen
    BY <1>1, SeenRivals
  <2>3. Atomic!Rivals(o) = {c \in saved : Crossing(o, c) /\ Left(c) > 0}
    BY <1>1, SameRivals
  <2> HIDE DEF seen
  <2> QED
    BY <2>1, <2>2, <2>3 DEF Done
<1>7. /\ Placement' = Placement /\ Done' = Done \cup {o}
      /\ Deals' = Deals \cup {DealOf(t) : t \in Mine(o)}
  BY FinishSettlesMine DEF StepInv
<1>8. {DealOf(t) : t \in Mine(o)}
        = {Atomic!Deal(o, c, alloc[c]) : c \in {d \in seen : alloc[d] > 0}}
  BY <1>1, <1>3, MineDeals DEF StepInv
<1>9. o \in Atomic!Placed \ Done
  BY <1>1 DEF Atomic!Placed, Done
<1> HIDE DEF seen, alloc, left
<1> QED
  BY <1>4, <1>5, <1>6, <1>7, <1>8, <1>9
  DEF Atomic!Match, Placement, Done, Deals, SettledTrades

\* Every step of the program is a step of Exchange or none.
LEMMA StepImplements ==
  StepInv /\ EventInv /\ [Next]_vars => [Atomic!Next]_Atomic!vars
<1> SUFFICES ASSUME StepInv, EventInv, [Next]_vars
             PROVE  [Atomic!Next]_Atomic!vars
  OBVIOUS
<1>1. UNCHANGED <<Placement, Done, Deals>> => UNCHANGED Atomic!vars
  BY DEF Atomic!vars, Placement, Done, Deals, SettledTrades
<1>2. ASSUME NEW o \in Orders, CreateOrder(o) \/ Process(o)
      PROVE  Atomic!Place(o) \/ Atomic!Match(o) \/ UNCHANGED <<Placement, Done, Deals>>
  <2>1. CASE SaveOrder(o)
    BY <2>1, SaveOrderPlaces DEF StepInv
  <2>2. CASE FinishMatching(o)
    BY <2>2, FinishMatches DEF EventInv
  <2>3. CASE \/ CreateOrder(o) \/ StartMatching(o) \/ SkipCounter(o)
             \/ FillIncoming(o) \/ FillCounter(o) \/ RecordTrade(o)
    BY <2>3, SettlesNothing DEF StepInv
  <2> QED
    BY <1>2, <2>1, <2>2, <2>3 DEF Process
<1>3. CASE UNCHANGED vars
  <2>1. UNCHANGED <<pc, orders, saved, visited, trades>>
    BY <1>3 DEF vars
  <2>2. UNCHANGED <<Placement, Done, Deals>>
    BY <2>1 DEF Placement, TermsOf, Done, Deals, SettledTrades, DealOf, Settled, Matching
  <2> QED
    BY <1>1, <2>2
<1> QED
  BY <1>1, <1>2, <1>3 DEF Next, AllAnswered, Atomic!Next

\* What is known of the turns holds throughout.
THEOREM TurnsInvariance == Spec => [](TradeInv /\ TurnInv)
BY TurnInit, TurnStep, Invariance, PTL DEF Spec

\* The engine implements Exchange: although the trades, fills and events of a
\* request are steps of their own, and other requests are saved between them,
\* each one matches as if at once, with the oldest orders of the other side at
\* a price it accepts first, and is left with what none of them could give.
THEOREM ImplementsExchange == Spec => MatchesAtomically
<1>1. Init => Atomic!Init
  BY DEF Init, Atomic!Init
<1>2. Spec => []StepInv
  BY TurnsInvariance, LedgerBalances, Invariance, PTL DEF StepInv
<1>3. Spec => []EventInv
  BY EventsInvariance, PTL
<1> QED
  BY <1>1, <1>2, <1>3, StepImplements, PTL DEF Spec, MatchesAtomically, Atomic!Spec
=============================================================================
