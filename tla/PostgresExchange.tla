-------------------------- MODULE PostgresExchange --------------------------
(***************************************************************************)
(* The same order handler and matching engine over the Postgres            *)
(* repositories (POSTGRES_ENABLED=true).  Every repository call is a       *)
(* statement of its own, none shares a transaction with another, and every *)
(* one can fail, before it took effect or after.  A query makes new order  *)
(* objects: the order a request holds and the copies it lists are its own, *)
(* and are told apart from the rows they came from.                        *)
(*                                                                         *)
(* The process can crash; the ID counters start again at 0 when it does,   *)
(* and the tables stay.  The market data, kept in memory here too, and the *)
(* events are left out: they are not as in MatchingEngine, since a trade   *)
(* that cannot be saved has neither and the events of an order tell what   *)
(* the request's own object of it holds.  Stocks are codes that fit their  *)
(* column; a longer one fails like any call that has no effect.            *)
(***************************************************************************)
EXTENDS Orders, FiniteSets, Functions

CONSTANTS
  Requests,      \* the accepted POST /api/orders requests
  Nil,
  MaxFaults      \* how many calls may fail and crashes come in a behaviour

ASSUME FiniteRequests == IsFiniteSet(Requests)
ASSUME Bounds == MaxFaults \in Nat
ASSUME NilIsNothing == Nil \notin Requests /\ Nil \notin Order

VARIABLES
  pc,            \* where each request's goroutine is
  clock,         \* the last value time.Now returned to NewOrder
  orderSeq,      \* the order ID counter
  tradeSeq,      \* the trade ID counter
  id,            \* the ID each request drew
  order,         \* the order object of each request
  listed,        \* its copies of the resting orders, by ID
  visited,       \* how much of the list its loop is done with
  counterOrder,  \* the ID of the loop's current order
  fillQty,       \* and the quantity traded with it
  stockMu,       \* which request holds the mutex of a stock, or Nil
  orderRows,     \* the orders table
  tradeRows,     \* the trades table
  overwritten,   \* history: the IDs whose row a fault or a race has left
                 \* behind the objects of its order
  unrecorded,    \* history: the IDs of fills that no trade tells of
  faults         \* history: failed calls and crashes

local == <<listed, visited, counterOrder, fillQty>>
tables == <<orderRows, tradeRows>>
counters == <<clock, orderSeq, tradeSeq>>
history == <<overwritten, unrecorded, faults>>
vars == <<pc, counters, id, order, local, stockMu, tables, history>>

IDs == 1 .. Cardinality(Requests)

Init ==
  /\ pc = [r \in Requests |-> "idle"]
  /\ clock = 0 /\ orderSeq = 0 /\ tradeSeq = 0
  /\ id = [r \in Requests |-> 0]
  /\ order = [r \in Requests |-> Nil]
  /\ listed = [r \in Requests |-> <<>>]
  /\ visited = [r \in Requests |-> {}]
  /\ counterOrder = [r \in Requests |-> 0]
  /\ fillQty = [r \in Requests |-> 0]
  /\ stockMu = [s \in Stocks |-> Nil]
  /\ orderRows = [i \in IDs |-> Nil]
  /\ tradeRows = {}
  /\ overwritten = {} /\ unrecorded = {}
  /\ faults = 0

-----------------------------------------------------------------------------
(* The repositories.                                                       *)

\* A call to the database takes effect or not, and reports success or an
\* error.  A success has taken effect; an error says nothing, since the
\* connection may be lost after the commit.
Outcomes ==
  {o \in [done : BOOLEAN, ok : BOOLEAN] :
     /\ o.ok => o.done
     /\ o.ok \/ faults < MaxFaults}

\* What is remembered of a call that has left the rows in ids behind.
Remember(outcome, ids) ==
  /\ faults' = IF outcome.ok THEN faults ELSE faults + 1
  /\ overwritten' = overwritten \cup ids

Rows == {i \in IDs : orderRows[i] # Nil}

\* Save: on an ID that is taken, only the columns of the fill are assigned.
Upsert(i, o) ==
  [orderRows EXCEPT ![i] =
     IF @ = Nil THEN o
     ELSE [@ EXCEPT !.filled = o.filled, !.remaining = o.remaining,
                    !.status = o.status]]

\* Mutant: the quantities are not written.
UpdateStatusOnly(i, o) ==
  [orderRows EXCEPT ![i] = [@ EXCEPT !.status = o.status]]

\* Mutant: two columns are swapped.
UpdateSwapped(i, o) ==
  [orderRows EXCEPT ![i] = [@ EXCEPT !.filled    = o.remaining,
                                     !.remaining = o.filled,
                                     !.status    = o.status]]

\* UpdateStatus writes the caller's object over the row.
Update(i, o) ==
  [orderRows EXCEPT ![i] = [@ EXCEPT !.filled    = o.filled,
                                     !.remaining = o.remaining,
                                     !.status    = o.status]]

\* Mutant: the copies come from a cache filled when orders are placed.
CachedOrders(stock, side) ==
  [i \in {j \in Rows : /\ orderRows[j].stock = stock
                       /\ orderRows[j].side = side
                       /\ IsOpen(orderRows[j])} |->
     [orderRows[i] EXCEPT !.filled = 0, !.remaining = orderRows[i].quantity,
                          !.status = "OPEN"]]

\* GetOpenOrdersByStock: a fresh copy of every matching row.
GetOpenOrdersByStock(stock, side) ==
  [i \in {j \in Rows : /\ orderRows[j].stock = stock
                       /\ orderRows[j].side = side
                       /\ IsOpen(orderRows[j])} |-> orderRows[i]]

\* TradeRepository.Save: DoNothing on an ID that is taken.
Recorded(i) == \E t \in tradeRows : t.id = i

\* Mutant: the row goes in without its ID.
InsertUnnumbered(trade) == tradeRows \cup {[trade EXCEPT !.id = Nil]}

Insert(trade) ==
  IF Recorded(trade.id) THEN tradeRows ELSE tradeRows \cup {trade}

Pending(r) == DOMAIN listed[r] \ visited[r]

\* ORDER BY created_at leaves rows of the same instant in either order.
Earliest(r) ==
  {c \in Pending(r) :
     \A d \in Pending(r) : listed[r][c].createdAt <= listed[r][d].createdAt}

-----------------------------------------------------------------------------
(* OrderHandler.CreateOrder.                                               *)

\* What time.Now may return: the clock counts from the first order, and two
\* requests may read the same instant.
Now == IF \A r \in Requests : pc[r] = "idle" THEN {0} ELSE {clock, clock + 1}

CreateOrder(r) ==
  /\ pc[r] = "idle"
  /\ \E stock \in Stocks, side \in Sides,
        price \in Prices, quantity \in Quantities :
       /\ clock' \in Now
       /\ order' = [order EXCEPT ![r] =
                      NewOrder(stock, side, price, quantity, clock')]
  /\ orderSeq' = orderSeq + 1
  /\ id' = [id EXCEPT ![r] = orderSeq']
  /\ pc' = [pc EXCEPT ![r] = "created"]
  /\ UNCHANGED <<tradeSeq, local, stockMu, tables, history>>

\* The handler answers 500 on an error, even if the order was stored: then
\* it is open, and the others trade with it.
SaveOrder(r) ==
  /\ pc[r] = "created"
  /\ \E o \in Outcomes :
       /\ orderRows' = IF o.done THEN Upsert(id[r], order[r]) ELSE orderRows
       /\ pc' = [pc EXCEPT ![r] = IF o.ok THEN "saved" ELSE "failed"]
       /\ Remember(o, IF o.done /\ id[r] \in Rows THEN {id[r]} ELSE {})
  /\ UNCHANGED <<counters, id, order, local, stockMu, tradeRows, unrecorded>>

-----------------------------------------------------------------------------
(* MatchingEngine.ProcessOrder.                                            *)

\* getStockMutex returns the same mutex to everyone who asks for a stock.
MutexFree(stock) == stockMu[stock] = Nil

\* The mutex is taken and the other side listed.  ProcessOrder returns if it
\* cannot list.
StartMatching(r) ==
  LET stock == order[r].stock
  IN  /\ pc[r] = "saved"
      /\ MutexFree(stock)
      /\ stockMu' = [stockMu EXCEPT ![stock] = r]
      /\ \E o \in Outcomes :
           /\ listed' =
                IF o.ok THEN [listed EXCEPT ![r] =
                        GetOpenOrdersByStock(stock, Opposite(order[r].side))]
                ELSE listed
           /\ pc' = [pc EXCEPT ![r] = IF o.ok THEN "matching" ELSE "returning"]
           /\ Remember(o, {})
      /\ UNCHANGED <<counters, id, order, visited, counterOrder, fillQty,
                     tables, unrecorded>>

SkipCounter(r) ==
  /\ pc[r] = "matching"
  /\ order[r].remaining > 0
  /\ \E c \in Earliest(r) :
       /\ \/ ~PricesMatch(order[r], listed[r][c])
          \/ FillQty(order[r], listed[r][c]) = 0
       /\ visited' = [visited EXCEPT ![r] = @ \cup {c}]
  /\ UNCHANGED <<pc, counters, id, order, listed, counterOrder, fillQty,
                 stockMu, tables, history>>

\* Both Fill calls change objects of this request only, and so are one step
\* with the first UpdateStatus.  An error of either UpdateStatus is only
\* logged.
FillAndUpdate(r) ==
  /\ pc[r] = "matching"
  /\ order[r].remaining > 0
  /\ \E c \in Earliest(r), o \in Outcomes :
       LET qty == FillQty(order[r], listed[r][c])
       IN  /\ PricesMatch(order[r], listed[r][c])
           /\ qty > 0
           /\ order' = [order EXCEPT ![r] = Fill(@, qty)]
           /\ listed' = [listed EXCEPT ![r][c] = Fill(@, qty)]
           /\ counterOrder' = [counterOrder EXCEPT ![r] = c]
           /\ fillQty' = [fillQty EXCEPT ![r] = qty]
           /\ orderRows' =
                IF o.done THEN Update(id[r], order'[r]) ELSE orderRows
           /\ Remember(o, IF o.done THEN {} ELSE {id[r]})
  /\ pc' = [pc EXCEPT ![r] = "updated"]
  /\ UNCHANGED <<counters, id, visited, stockMu, tradeRows, unrecorded>>

\* The request that placed c, waiting for the mutex, holds c as it was.
Waiting(c) == \E q \in Requests : id[q] = c /\ pc[q] = "saved"

UpdateCounter(r) ==
  LET c == counterOrder[r]
  IN  /\ pc[r] = "updated"
      /\ \E o \in Outcomes :
           /\ orderRows' =
                IF o.done THEN Update(c, listed[r][c]) ELSE orderRows
           /\ Remember(o, IF o.done /\ ~Waiting(c) THEN {} ELSE {c})
      /\ pc' = [pc EXCEPT ![r] = "recording"]
      /\ UNCHANGED <<counters, id, order, local, stockMu, tradeRows,
                     unrecorded>>

\* An ID is drawn and the trade saved.  On an error the loop goes on to the
\* next order; the fills stay, whether or not the trade is in the table.
RecordTrade(r) ==
  LET c     == counterOrder[r]
      trade == [id       |-> tradeSeq + 1,
                buy      |-> IF order[r].side = "BUY" THEN id[r] ELSE c,
                sell     |-> IF order[r].side = "BUY" THEN c ELSE id[r],
                price    |-> listed[r][c].price,
                quantity |-> fillQty[r]]
  IN  /\ pc[r] = "recording"
      /\ tradeSeq' = tradeSeq + 1
      /\ \E o \in Outcomes :
           /\ tradeRows' = IF o.done THEN Insert(trade) ELSE tradeRows
           /\ unrecorded' = IF o.done /\ ~Recorded(trade.id) THEN unrecorded
                            ELSE unrecorded \cup {id[r], c}
           /\ Remember(o, {})
      /\ visited' = [visited EXCEPT ![r] = @ \cup {c}]
      /\ pc' = [pc EXCEPT ![r] = "matching"]
      /\ UNCHANGED <<clock, orderSeq, id, order, listed, counterOrder, fillQty,
                     stockMu, orderRows>>

\* Mutant: a path that does not unlock.
KeepLocked(stock) == stockMu

\* The deferred Unlock.
Release(stock) == [stockMu EXCEPT ![stock] = Nil]

\* The loop is over, or there was no list; the handler answers 201.
FinishMatching(r) ==
  /\ \/ pc[r] = "matching" /\ (Pending(r) = {} \/ order[r].remaining = 0)
     \/ pc[r] = "returning"
  /\ stockMu' = Release(order[r].stock)
  /\ pc' = [pc EXCEPT ![r] = "done"]
  /\ UNCHANGED <<counters, id, order, local, tables, history>>

-----------------------------------------------------------------------------
(* A crash of the process.                                                 *)

InTrade(r) == pc[r] \in {"updated", "recording"}

\* Every goroutine ends where it is, and the counters start again at 0.
Crash ==
  /\ faults < MaxFaults
  /\ faults' = faults + 1
  /\ pc' = [r \in Requests |->
              IF pc[r] \in {"idle", "done", "failed"} THEN pc[r] ELSE "lost"]
  /\ stockMu' = [s \in Stocks |-> Nil]
  /\ orderSeq' = 0 /\ tradeSeq' = 0
  /\ unrecorded' = unrecorded
       \cup {id[r] : r \in {q \in Requests : InTrade(q)}}
       \cup {counterOrder[r] : r \in {q \in Requests : pc[q] = "recording"}}
  /\ UNCHANGED <<clock, id, order, local, tables, overwritten>>

-----------------------------------------------------------------------------
Process(r) ==
  \/ SaveOrder(r)
  \/ StartMatching(r)
  \/ SkipCounter(r)
  \/ FillAndUpdate(r)
  \/ UpdateCounter(r)
  \/ RecordTrade(r)
  \/ FinishMatching(r)

Over(r) == pc[r] \in {"done", "failed", "lost"}

\* Every request of the instance is over.
AllOver == (\A r \in Requests : Over(r)) /\ UNCHANGED vars

Next ==
  \/ \E r \in Requests : CreateOrder(r) \/ Process(r)
  \/ Crash
  \/ AllOver

Spec == Init /\ [][Next]_vars

-----------------------------------------------------------------------------
(* Properties.                                                             *)

Trade ==
  [id : Nat, buy : IDs, sell : IDs, price : Prices, quantity : Nat]

\* The shape of the state.
TypeOK ==
  /\ pc \in [Requests -> {"idle", "created", "failed", "saved", "matching",
                          "updated", "recording", "returning", "done", "lost"}]
  /\ clock \in Nat /\ orderSeq \in 0 .. Cardinality(Requests) /\ tradeSeq \in Nat
  /\ id \in [Requests -> IDs \cup {0}]
  /\ order \in [Requests -> Order \cup {Nil}]
  /\ \A r \in Requests : /\ DOMAIN listed[r] \subseteq IDs
                         /\ \A c \in DOMAIN listed[r] : listed[r][c] \in Order
                         /\ visited[r] \subseteq DOMAIN listed[r]
  /\ stockMu \in [Stocks -> Requests \cup {Nil}]
  /\ orderRows \in [IDs -> Order \cup {Nil}]
  /\ tradeRows \subseteq Trade
  /\ overwritten \subseteq IDs /\ unrecorded \subseteq IDs
  /\ faults \in 0 .. MaxFaults

TradedQty(i) ==
  SumFunction([t \in {x \in tradeRows : i \in {x.buy, x.sell}} |-> t.quantity])

\* The fill of i is in the orders table and the trade not yet in the other.
InFlight(i) ==
  SumFunctionOnSet(fillQty,
    {r \in Requests :
       \/ pc[r] \in {"updated", "recording"} /\ id[r] = i
       \/ pc[r] = "recording" /\ counterOrder[r] = i})

\* Whatever fails and wherever the process crashes, a row adds up and never
\* tells of less than its trades do; and the two tables agree, unless the
\* trade of a fill was not saved, had a reused ID or was under way in a
\* crash.  Only an update that had no effect, a reused order ID or a fill
\* while the order's own request was waiting for the mutex leaves a row
\* behind.
Conservation ==
  \A i \in Rows \ overwritten :
    /\ orderRows[i].filled + orderRows[i].remaining = orderRows[i].quantity
    /\ orderRows[i].filled >= TradedQty(i) + InFlight(i)
    /\ i \notin unrecorded =>
         orderRows[i].filled = TradedQty(i) + InFlight(i)

\* A copy taken under the mutex is as good as the row for as long as the
\* loop has not come to it: nobody else writes the rows of this stock.
ListIsCurrent ==
  \A r \in Requests : pc[r] = "matching" \/ InTrade(r) =>
    \A c \in Pending(r) \ overwritten :
      \/ InTrade(r) /\ c = counterOrder[r]
      \/ listed[r][c] = orderRows[c]

\* Once the request that placed an order is over, nothing takes a fill away
\* from its row, whatever fails and whoever trades with it.  Only an ID that
\* a restarted counter gave to an order of another stock too is written under
\* two mutexes.
AnsweredOnlyGrow ==
  [][\A i \in Rows :
       (\A r \in Requests : id[r] = i =>
          Over(r) /\ order[r].stock = orderRows[i].stock)
         => orderRows'[i].filled >= orderRows[i].filled]_vars

\* In ProcessOrder behind Lock.
Inside(r) == pc[r] = "returning" \/ pc[r] = "matching" \/ InTrade(r)

\* Whatever call fails and wherever the process crashes, the mutex of a stock
\* is held by exactly the request that is between its Lock and the return:
\* nobody is shut out by a request that is over, and no two loops run on one
\* stock.
LockMeansLoop ==
  \A r \in Requests :
    {s \in Stocks : stockMu[s] = r} =
      IF Inside(r) THEN {order[r].stock} ELSE {}

\* README.md:632: the mutex per stock keeps an order from being filled twice;
\* no order is traded beyond its quantity.
NoDoubleFill == \A i \in Rows : TradedQty(i) <= orderRows[i].quantity

\* README.md:774: with Postgres the data is persistent; an order that was
\* answered 201 is in the table as it was placed.
AcceptedOrdersStored ==
  \A r \in Requests : pc[r] = "done" =>
    LET row == orderRows[id[r]]
    IN  /\ row # Nil
        /\ row.side = order[r].side
        /\ row.price = order[r].price
        /\ row.quantity = order[r].quantity
=============================================================================
