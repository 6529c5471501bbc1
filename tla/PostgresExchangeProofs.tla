----------------------- MODULE PostgresExchangeProofs -----------------------
(***************************************************************************)
(* Proofs about PostgresExchange, for any requests, stocks, prices and     *)
(* quantities and any number of failing calls and crashes, in three        *)
(* inductive invariants, each with those before it as hypotheses.  Inv:    *)
(* the mutex of a stock is held by the loop that runs on it, and what a    *)
(* loop has listed is what the orders table holds.  TypeInv: the shape of  *)
(* the rest, with IDs that stay in the range of the tables.  TablesInv:    *)
(* whose object a row is, how far it is behind, and that the two tables    *)
(* agree.                                                                  *)
(***************************************************************************)
EXTENDS PostgresExchange, SumFacts, TLAPS

Places == {"idle", "created", "failed", "saved", "matching", "updated",
           "recording", "returning", "done", "lost"}

InLoop(r) == pc[r] = "matching" \/ InTrade(r)

(* The part of the shape of the state that the argument needs. *)
Shape ==
  /\ pc \in [Requests -> Places]
  /\ clock \in Nat
  /\ stockMu \in [Stocks -> Requests \cup {Nil}]
  /\ order \in [Requests -> Order \cup {Nil}]
  /\ DOMAIN id = Requests /\ DOMAIN listed = Requests
  /\ DOMAIN visited = Requests /\ DOMAIN counterOrder = Requests
  /\ orderRows \in [IDs -> Order \cup {Nil}]
  /\ \A r \in Requests : pc[r] # "idle" => order[r] \in Order

(* Who is in ProcessOrder holds the mutex of its stock, and nobody else     *)
(* holds one.                                                               *)
Locked ==
  \A r \in Requests, s \in Stocks :
    stockMu[s] = r <=> Inside(r) /\ order[r].stock = s

(* The row of a saved order is its own, unless a restarted counter handed   *)
(* the ID out again.                                                        *)
OwnRow(r) ==
  /\ id[r] \in Rows
  /\ \/ id[r] \in overwritten
     \/ /\ orderRows[id[r]].stock = order[r].stock
        /\ orderRows[id[r]].side = order[r].side

Stored ==
  \A r \in Requests :
    (pc[r] = "saved" \/ InLoop(r)) /\ id[r] \in IDs => OwnRow(r)

(* What a loop has listed are rows of the other side of its own stock.      *)
OtherSide(r, c) ==
  /\ c \in Rows /\ listed[r][c] \in Order
  /\ orderRows[c].stock = order[r].stock
  /\ orderRows[c].side = Opposite(order[r].side)

Copies ==
  \A r \in Requests :
    /\ InLoop(r) => \A c \in DOMAIN listed[r] : OtherSide(r, c)
    /\ InTrade(r) => counterOrder[r] \in DOMAIN listed[r]

Inv == Shape /\ Locked /\ Stored /\ Copies /\ ListIsCurrent

-----------------------------------------------------------------------------
(* The operators.                                                           *)

LEMMA FillType ==
  ASSUME NEW o \in Order, NEW qty \in Nat
  PROVE  Fill(o, qty) \in Order /\ Fill(o, qty).stock = o.stock
         /\ Fill(o, qty).side = o.side
<1> DEFINE left == IF o.remaining <= qty THEN 0 ELSE o.remaining - qty
<1>1. o.filled + qty \in Nat /\ left \in Nat
  BY DEF Order
<1>2. QED
  BY <1>1 DEF Fill, Order, Statuses

LEMMA NewOrderType ==
  ASSUME NEW stock \in Stocks, NEW side \in Sides, NEW price \in Prices,
         NEW quantity \in Quantities, NEW now \in Nat
  PROVE  NewOrder(stock, side, price, quantity, now) \in Order
BY PositiveInputs DEF NewOrder, Order, Statuses

(* What two objects have in common that only differ in their fill. *)
Like(o, p) == o.stock = p.stock /\ o.side = p.side

LEMMA UpdateKeeps ==
  ASSUME orderRows \in [IDs -> Order \cup {Nil}], NEW i, NEW o \in Order,
         i \in IDs => i \in Rows
  PROVE  /\ Update(i, o) \in [IDs -> Order \cup {Nil}]
         /\ \A j \in Rows : Update(i, o)[j] # Nil /\ Like(Update(i, o)[j], orderRows[j])
         /\ \A j \in IDs : j # i => Update(i, o)[j] = orderRows[j]
<1> DEFINE new == [orderRows[i] EXCEPT !.filled    = o.filled,
                                       !.remaining = o.remaining,
                                       !.status    = o.status]
<1>1. Update(i, o) = [orderRows EXCEPT ![i] = new]
  BY DEF Update
<1>2. i \in IDs => new \in Order /\ Like(new, orderRows[i])
  BY DEF Rows, Order, Like
<1>3. i \in IDs => new # Nil
  BY <1>2, NilIsNothing
<1> HIDE DEF new
<1>4. QED
  BY <1>1, <1>2, <1>3 DEF Rows, Like

LEMMA UpsertKeeps ==
  ASSUME orderRows \in [IDs -> Order \cup {Nil}], NEW i, NEW o \in Order
  PROVE  /\ Upsert(i, o) \in [IDs -> Order \cup {Nil}]
         /\ \A j \in Rows : Upsert(i, o)[j] # Nil /\ Like(Upsert(i, o)[j], orderRows[j])
         /\ \A j \in IDs : j # i => Upsert(i, o)[j] = orderRows[j]
         /\ i \in IDs => Upsert(i, o)[i] # Nil
         /\ i \in IDs /\ i \notin Rows => Upsert(i, o)[i] = o
<1> DEFINE upd == [orderRows[i] EXCEPT !.filled = o.filled,
                                       !.remaining = o.remaining,
                                       !.status = o.status]
           new == IF orderRows[i] = Nil THEN o ELSE upd
<1>1. Upsert(i, o) = [orderRows EXCEPT ![i] = new]
  BY DEF Upsert
<1>2. i \in Rows => upd \in Order /\ Like(upd, orderRows[i])
  BY DEF Rows, Order, Like
<1> HIDE DEF upd
<1>3. i \in IDs => new \in Order /\ new # Nil /\ (i \notin Rows => new = o)
                   /\ (i \in Rows => Like(new, orderRows[i]))
  BY <1>2, NilIsNothing DEF Rows
<1> HIDE DEF new
<1>4. QED
  BY <1>1, <1>3 DEF Rows, Like

(* What is known of the outcome of a call. *)
LEMMA OutcomeType ==
  ASSUME NEW o \in Outcomes
  PROVE  o.done \in BOOLEAN /\ o.ok \in BOOLEAN /\ (o.ok => o.done)
         /\ (o.ok \/ faults < MaxFaults)
BY DEF Outcomes

(* No two loops run on one stock. *)
LEMMA OneLoop ==
  ASSUME Shape, Locked, NEW q \in Requests, NEW r \in Requests,
         InLoop(q), InLoop(r), q # r
  PROVE  order[q].stock # order[r].stock
<1>1. order[r] \in Order /\ order[r].stock \in Stocks
  BY DEF Shape, InLoop, InTrade, Order
<1>2. Inside(q) /\ Inside(r)
  BY DEF Inside, InLoop
<1>3. QED
  BY <1>1, <1>2 DEF Locked

-----------------------------------------------------------------------------
(* A step that writes rows leaves what is known of them.                    *)

RowsStay ==
  /\ orderRows' \in [IDs -> Order \cup {Nil}]
  /\ \A j \in Rows : orderRows'[j] # Nil /\ Like(orderRows'[j], orderRows[j])
  /\ overwritten \subseteq overwritten'

LEMMA OwnRowStays ==
  ASSUME RowsStay, NEW q \in Requests, OwnRow(q), id'[q] = id[q],
         Like(order'[q], order[q])
  PROVE  OwnRow(q)'
BY DEF RowsStay, OwnRow, Rows, Like

LEMMA OtherSideStays ==
  ASSUME RowsStay, NEW q \in Requests, NEW c, OtherSide(q, c),
         listed'[q][c] \in Order, Like(order'[q], order[q])
  PROVE  OtherSide(q, c)'
BY DEF RowsStay, OtherSide, Rows, Like

(* The request q is where it was, and what it holds is as it was. *)
SameState(q) ==
  /\ pc'[q] = pc[q] /\ id'[q] = id[q] /\ order'[q] = order[q]
  /\ listed'[q] = listed[q] /\ counterOrder'[q] = counterOrder[q]
  /\ visited'[q] = visited[q]

LEMMA OthersStay ==
  ASSUME Stored, Copies, RowsStay, NEW q \in Requests, SameState(q)
  PROVE  /\ ((pc[q] = "saved" \/ InLoop(q)) /\ id[q] \in IDs => OwnRow(q))'
         /\ (InLoop(q) => \A c \in DOMAIN listed[q] : OtherSide(q, c))'
         /\ (InTrade(q) => counterOrder[q] \in DOMAIN listed[q])'
<1>1. InLoop(q)' <=> InLoop(q)
  BY DEF SameState, InLoop, InTrade
<1>2. InTrade(q)' <=> InTrade(q)
  BY DEF SameState, InTrade
<1>3. Like(order'[q], order[q])
  BY DEF SameState, Like
<1>4. ASSUME (pc[q] = "saved" \/ InLoop(q))', id'[q] \in IDs
      PROVE  OwnRow(q)'
  <2>1. OwnRow(q)
    BY <1>1, <1>4 DEF SameState, Stored
  <2>2. QED
    BY <1>3, <2>1, OwnRowStays DEF SameState
<1>5. ASSUME InLoop(q)', NEW c \in DOMAIN listed'[q]
      PROVE  OtherSide(q, c)'
  <2>1. OtherSide(q, c)
    BY <1>1, <1>5 DEF SameState, Copies
  <2>2. listed'[q][c] \in Order
    BY <2>1 DEF SameState, OtherSide
  <2>3. QED
    BY <1>3, <2>1, <2>2, OtherSideStays
<1>6. (InTrade(q) => counterOrder[q] \in DOMAIN listed[q])'
  BY <1>2 DEF SameState, Copies
<1>7. (pc[q] = "saved" \/ InLoop(q))' /\ (id[q] \in IDs)' => OwnRow(q)'
  BY <1>4
<1>8. QED
  BY <1>5, <1>6, <1>7

(* The list of q stays current if no row that it lists and no fault touched *)
(* is written.                                                              *)
Current(q) ==
  \A c \in Pending(q) \ overwritten :
    \/ InTrade(q) /\ c = counterOrder[q]
    \/ listed[q][c] = orderRows[c]

LEMMA OthersCurrent ==
  ASSUME ListIsCurrent, NEW q \in Requests, SameState(q), InLoop(q)',
         overwritten \subseteq overwritten',
         \A c \in DOMAIN listed[q] \ overwritten' : orderRows'[c] = orderRows[c]
  PROVE  Current(q)'
<1>1. InLoop(q) /\ (InTrade(q)' <=> InTrade(q))
  BY DEF SameState, InLoop, InTrade
<1>2. Pending(q)' = Pending(q) /\ Pending(q) \subseteq DOMAIN listed[q]
  BY DEF SameState, Pending
<1>3. Current(q)
  BY <1>1 DEF ListIsCurrent, Current, InLoop
<1>4. QED
  BY <1>1, <1>2, <1>3 DEF Current, SameState

-----------------------------------------------------------------------------
(* The steps.                                                               *)

LEMMA InitInv == Init => Inv
<1> SUFFICES ASSUME Init PROVE Inv
  OBVIOUS
<1>1. Shape
  BY DEF Init, Shape, Places
<1>2. \A r \in Requests : /\ ~InLoop(r) /\ ~Inside(r) /\ ~InTrade(r)
                          /\ pc[r] # "saved"
  BY DEF Init, InLoop, Inside, InTrade
<1>3. Locked
  BY <1>2, NilIsNothing DEF Init, Locked
<1>4. Stored /\ Copies /\ ListIsCurrent
  BY <1>2 DEF Stored, Copies, ListIsCurrent, InLoop
<1>5. QED
  BY <1>1, <1>3, <1>4 DEF Inv

LEMMA CreateOrderKeeps ==
  ASSUME Inv, NEW r \in Requests, CreateOrder(r)
  PROVE  Inv'
<1>1. Shape /\ Locked /\ Stored /\ Copies /\ ListIsCurrent
  BY DEF Inv
<1>2. PICK stock \in Stocks, side \in Sides, price \in Prices,
           quantity \in Quantities :
        /\ clock' \in Now
        /\ order' = [order EXCEPT ![r] =
                       NewOrder(stock, side, price, quantity, clock')]
  BY DEF CreateOrder
<1>3. pc[r] = "idle" /\ pc' = [pc EXCEPT ![r] = "created"]
      /\ id' = [id EXCEPT ![r] = orderSeq']
      /\ UNCHANGED <<listed, visited, counterOrder, stockMu, orderRows, overwritten>>
  BY DEF CreateOrder, local, tables, history
<1>4. clock' \in Nat
  BY <1>1, <1>2 DEF Now, Shape
<1>5. NewOrder(stock, side, price, quantity, clock') \in Order
  BY <1>4, NewOrderType
<1>6. Shape'
  BY <1>1, <1>2, <1>3, <1>4, <1>5 DEF Shape, Places, IDs
<1>7. /\ ~InLoop(r)' /\ ~InLoop(r) /\ ~InTrade(r)' /\ pc'[r] # "saved"
      /\ ~Inside(r)' /\ ~Inside(r)
  BY <1>1, <1>3 DEF InLoop, Inside, InTrade, Shape
<1>8. \A q \in Requests \ {r} : SameState(q)
  BY <1>1, <1>2, <1>3 DEF SameState, Shape
<1>9. RowsStay
  BY <1>1, <1>3 DEF RowsStay, Shape, Like, Rows
<1>10. \A q \in Requests \ {r} : (Inside(q)' <=> Inside(q)) /\ order'[q] = order[q]
  BY <1>8 DEF SameState, Inside, InTrade
<1>11. Locked'
  BY <1>1, <1>3, <1>7, <1>10 DEF Locked
<1>12. Stored' /\ Copies'
  BY <1>1, <1>7, <1>8, <1>9, OthersStay DEF Stored, Copies
<1>13. ListIsCurrent'
  <2> SUFFICES ASSUME NEW q \in Requests, InLoop(q)'  PROVE Current(q)'
    BY DEF ListIsCurrent, Current, InLoop
  <2>1. QED
    BY <1>1, <1>3, <1>7, <1>8, OthersCurrent
<1>14. QED
  BY <1>6, <1>11, <1>12, <1>13 DEF Inv

LEMMA SaveOrderKeeps ==
  ASSUME Inv, NEW r \in Requests, SaveOrder(r)
  PROVE  Inv'
<1>1. Shape /\ Locked /\ Stored /\ Copies /\ ListIsCurrent
  BY DEF Inv
<1>2. PICK o \in Outcomes :
        /\ orderRows' = IF o.done THEN Upsert(id[r], order[r]) ELSE orderRows
        /\ pc' = [pc EXCEPT ![r] = IF o.ok THEN "saved" ELSE "failed"]
        /\ overwritten' = overwritten \cup (IF o.done /\ id[r] \in Rows THEN {id[r]} ELSE {})
  BY DEF SaveOrder, Remember
<1>3. pc[r] = "created"
      /\ UNCHANGED <<clock, id, order, listed, visited, counterOrder, stockMu>>
  BY DEF SaveOrder, counters, local
<1>4. order[r] \in Order
  BY <1>1, <1>3 DEF Shape
<1>5. /\ orderRows' \in [IDs -> Order \cup {Nil}]
      /\ \A j \in Rows : orderRows'[j] # Nil /\ Like(orderRows'[j], orderRows[j])
      /\ \A j \in IDs : j # id[r] => orderRows'[j] = orderRows[j]
  <2>1. orderRows \in [IDs -> Order \cup {Nil}]
    BY <1>1 DEF Shape
  <2>2. CASE o.done
    BY <1>2, <1>4, <2>1, <2>2, UpsertKeeps
  <2>3. CASE ~o.done
    BY <1>2, <2>1, <2>3 DEF Like, Rows
  <2>4. QED
    BY <2>2, <2>3
<1>6. RowsStay
  BY <1>2, <1>5 DEF RowsStay
<1>7. Shape'
  BY <1>1, <1>2, <1>3, <1>4, <1>5 DEF Shape, Places, IDs
<1>8. ~InLoop(r)' /\ ~InLoop(r) /\ ~InTrade(r)' /\ ~Inside(r)' /\ ~Inside(r)
  BY <1>1, <1>2, <1>3 DEF InLoop, Inside, InTrade, Shape
<1>9. \A q \in Requests \ {r} : SameState(q)
  BY <1>1, <1>2, <1>3 DEF SameState, Shape
<1>10. \A q \in Requests \ {r} : /\ InLoop(q)' <=> InLoop(q)
                                 /\ Inside(q)' <=> Inside(q)
  BY <1>9 DEF SameState, InLoop, Inside, InTrade
<1>11. Locked'
  BY <1>1, <1>3, <1>8, <1>10 DEF Locked
<1>12. ASSUME pc'[r] = "saved", id'[r] \in IDs
       PROVE  OwnRow(r)'
  <2>1. o.done
    <3>1. o.ok
      BY <1>1, <1>2, <1>12 DEF Shape
    <3>2. QED
      BY <3>1, OutcomeType
  <2>2. orderRows \in [IDs -> Order \cup {Nil}] /\ orderRows' = Upsert(id[r], order[r])
    BY <1>1, <1>2, <2>1 DEF Shape
  <2>3. orderRows'[id[r]] # Nil /\ (id[r] \notin Rows => orderRows'[id[r]] = order[r])
    BY <1>3, <1>4, <1>12, <2>2, UpsertKeeps
  <2>4. QED
    BY <1>2, <1>3, <1>12, <2>1, <2>3 DEF OwnRow, Rows, IDs
<1>13. Stored' /\ Copies'
  BY <1>1, <1>6, <1>8, <1>9, <1>12, OthersStay DEF Stored, Copies
<1>14. ListIsCurrent'
  <2> SUFFICES ASSUME NEW q \in Requests, InLoop(q)'  PROVE Current(q)'
    BY DEF ListIsCurrent, Current, InLoop
  <2>1. q # r /\ SameState(q) /\ InLoop(q)
    BY <1>8, <1>9, <1>10
  <2>2. ASSUME NEW c \in DOMAIN listed[q] \ overwritten'
        PROVE  orderRows'[c] = orderRows[c]
    <3>1. c \in Rows
      BY <1>1, <2>1 DEF Copies, OtherSide
    <3>2. CASE o.done
      <4>1. c # id[r]
        BY <1>2, <2>2, <3>1, <3>2
      <4>2. QED
        BY <1>5, <3>1, <4>1 DEF Rows
    <3>3. QED
      BY <1>2, <3>2
  <2>3. QED
    BY <1>1, <1>2, <2>1, <2>2, OthersCurrent
<1>15. QED
  BY <1>7, <1>11, <1>13, <1>14 DEF Inv

LEMMA StartMatchingKeeps ==
  ASSUME Inv, NEW r \in Requests, StartMatching(r)
  PROVE  Inv'
<1> DEFINE stock == order[r].stock
           list == GetOpenOrdersByStock(stock, Opposite(order[r].side))
<1>1. Shape /\ Locked /\ Stored /\ Copies /\ ListIsCurrent
  BY DEF Inv
<1>2. PICK o \in Outcomes :
        /\ listed' = IF o.ok THEN [listed EXCEPT ![r] = list] ELSE listed
        /\ stockMu' = [stockMu EXCEPT ![stock] = r]
        /\ pc' = [pc EXCEPT ![r] = IF o.ok THEN "matching" ELSE "returning"]
        /\ overwritten' = overwritten
  BY DEF StartMatching, Remember
<1>3. pc[r] = "saved" /\ stockMu[stock] = Nil
      /\ UNCHANGED <<clock, id, order, visited, counterOrder, orderRows>>
  BY DEF StartMatching, MutexFree, counters, tables
<1>4. order[r] \in Order /\ stock \in Stocks
  BY <1>1, <1>3 DEF Shape, Order
<1>5. \A c \in DOMAIN list :
        /\ c \in Rows /\ list[c] = orderRows[c] /\ orderRows[c] \in Order
        /\ orderRows[c].stock = stock
        /\ orderRows[c].side = Opposite(order[r].side)
  BY <1>1 DEF GetOpenOrdersByStock, Rows, Shape
<1> HIDE DEF list
<1>6. RowsStay
  BY <1>1, <1>2, <1>3 DEF RowsStay, Shape, Like, Rows
<1>7. Shape'
  BY <1>1, <1>2, <1>3, <1>4 DEF Shape, Places, IDs
<1>8. /\ ~InLoop(r) /\ ~InTrade(r)' /\ pc'[r] # "saved" /\ (InLoop(r)' => o.ok)
      /\ ~Inside(r) /\ Inside(r)'
  BY <1>1, <1>2, <1>3 DEF InLoop, Inside, InTrade, Shape
<1>9. \A q \in Requests \ {r} : SameState(q)
  BY <1>1, <1>2, <1>3 DEF SameState, Shape
<1>10. \A q \in Requests \ {r} : /\ InLoop(q)' <=> InLoop(q)
                                 /\ Inside(q)' <=> Inside(q)
  BY <1>9 DEF SameState, InLoop, Inside, InTrade
<1>11. Locked'
  <2> SUFFICES ASSUME NEW q \in Requests, NEW s \in Stocks
               PROVE  stockMu'[s] = q <=> Inside(q)' /\ order[q].stock = s
    BY <1>3 DEF Locked
  <2>1. stockMu' = [stockMu EXCEPT ![stock] = r] /\ stockMu \in [Stocks -> Requests \cup {Nil}]
    BY <1>1, <1>2 DEF Shape
  <2>2. CASE q = r
    BY <1>1, <1>4, <1>8, <2>1, <2>2 DEF Locked
  <2>3. CASE q # r
    <3>1. stockMu[s] = q <=> Inside(q)' /\ order[q].stock = s
      BY <1>1, <1>10, <2>3 DEF Locked
    <3>2. CASE s = stock
      <4>1. stockMu[s] # q
        BY <1>3, <3>2, NilIsNothing
      <4>2. QED
        BY <2>1, <2>3, <3>1, <3>2, <4>1
    <3>3. CASE s # stock
      BY <2>1, <3>1, <3>3
    <3>4. QED
      BY <3>2, <3>3
  <2>4. QED
    BY <2>2, <2>3
<1>12. ASSUME InLoop(r)', NEW c \in DOMAIN listed'[r]
       PROVE  OtherSide(r, c)' /\ listed'[r][c] = orderRows'[c]
  <2>1. listed'[r] = list
    BY <1>1, <1>2, <1>8, <1>12 DEF Shape
  <2>2. c \in Rows' <=> c \in Rows
    BY <1>3 DEF Rows, IDs
  <2>3. QED
    BY <1>3, <1>5, <1>12, <2>1, <2>2 DEF OtherSide
<1>14. ASSUME InLoop(r)', id'[r] \in IDs
       PROVE  OwnRow(r)'
  <2>1. OwnRow(r) /\ Like(order'[r], order[r])
    BY <1>1, <1>3, <1>14 DEF Stored, Like
  <2>2. QED
    BY <1>3, <1>6, <2>1, OwnRowStays
<1>15. Stored'
  BY <1>1, <1>6, <1>8, <1>9, <1>14, OthersStay DEF Stored
<1>16. Copies'
  BY <1>1, <1>6, <1>8, <1>9, <1>12, OthersStay DEF Copies
<1>17. ListIsCurrent'
  <2> SUFFICES ASSUME NEW q \in Requests, InLoop(q)'  PROVE Current(q)'
    BY DEF ListIsCurrent, Current, InLoop
  <2>1. CASE q = r
    BY <1>12, <2>1 DEF Current, Pending
  <2>2. CASE q # r
    BY <1>1, <1>2, <1>3, <1>9, <2>2, OthersCurrent
  <2>3. QED
    BY <2>1, <2>2
<1>18. QED
  BY <1>7, <1>11, <1>15, <1>16, <1>17 DEF Inv

LEMMA SkipCounterKeeps ==
  ASSUME Inv, NEW r \in Requests, SkipCounter(r)
  PROVE  Inv'
<1>1. Shape /\ Locked /\ Stored /\ Copies /\ ListIsCurrent
  BY DEF Inv
<1>2. PICK c \in Earliest(r) : visited' = [visited EXCEPT ![r] = @ \cup {c}]
  BY DEF SkipCounter
<1>3. UNCHANGED <<pc, clock, id, order, listed, counterOrder, stockMu, orderRows,
                  overwritten>>
  BY DEF SkipCounter, counters, tables, history
<1>4. Shape'
  BY <1>1, <1>2, <1>3 DEF Shape, IDs
<1>5. \A q \in Requests : (InLoop(q)' <=> InLoop(q)) /\ (InTrade(q)' <=> InTrade(q))
                          /\ (Inside(q)' <=> Inside(q))
  BY <1>3 DEF InLoop, Inside, InTrade
<1>6. Locked'
  BY <1>1, <1>3, <1>5 DEF Locked
<1>7. Stored' /\ Copies'
  BY <1>1, <1>3, <1>5 DEF Stored, Copies, OwnRow, OtherSide, Rows, IDs
<1>8. ListIsCurrent'
  <2> SUFFICES ASSUME NEW q \in Requests, InLoop(q)'  PROVE Current(q)'
    BY DEF ListIsCurrent, Current, InLoop
  <2>1. Current(q)
    BY <1>1, <1>5 DEF ListIsCurrent, Current, InLoop
  <2>2. visited[q] \subseteq visited'[q]
    BY <1>1, <1>2 DEF Shape
  <2>3. Pending(q)' \subseteq Pending(q)
    BY <1>3, <2>2 DEF Pending
  <2>4. QED
    BY <1>3, <1>5, <2>1, <2>3 DEF Current
<1>9. QED
  BY <1>4, <1>6, <1>7, <1>8 DEF Inv

(* The row of r's own order is written, and none that another loop has      *)
(* listed: that one is of another stock.  Nor is it one of r's list, which  *)
(* is of the other side.                                                    *)
LEMMA FillAndUpdateKeeps ==
  ASSUME Inv, NEW r \in Requests, FillAndUpdate(r)
  PROVE  Inv'
<1>1. Shape /\ Locked /\ Stored /\ Copies /\ ListIsCurrent
  BY DEF Inv
<1> DEFINE qty(c) == FillQty(order[r], listed[r][c])
<1>2. PICK c \in Earliest(r), o \in Outcomes :
        /\ order' = [order EXCEPT ![r] = Fill(@, qty(c))]
        /\ listed' = [listed EXCEPT ![r][c] = Fill(@, qty(c))]
        /\ counterOrder' = [counterOrder EXCEPT ![r] = c]
        /\ orderRows' = IF o.done THEN Update(id[r], order'[r]) ELSE orderRows
        /\ overwritten' = overwritten \cup (IF o.done THEN {} ELSE {id[r]})
  BY DEF FillAndUpdate, Remember
<1>3. pc[r] = "matching" /\ pc' = [pc EXCEPT ![r] = "updated"]
      /\ UNCHANGED <<clock, id, visited, stockMu>>
  BY DEF FillAndUpdate, counters
<1>4. InLoop(r) /\ InLoop(r)' /\ InTrade(r)' /\ ~InTrade(r)
  BY <1>1, <1>3 DEF InLoop, InTrade, Shape
<1>5. c \in Pending(r) /\ c \in DOMAIN listed[r] /\ OtherSide(r, c)
  BY <1>1, <1>2, <1>4 DEF Earliest, Pending, Copies
<1>6. order[r] \in Order /\ listed[r][c] \in Order
  BY <1>1, <1>3, <1>5 DEF Shape, OtherSide
<1>7. qty(c) \in Nat
  BY <1>6 DEF FillQty, Order
<1> HIDE DEF qty
<1>8. order'[r] = Fill(order[r], qty(c)) /\ order'[r] \in Order
      /\ Like(order'[r], order[r])
  BY <1>1, <1>2, <1>6, <1>7, FillType DEF Shape, Like
<1>9. /\ DOMAIN listed' = Requests /\ DOMAIN listed'[r] = DOMAIN listed[r]
      /\ \A d \in DOMAIN listed[r] \ {c} : listed'[r][d] = listed[r][d]
      /\ listed'[r][c] \in Order
  <2>1. listed'[r] = [listed[r] EXCEPT ![c] = Fill(@, qty(c))] /\ DOMAIN listed' = Requests
    BY <1>1, <1>2 DEF Shape
  <2>2. Fill(listed[r][c], qty(c)) \in Order
    BY <1>6, <1>7, FillType
  <2>3. QED
    BY <1>5, <2>1, <2>2
<1>10. \A q \in Requests \ {r} : SameState(q)
  BY <1>1, <1>2, <1>3 DEF SameState, Shape
<1>11. \A q \in Requests : (InLoop(q)' <=> InLoop(q)) /\ Like(order'[q], order[q])
                           /\ (Inside(q)' <=> Inside(q))
  BY <1>4, <1>8, <1>10 DEF SameState, InLoop, Inside, InTrade, Like
<1>12. /\ orderRows' \in [IDs -> Order \cup {Nil}]
       /\ \A j \in Rows : orderRows'[j] # Nil /\ Like(orderRows'[j], orderRows[j])
       /\ \A j \in IDs : j # id[r] => orderRows'[j] = orderRows[j]
  <2>1. orderRows \in [IDs -> Order \cup {Nil}]
    BY <1>1 DEF Shape
  <2>2. CASE o.done
    <3>1. id[r] \in IDs => id[r] \in Rows
      BY <1>1, <1>4 DEF Stored, OwnRow
    <3>2. orderRows' = Update(id[r], order'[r])
      BY <1>2, <2>2
    <3>3. QED
      BY <1>8, <2>1, <3>1, <3>2, UpdateKeeps
  <2>3. CASE ~o.done
    BY <1>2, <2>1, <2>3 DEF Like, Rows
  <2>4. QED
    BY <2>2, <2>3
<1>13. RowsStay
  BY <1>2, <1>12 DEF RowsStay
<1>14. Shape'
  <2>1. pc' \in [Requests -> Places]
    BY <1>1, <1>3 DEF Shape, Places
  <2>2. order' \in [Requests -> Order \cup {Nil}]
        /\ \A q \in Requests : pc'[q] # "idle" => order'[q] \in Order
    BY <1>1, <1>2, <1>8, <1>10 DEF Shape, SameState
  <2>3. QED
    BY <1>1, <1>2, <1>3, <1>9, <1>12, <2>1, <2>2 DEF Shape, IDs
<1>15. Locked'
  BY <1>1, <1>3, <1>11 DEF Locked, Like
<1>16. Stored'
  <2>1. id'[r] \in IDs => OwnRow(r)'
    BY <1>1, <1>3, <1>4, <1>8, <1>13, OwnRowStays DEF Stored
  <2>2. QED
    BY <1>1, <1>10, <1>13, <2>1, OthersStay DEF Stored
<1>17. Copies'
  <2>1. ASSUME NEW d \in DOMAIN listed'[r]
        PROVE  OtherSide(r, d)'
    <3>1. OtherSide(r, d)
      BY <1>1, <1>4, <1>9, <2>1 DEF Copies
    <3>2. listed'[r][d] \in Order
      BY <1>9, <2>1, <3>1 DEF OtherSide
    <3>3. QED
      BY <1>8, <1>13, <3>1, <3>2, OtherSideStays
  <2>2. counterOrder'[r] \in DOMAIN listed'[r]
    BY <1>1, <1>2, <1>5, <1>9 DEF Shape
  <2>3. QED
    BY <1>1, <1>10, <1>13, <2>1, <2>2, OthersStay DEF Copies
<1>18. ASSUME NEW q \in Requests, InLoop(q), NEW d \in DOMAIN listed[q],
              d \notin overwritten'
       PROVE  orderRows'[d] = orderRows[d]
  <2>1. OtherSide(q, d) /\ d \in IDs
    BY <1>1, <1>18 DEF Copies, OtherSide, Rows
  <2>2. SUFFICES ASSUME d = id[r] PROVE FALSE
    BY <1>12, <2>1
  <2>3. orderRows[d].stock = order[r].stock /\ orderRows[d].side = order[r].side
    BY <1>1, <1>2, <1>4, <1>18, <2>1, <2>2 DEF Stored, OwnRow
  <2>4. q = r
    BY <1>1, <1>4, <1>18, <2>1, <2>3, OneLoop DEF OtherSide
  <2>5. QED
    BY <2>1, <2>3, <2>4, <1>6 DEF OtherSide, Opposite, Order, Sides
<1>19. ListIsCurrent'
  <2> SUFFICES ASSUME NEW q \in Requests, InLoop(q)'  PROVE Current(q)'
    BY DEF ListIsCurrent, Current, InLoop
  <2>1. overwritten \subseteq overwritten'
    BY <1>2
  <2>2. CASE q # r
    BY <1>1, <1>10, <1>11, <1>18, <2>1, <2>2, OthersCurrent
  <2>3. CASE q = r
    <3> SUFFICES ASSUME NEW d \in Pending(r)' \ overwritten', d # counterOrder'[r]
                 PROVE  listed'[r][d] = orderRows'[d]
      BY <1>4, <2>3 DEF Current, InTrade, Pending
    <3>1. d \in Pending(r) \ overwritten /\ d \in DOMAIN listed[r] /\ d # c
      BY <1>1, <1>2, <1>3, <1>9, <2>1 DEF Pending, Shape
    <3>2. listed[r][d] = orderRows[d]
      BY <1>1, <1>3, <1>4, <3>1 DEF ListIsCurrent
    <3>3. QED
      BY <1>4, <1>9, <1>18, <3>1, <3>2
  <2>4. QED
    BY <2>2, <2>3
<1>20. QED
  BY <1>14, <1>15, <1>16, <1>17, <1>19 DEF Inv

LEMMA UpdateCounterKeeps ==
  ASSUME Inv, NEW r \in Requests, UpdateCounter(r)
  PROVE  Inv'
<1> DEFINE c == counterOrder[r]
<1>1. Shape /\ Locked /\ Stored /\ Copies /\ ListIsCurrent
  BY DEF Inv
<1>2. PICK o \in Outcomes :
        /\ orderRows' = IF o.done THEN Update(c, listed[r][c]) ELSE orderRows
        /\ overwritten' = overwritten \cup (IF o.done /\ ~Waiting(c) THEN {} ELSE {c})
  BY DEF UpdateCounter, Remember
<1>3. pc[r] = "updated" /\ pc' = [pc EXCEPT ![r] = "recording"]
      /\ UNCHANGED <<clock, id, order, listed, visited, counterOrder, stockMu>>
  BY DEF UpdateCounter, counters, local
<1>4. \A q \in Requests : (InLoop(q)' <=> InLoop(q)) /\ (InTrade(q)' <=> InTrade(q))
                          /\ (Inside(q)' <=> Inside(q))
                          /\ (pc'[q] = "saved" <=> pc[q] = "saved")
  BY <1>1, <1>3 DEF InLoop, Inside, InTrade, Shape
<1>5. InLoop(r) /\ InTrade(r) /\ c \in DOMAIN listed[r] /\ OtherSide(r, c)
  BY <1>1, <1>3 DEF InLoop, InTrade, Copies
<1> HIDE DEF c
<1>6. /\ orderRows' \in [IDs -> Order \cup {Nil}]
      /\ \A j \in Rows : orderRows'[j] # Nil /\ Like(orderRows'[j], orderRows[j])
      /\ \A j \in IDs : j # c => orderRows'[j] = orderRows[j]
  <2>1. orderRows \in [IDs -> Order \cup {Nil}] /\ c \in Rows /\ listed[r][c] \in Order
    BY <1>1, <1>5 DEF Shape, OtherSide
  <2>2. CASE o.done
    BY <1>2, <2>1, <2>2, UpdateKeeps
  <2>3. CASE ~o.done
    BY <1>2, <2>1, <2>3 DEF Like, Rows
  <2>4. QED
    BY <2>2, <2>3
<1>7. RowsStay
  BY <1>2, <1>6 DEF RowsStay
<1>8. Shape'
  BY <1>1, <1>3, <1>6 DEF Shape, Places, IDs
<1>9. Locked'
  BY <1>1, <1>3, <1>4 DEF Locked
<1>10. \A q \in Requests : Like(order'[q], order[q])
  BY <1>3 DEF Like
<1>11. Stored'
  <2> SUFFICES ASSUME NEW q \in Requests, (pc[q] = "saved" \/ InLoop(q))',
                      id'[q] \in IDs
               PROVE  OwnRow(q)'
    BY DEF Stored, IDs
  <2>1. OwnRow(q)
    BY <1>1, <1>3, <1>4 DEF Stored
  <2>2. QED
    BY <1>3, <1>7, <1>10, <2>1, OwnRowStays
<1>12. Copies'
  <2>1. ASSUME NEW q \in Requests, InLoop(q)', NEW d \in DOMAIN listed'[q]
        PROVE  OtherSide(q, d)'
    <3>1. OtherSide(q, d)
      BY <1>1, <1>3, <1>4, <2>1 DEF Copies
    <3>2. listed'[q][d] \in Order
      BY <1>3, <3>1 DEF OtherSide
    <3>3. QED
      BY <1>7, <1>10, <3>1, <3>2, OtherSideStays
  <2>2. QED
    BY <1>1, <1>3, <1>4, <2>1 DEF Copies
<1>13. ListIsCurrent'
  <2> SUFFICES ASSUME NEW q \in Requests, InLoop(q)'  PROVE Current(q)'
    BY DEF ListIsCurrent, Current, InLoop
  <2>1. Current(q) /\ InLoop(q)
    BY <1>1, <1>4 DEF ListIsCurrent, Current, InLoop
  <2> SUFFICES ASSUME NEW d \in Pending(q)' \ overwritten',
                      ~(InTrade(q)' /\ d = counterOrder'[q])
               PROVE  listed'[q][d] = orderRows'[d]
    BY DEF Current, Pending
  <2>2. d \in Pending(q) \ overwritten /\ d \in DOMAIN listed[q]
    BY <1>2, <1>3 DEF Pending
  <2>3. listed[q][d] = orderRows[d]
    BY <1>3, <1>4, <2>1, <2>2 DEF Current
  <2>4. OtherSide(q, d)
    BY <1>1, <2>1, <2>2 DEF Copies
  <2>5. d # c
    <3> SUFFICES ASSUME d = c PROVE FALSE
      OBVIOUS
    <3>1. q = r
      BY <1>1, <1>5, <2>1, <2>4, OneLoop DEF OtherSide
    <3>2. QED
      BY <1>3, <1>4, <1>5, <3>1 DEF c
  <2>6. QED
    BY <1>3, <1>6, <2>3, <2>4, <2>5 DEF OtherSide, Rows
<1>14. QED
  BY <1>8, <1>9, <1>11, <1>12, <1>13 DEF Inv

LEMMA RecordTradeKeeps ==
  ASSUME Inv, NEW r \in Requests, RecordTrade(r)
  PROVE  Inv'
<1> DEFINE c == counterOrder[r]
<1>1. Shape /\ Locked /\ Stored /\ Copies /\ ListIsCurrent
  BY DEF Inv
<1>2. overwritten \subseteq overwritten'
  BY DEF RecordTrade, Remember
<1>3. pc[r] = "recording" /\ pc' = [pc EXCEPT ![r] = "matching"]
      /\ visited' = [visited EXCEPT ![r] = @ \cup {c}]
      /\ UNCHANGED <<clock, id, order, listed, counterOrder, stockMu, orderRows>>
  BY DEF RecordTrade
<1>4. \A q \in Requests : (InLoop(q)' <=> InLoop(q)) /\ (InTrade(q)' => InTrade(q))
                          /\ (Inside(q)' <=> Inside(q))
                          /\ (pc'[q] = "saved" <=> pc[q] = "saved")
  BY <1>1, <1>3 DEF InLoop, Inside, InTrade, Shape
<1>5. RowsStay
  BY <1>1, <1>2, <1>3 DEF RowsStay, Shape, Like, Rows
<1>6. Shape'
  BY <1>1, <1>3 DEF Shape, Places, IDs
<1>7. Locked'
  BY <1>1, <1>3, <1>4 DEF Locked
<1>8. Stored' /\ Copies'
  BY <1>1, <1>2, <1>3, <1>4 DEF Stored, Copies, OwnRow, OtherSide, Rows, IDs
<1>9. ListIsCurrent'
  <2> SUFFICES ASSUME NEW q \in Requests, InLoop(q)'  PROVE Current(q)'
    BY DEF ListIsCurrent, Current, InLoop
  <2>1. Current(q)
    BY <1>1, <1>4 DEF ListIsCurrent, Current, InLoop
  <2>2. CASE q = r
    <3>1. Pending(r)' \subseteq Pending(r) \ {c}
      BY <1>1, <1>3 DEF Pending, Shape
    <3>2. QED
      BY <1>2, <1>3, <2>1, <2>2, <3>1 DEF Current, Pending
  <2>3. CASE q # r
    <3>1. Pending(q)' = Pending(q) /\ (InTrade(q)' <=> InTrade(q))
      BY <1>1, <1>3, <2>3 DEF Pending, Shape, InTrade
    <3>2. QED
      BY <1>2, <1>3, <2>1, <3>1 DEF Current
  <2>4. QED
    BY <2>2, <2>3
<1>10. QED
  BY <1>6, <1>7, <1>8, <1>9 DEF Inv

LEMMA FinishMatchingKeeps ==
  ASSUME Inv, NEW r \in Requests, FinishMatching(r)
  PROVE  Inv'
<1>1. Shape /\ Locked /\ Stored /\ Copies /\ ListIsCurrent
  BY DEF Inv
<1>2. pc[r] \in {"matching", "returning"} /\ pc' = [pc EXCEPT ![r] = "done"]
      /\ stockMu' = [stockMu EXCEPT ![order[r].stock] = Nil]
      /\ UNCHANGED <<clock, id, order, listed, visited, counterOrder, orderRows,
                     overwritten>>
  BY DEF FinishMatching, Release, counters, local, tables, history
<1>3. /\ Inside(r) /\ ~Inside(r)' /\ ~InLoop(r)' /\ ~InTrade(r)'
      /\ pc'[r] # "saved"
  BY <1>1, <1>2 DEF InLoop, Inside, InTrade, Shape
<1>4. \A q \in Requests \ {r} : SameState(q) /\ (Inside(q)' <=> Inside(q))
  BY <1>1, <1>2 DEF SameState, Shape, Inside, InTrade
<1>5. RowsStay
  BY <1>1, <1>2 DEF RowsStay, Shape, Like, Rows
<1>6. Shape'
  BY <1>1, <1>2 DEF Shape, Places, IDs
<1>7. Locked'
  <2> SUFFICES ASSUME NEW q \in Requests, NEW s \in Stocks
               PROVE  stockMu'[s] = q <=> Inside(q)' /\ order[q].stock = s
    BY <1>2 DEF Locked
  <2>1. stockMu[s] = q <=> Inside(q) /\ order[q].stock = s
    BY <1>1 DEF Locked
  <2>2. stockMu'[s] = IF s = order[r].stock THEN Nil ELSE stockMu[s]
    BY <1>1, <1>2 DEF Shape
  <2>3. CASE q = r
    BY <1>3, <2>1, <2>2, <2>3, NilIsNothing
  <2>4. CASE q # r
    <3>1. ~(Inside(q) /\ order[q].stock = order[r].stock)
      <4>1. order[r].stock \in Stocks
        BY <1>1, <1>2 DEF Shape, Order
      <4>2. QED
        BY <1>1, <1>3, <2>4, <4>1 DEF Locked
    <3>2. QED
      BY <1>4, <2>1, <2>2, <2>4, <3>1, NilIsNothing
  <2>5. QED
    BY <2>3, <2>4
<1>8. Stored' /\ Copies'
  BY <1>1, <1>3, <1>4, <1>5, OthersStay DEF Stored, Copies
<1>9. ListIsCurrent'
  <2> SUFFICES ASSUME NEW q \in Requests, InLoop(q)'  PROVE Current(q)'
    BY DEF ListIsCurrent, Current, InLoop
  <2>1. QED
    BY <1>1, <1>2, <1>3, <1>4, OthersCurrent
<1>10. QED
  BY <1>6, <1>7, <1>8, <1>9 DEF Inv

LEMMA CrashKeeps ==
  ASSUME Inv, Crash
  PROVE  Inv'
<1>1. Shape
  BY DEF Inv
<1>2. pc' = [r \in Requests |->
               IF pc[r] \in {"idle", "done", "failed"} THEN pc[r] ELSE "lost"]
      /\ stockMu' = [s \in Stocks |-> Nil]
      /\ UNCHANGED <<clock, id, order, listed, visited, counterOrder, orderRows>>
  BY DEF Crash, local, tables
<1>3. \A r \in Requests : /\ ~InLoop(r)' /\ ~Inside(r)' /\ ~InTrade(r)'
                          /\ pc'[r] # "saved"
  BY <1>2 DEF InLoop, Inside, InTrade
<1>4. Shape'
  BY <1>1, <1>2 DEF Shape, Places, IDs
<1>5. Locked'
  BY <1>2, <1>3, NilIsNothing DEF Locked
<1>6. Stored' /\ Copies' /\ ListIsCurrent'
  BY <1>3 DEF Stored, Copies, ListIsCurrent, InLoop
<1>7. QED
  BY <1>4, <1>5, <1>6 DEF Inv

LEMMA StutterKeeps ==
  ASSUME Inv, UNCHANGED vars
  PROVE  Inv'
BY DEF vars, counters, local, tables, history, Inv, Shape, Locked, Stored, Copies,
   OwnRow, OtherSide, ListIsCurrent, InLoop, Inside, InTrade, Pending, Rows, IDs

LEMMA NextKeeps == Inv /\ [Next]_vars => Inv'
<1> SUFFICES ASSUME Inv, [Next]_vars PROVE Inv'
  OBVIOUS
<1>1. CASE UNCHANGED vars
  BY <1>1, StutterKeeps
<1>2. CASE Crash
  BY <1>2, CrashKeeps
<1>3. CASE AllOver
  BY <1>3, StutterKeeps DEF AllOver
<1>4. ASSUME NEW r \in Requests, CreateOrder(r) \/ Process(r)
      PROVE  Inv'
  BY <1>4, CreateOrderKeeps, SaveOrderKeeps, StartMatchingKeeps, SkipCounterKeeps,
     FillAndUpdateKeeps, UpdateCounterKeeps, RecordTradeKeeps, FinishMatchingKeeps
     DEF Process
<1>5. QED
  BY <1>1, <1>2, <1>3, <1>4 DEF Next

(* The invariant that the theorems below follow from.                       *)
THEOREM Invariance == Spec => []Inv
BY InitInv, NextKeeps, PTL DEF Spec

-----------------------------------------------------------------------------

(* Whatever calls fail and wherever the process crashes, the mutex of a     *)
(* stock is held by exactly the request that is between the Lock and the    *)
(* return of ProcessOrder for that stock, the return after a failing list   *)
(* included, over any number of requests and stocks.                        *)
THEOREM MutexIsTheLoops == Spec => []LockMeansLoop
<1>1. Inv => LockMeansLoop
  <2> SUFFICES ASSUME Inv, NEW r \in Requests
               PROVE  {s \in Stocks : stockMu[s] = r} =
                        IF Inside(r) THEN {order[r].stock} ELSE {}
    BY DEF LockMeansLoop
  <2>1. Inside(r) => order[r].stock \in Stocks
    BY DEF Inv, Shape, Inside, InTrade, Order
  <2>2. \A s \in Stocks : stockMu[s] = r <=> Inside(r) /\ order[r].stock = s
    BY DEF Inv, Locked
  <2>3. QED
    BY <2>1, <2>2
<1>2. QED
  BY <1>1, Invariance, PTL

(* What the loop of ProcessOrder has listed and not come to is what the     *)
(* orders table holds, except for the rows that a fault or the race for the  *)
(* mutex has left behind: the mutex of the stock keeps every other loop     *)
(* away.                                                                    *)
THEOREM CopiesAreRows == Spec => []ListIsCurrent
<1>1. Inv => ListIsCurrent
  BY DEF Inv
<1>2. QED
  BY <1>1, Invariance, PTL

-----------------------------------------------------------------------------
(* The rest of the shape of the state.                                      *)

Begun == {r \in Requests : pc[r] # "idle"}

(* Before the loop of r. *)
Early(r) == pc[r] \in {"idle", "created", "saved"}

(* What a loop has listed are copies of orders, and the order it trades     *)
(* with is one that it is not done with.                                    *)
ListType(r) ==
  /\ Early(r) => visited[r] = {}
  /\ DOMAIN listed[r] \subseteq IDs
  /\ \A c \in DOMAIN listed[r] : listed[r][c] \in Order
  /\ visited[r] \subseteq DOMAIN listed[r]
  /\ InTrade(r) => counterOrder[r] \in Pending(r)

(* The counter of the order IDs counts requests since the last crash, each  *)
(* of them once.                                                            *)
CountInv ==
  /\ orderSeq \in Nat /\ orderSeq <= Cardinality(Begun)
  /\ id \in [Requests -> IDs \cup {0}]
  /\ \A r \in Requests : id[r] = 0 <=> pc[r] = "idle"

TradeType ==
  /\ tradeSeq \in Nat
  /\ counterOrder \in [Requests -> Nat]
  /\ fillQty \in [Requests -> Nat]
  /\ tradeRows \subseteq Trade /\ IsFiniteSet(tradeRows)

FaultType ==
  /\ overwritten \subseteq IDs /\ unrecorded \subseteq IDs
  /\ faults \in 0 .. MaxFaults

TypeInv ==
  CountInv /\ (\A r \in Requests : ListType(r)) /\ TradeType /\ FaultType

LEMMA IDsType == IDs \subseteq Nat /\ 0 \notin IDs
<1>1. Cardinality(Requests) \in Nat
  BY FiniteRequests, FS_CardinalityType
<1>2. QED
  BY <1>1 DEF IDs

(* An owner has drawn an ID.                                                *)
LEMMA DrawnID ==
  ASSUME CountInv, NEW r \in Requests, pc[r] # "idle"
  PROVE  id[r] \in IDs
BY DEF CountInv

LEMMA TypeInit == Init => TypeInv
<1> SUFFICES ASSUME Init PROVE TypeInv
  OBVIOUS
<1>1. Begun = {}
  BY DEF Init, Begun
<1>2. CountInv
  BY <1>1, FS_EmptySet, IDsType DEF Init, CountInv
<1>3. ASSUME NEW r \in Requests
      PROVE  ListType(r)
  <2>1. listed[r] = <<>> /\ visited[r] = {} /\ ~InTrade(r) /\ DOMAIN <<>> = {}
    BY DEF Init, InTrade
  <2>2. QED
    BY <2>1 DEF ListType
<1>4. TradeType /\ FaultType
  BY FS_EmptySet, Bounds DEF Init, TradeType, FaultType
<1>5. QED
  BY <1>2, <1>3, <1>4 DEF TypeInv

(* A step that draws no ID and begins nothing.                              *)
LEMMA CountStays ==
  ASSUME CountInv, UNCHANGED id, orderSeq' \in {0, orderSeq},
         \A r \in Requests : pc'[r] = "idle" <=> pc[r] = "idle"
  PROVE  CountInv'
<1>1. Begun' = Begun
  BY DEF Begun
<1>2. Cardinality(Begun) \in Nat
  BY FiniteRequests, FS_Subset, FS_CardinalityType DEF Begun
<1>3. 0 \in Nat /\ IDs' = IDs
  BY DEF IDs
<1>4. QED
  BY <1>1, <1>2, <1>3 DEF CountInv

LEMMA ListStays ==
  ASSUME NEW q \in Requests, ListType(q), listed'[q] = listed[q],
         visited'[q] = visited[q], counterOrder'[q] = counterOrder[q],
         InTrade(q)' => InTrade(q), Early(q)' => Early(q)
  PROVE  ListType(q)'
BY DEF ListType, Pending, IDs

(* What a call to the database may change of the history.                   *)
LEMMA RememberType ==
  ASSUME FaultType, NEW o \in Outcomes, NEW S, S \subseteq IDs, Remember(o, S),
         unrecorded' \subseteq IDs
  PROVE  FaultType'
<1>1. faults' \in 0 .. MaxFaults
  <2>1. CASE o.ok
    BY <2>1 DEF FaultType, Remember
  <2>2. CASE ~o.ok
    <3>1. faults < MaxFaults /\ faults' = faults + 1
      BY <2>2, OutcomeType DEF Remember
    <3>2. QED
      BY <3>1, Bounds DEF FaultType
  <2>3. QED
    BY <2>1, <2>2
<1>2. overwritten' \subseteq IDs
  BY DEF FaultType, Remember
<1>3. IDs' = IDs
  BY DEF IDs
<1>4. QED
  BY <1>1, <1>2, <1>3 DEF FaultType

LEMMA TypeCreateOrder ==
  ASSUME Inv, TypeInv, NEW r \in Requests, CreateOrder(r)
  PROVE  TypeInv'
<1>1. /\ pc[r] = "idle" /\ pc' = [pc EXCEPT ![r] = "created"]
      /\ orderSeq' = orderSeq + 1 /\ id' = [id EXCEPT ![r] = orderSeq']
      /\ UNCHANGED <<tradeSeq, listed, visited, counterOrder, fillQty, tradeRows,
                     overwritten, unrecorded, faults>>
  BY DEF CreateOrder, local, tables, history
<1>2. pc \in [Requests -> Places] /\ CountInv
  BY DEF Inv, Shape, TypeInv
<1>3. Begun' = Begun \cup {r} /\ r \notin Begun
  BY <1>1, <1>2 DEF Begun
<1>4. IsFiniteSet(Begun) /\ Cardinality(Begun) \in Nat
  BY FiniteRequests, FS_Subset, FS_CardinalityType DEF Begun
<1>5. Cardinality(Begun') = Cardinality(Begun) + 1
  BY <1>3, <1>4, FS_AddElement
<1>6. Begun' \subseteq Requests
  BY DEF Begun
<1>7. Cardinality(Begun') <= Cardinality(Requests) /\ Cardinality(Requests) \in Nat
  BY <1>6, FiniteRequests, FS_Subset, FS_CardinalityType
<1>8. orderSeq' \in Nat /\ orderSeq' <= Cardinality(Begun') /\ orderSeq' \in IDs
  BY <1>1, <1>2, <1>4, <1>5, <1>7 DEF CountInv, IDs
<1>9. CountInv'
  BY <1>1, <1>2, <1>8, IDsType DEF CountInv, IDs
<1>10. \A q \in Requests : ListType(q)'
  <2> SUFFICES ASSUME NEW q \in Requests PROVE ListType(q)'
    OBVIOUS
  <2>1. (InTrade(q)' => InTrade(q)) /\ (Early(q)' => Early(q))
    BY <1>1, <1>2 DEF InTrade, Early
  <2>2. QED
    BY <1>1, <2>1, ListStays DEF TypeInv
<1>11. TradeType' /\ FaultType'
  BY <1>1 DEF TypeInv, TradeType, FaultType, Trade, IDs
<1>12. QED
  BY <1>9, <1>10, <1>11 DEF TypeInv

(* A step that is only about the mutex, the row of r or the place of r.     *)
LEMMA TypeQuiet ==
  ASSUME TypeInv, NEW r \in Requests,
         UNCHANGED <<id, orderSeq, listed, visited, counterOrder, fillQty, tradeSeq,
                     tradeRows>>,
         \A q \in Requests : /\ pc'[q] = "idle" <=> pc[q] = "idle"
                             /\ InTrade(q)' => InTrade(q)
                             /\ Early(q)' => Early(q),
         FaultType'
  PROVE  TypeInv'
<1>1. CountInv'
  BY CountStays DEF TypeInv
<1>2. \A q \in Requests : ListType(q)'
  BY ListStays DEF TypeInv
<1>3. TradeType'
  BY DEF TypeInv, TradeType, Trade, IDs
<1>4. QED
  BY <1>1, <1>2, <1>3 DEF TypeInv

LEMMA TypeSaveOrder ==
  ASSUME Inv, TypeInv, NEW r \in Requests, SaveOrder(r)
  PROVE  TypeInv'
<1>1. PICK o \in Outcomes :
        /\ pc' = [pc EXCEPT ![r] = IF o.ok THEN "saved" ELSE "failed"]
        /\ Remember(o, IF o.done /\ id[r] \in Rows THEN {id[r]} ELSE {})
  BY DEF SaveOrder
<1>2. pc[r] = "created" /\ pc \in [Requests -> Places]
      /\ UNCHANGED <<id, orderSeq, listed, visited, counterOrder, fillQty, tradeSeq,
                     tradeRows, unrecorded>>
  BY DEF SaveOrder, counters, local, Inv, Shape
<1>3. FaultType'
  <2>1. FaultType /\ unrecorded' \subseteq IDs /\ Rows \subseteq IDs
    BY <1>2 DEF TypeInv, FaultType, Rows
  <2>2. PICK S : S \subseteq IDs /\ Remember(o, S)
    BY <1>1, <2>1
  <2>3. QED
    BY <2>1, <2>2, RememberType
<1>4. \A q \in Requests : /\ pc'[q] = "idle" <=> pc[q] = "idle"
                          /\ InTrade(q)' => InTrade(q)
                          /\ Early(q)' => Early(q)
  BY <1>1, <1>2 DEF InTrade, Early
<1>5. QED
  BY <1>2, <1>3, <1>4, TypeQuiet

LEMMA TypeStartMatching ==
  ASSUME Inv, TypeInv, NEW r \in Requests, StartMatching(r)
  PROVE  TypeInv'
<1> DEFINE list == GetOpenOrdersByStock(order[r].stock, Opposite(order[r].side))
<1>1. PICK o \in Outcomes :
        /\ listed' = IF o.ok THEN [listed EXCEPT ![r] = list] ELSE listed
        /\ pc' = [pc EXCEPT ![r] = IF o.ok THEN "matching" ELSE "returning"]
        /\ Remember(o, {})
  BY DEF StartMatching
<1>2. pc[r] = "saved" /\ pc \in [Requests -> Places] /\ DOMAIN listed = Requests
      /\ UNCHANGED <<id, orderSeq, visited, counterOrder, fillQty, tradeSeq, tradeRows,
                     unrecorded>>
  BY DEF StartMatching, counters, tables, Inv, Shape
<1>3. FaultType'
  BY <1>1, <1>2, RememberType DEF TypeInv, FaultType
<1>4. CountInv'
  <2>1. \A q \in Requests : pc'[q] = "idle" <=> pc[q] = "idle"
    BY <1>1, <1>2
  <2>2. QED
    BY <1>2, <2>1, CountStays DEF TypeInv
<1>5. DOMAIN list \subseteq IDs /\ \A c \in DOMAIN list : list[c] \in Order
  BY DEF GetOpenOrdersByStock, Rows, Inv, Shape
<1> HIDE DEF list
<1>6. ASSUME NEW q \in Requests
      PROVE  ListType(q)'
  <2>1. (InTrade(q)' => InTrade(q)) /\ (Early(q)' => Early(q))
    BY <1>1, <1>2 DEF InTrade, Early
  <2>2. CASE q = r /\ o.ok
    <3>1. visited[r] = {}
      BY <1>2 DEF TypeInv, ListType, Early
    <3>2. ~InTrade(r)' /\ ~Early(r)'
      BY <1>1, <1>2, <2>2 DEF InTrade, Early
    <3>3. QED
      BY <1>1, <1>2, <1>5, <2>2, <3>1, <3>2 DEF ListType, IDs
  <2>3. CASE q # r \/ ~o.ok
    BY <1>1, <1>2, <2>1, <2>3, ListStays DEF TypeInv
  <2>4. QED
    BY <2>2, <2>3
<1>7. TradeType'
  BY <1>2 DEF TypeInv, TradeType, Trade, IDs
<1>8. QED
  BY <1>3, <1>4, <1>6, <1>7 DEF TypeInv

LEMMA TypeSkipCounter ==
  ASSUME Inv, TypeInv, NEW r \in Requests, SkipCounter(r)
  PROVE  TypeInv'
<1>1. PICK c \in Earliest(r) : visited' = [visited EXCEPT ![r] = @ \cup {c}]
  BY DEF SkipCounter
<1>2. pc[r] = "matching" /\ DOMAIN visited = Requests
      /\ UNCHANGED <<pc, id, orderSeq, listed, counterOrder, fillQty, tradeSeq,
                     tradeRows, overwritten, unrecorded, faults>>
  BY DEF SkipCounter, counters, tables, history, Inv, Shape
<1>3. ASSUME NEW q \in Requests
      PROVE  ListType(q)'
  <2>1. CASE q = r
    <3>1. ListType(r) /\ ~InTrade(r)' /\ ~Early(r)' /\ c \in DOMAIN listed[r]
      BY <1>1, <1>2 DEF TypeInv, InTrade, Early, Earliest, Pending
    <3>2. QED
      BY <1>1, <1>2, <2>1, <3>1 DEF ListType, IDs
  <2>2. CASE q # r
    BY <1>1, <1>2, <2>2, ListStays DEF TypeInv, InTrade, Early
  <2>3. QED
    BY <2>1, <2>2
<1>4. QED
  BY <1>2, <1>3, CountStays
     DEF TypeInv, TradeType, FaultType, Trade, IDs

LEMMA TypeFillAndUpdate ==
  ASSUME Inv, TypeInv, NEW r \in Requests, FillAndUpdate(r)
  PROVE  TypeInv'
<1> DEFINE qty(c) == FillQty(order[r], listed[r][c])
<1>1. PICK c \in Earliest(r), o \in Outcomes :
        /\ listed' = [listed EXCEPT ![r][c] = Fill(@, qty(c))]
        /\ counterOrder' = [counterOrder EXCEPT ![r] = c]
        /\ fillQty' = [fillQty EXCEPT ![r] = qty(c)]
        /\ Remember(o, IF o.done THEN {} ELSE {id[r]})
  BY DEF FillAndUpdate
<1>2. pc[r] = "matching" /\ pc' = [pc EXCEPT ![r] = "updated"]
      /\ pc \in [Requests -> Places]
      /\ DOMAIN listed = Requests /\ order[r] \in Order
      /\ UNCHANGED <<id, orderSeq, visited, tradeSeq, tradeRows, unrecorded>>
  BY DEF FillAndUpdate, counters, Inv, Shape
<1>3. CountInv /\ TradeType /\ FaultType /\ \A q \in Requests : ListType(q)
  BY DEF TypeInv
<1>4. c \in DOMAIN listed[r] \ visited[r] /\ c \in IDs /\ c \in Nat
      /\ listed[r][c] \in Order
  BY <1>1, <1>3, IDsType DEF Earliest, Pending, ListType
<1>5. qty(c) \in Nat
  BY <1>2, <1>4 DEF FillQty, Order
<1> HIDE DEF qty
<1>6. id[r] \in IDs
  BY <1>2, <1>3 DEF CountInv
<1>7. FaultType'
  <2>1. unrecorded' \subseteq IDs
    BY <1>2, <1>3 DEF FaultType
  <2>2. PICK S : S \subseteq IDs /\ Remember(o, S)
    BY <1>1, <1>6
  <2>3. QED
    BY <1>3, <2>1, <2>2, RememberType
<1>8. \A q \in Requests : pc'[q] = "idle" <=> pc[q] = "idle"
  BY <1>2
<1>9. CountInv'
  BY <1>2, <1>3, <1>8, CountStays
<1>10. TradeType'
  BY <1>1, <1>2, <1>3, <1>4, <1>5 DEF TradeType, Trade, IDs
<1>11. ASSUME NEW q \in Requests
       PROVE  ListType(q)'
  <2>1. CASE q = r
    <3>1. listed'[r] = [listed[r] EXCEPT ![c] = Fill(@, qty(c))]
      BY <1>1, <1>2
    <3>2. Fill(listed[r][c], qty(c)) \in Order
      BY <1>4, <1>5, FillType
    <3>3. DOMAIN listed'[r] = DOMAIN listed[r]
          /\ \A d \in DOMAIN listed[r] : listed'[r][d] \in Order
      BY <1>3, <1>4, <3>1, <3>2 DEF ListType
    <3>4. counterOrder'[r] = c
      BY <1>1, <1>3 DEF TradeType
    <3>5. ~Early(r)'
      BY <1>2 DEF Early
    <3>6. QED
      BY <1>2, <1>3, <1>4, <2>1, <3>3, <3>4, <3>5 DEF ListType, Pending, IDs
  <2>2. CASE q # r
    <3>1. (InTrade(q)' => InTrade(q)) /\ (Early(q)' => Early(q))
      BY <1>2, <2>2 DEF InTrade, Early
    <3>2. QED
      BY <1>1, <1>2, <1>3, <2>2, <3>1, ListStays DEF TradeType
  <2>3. QED
    BY <2>1, <2>2
<1>12. QED
  BY <1>7, <1>9, <1>10, <1>11 DEF TypeInv

LEMMA TypeUpdateCounter ==
  ASSUME Inv, TypeInv, NEW r \in Requests, UpdateCounter(r)
  PROVE  TypeInv'
<1> DEFINE c == counterOrder[r]
<1>1. PICK o \in Outcomes : Remember(o, IF o.done /\ ~Waiting(c) THEN {} ELSE {c})
  BY DEF UpdateCounter
<1>2. pc[r] = "updated" /\ pc' = [pc EXCEPT ![r] = "recording"]
      /\ pc \in [Requests -> Places]
      /\ UNCHANGED <<id, orderSeq, listed, visited, counterOrder, fillQty, tradeSeq,
                     tradeRows, unrecorded>>
  BY DEF UpdateCounter, counters, local, Inv, Shape
<1>3. c \in IDs
  BY <1>2 DEF TypeInv, ListType, InTrade, Pending
<1>4. FaultType'
  <2>1. FaultType /\ unrecorded' \subseteq IDs
    BY <1>2 DEF TypeInv, FaultType
  <2>2. PICK S : S \subseteq IDs /\ Remember(o, S)
    BY <1>1, <1>3
  <2>3. QED
    BY <2>1, <2>2, RememberType
<1>5. \A q \in Requests : /\ pc'[q] = "idle" <=> pc[q] = "idle"
                          /\ InTrade(q)' => InTrade(q)
                          /\ Early(q)' => Early(q)
  BY <1>2 DEF InTrade, Early
<1>6. QED
  BY <1>2, <1>4, <1>5, TypeQuiet

LEMMA TypeRecordTrade ==
  ASSUME Inv, TypeInv, NEW r \in Requests, RecordTrade(r)
  PROVE  TypeInv'
<1> DEFINE c == counterOrder[r]
           trade == [id       |-> tradeSeq + 1,
                     buy      |-> IF order[r].side = "BUY" THEN id[r] ELSE c,
                     sell     |-> IF order[r].side = "BUY" THEN c ELSE id[r],
                     price    |-> listed[r][c].price,
                     quantity |-> fillQty[r]]
<1>1. PICK o \in Outcomes :
        /\ tradeRows' = IF o.done THEN Insert(trade) ELSE tradeRows
        /\ unrecorded' \subseteq unrecorded \cup {id[r], c}
        /\ Remember(o, {})
  BY DEF RecordTrade
<1>2. pc[r] = "recording" /\ pc' = [pc EXCEPT ![r] = "matching"]
      /\ pc \in [Requests -> Places] /\ tradeSeq' = tradeSeq + 1
      /\ DOMAIN visited = Requests
      /\ visited' = [visited EXCEPT ![r] = @ \cup {c}]
      /\ UNCHANGED <<id, orderSeq, listed, counterOrder, fillQty>>
  BY DEF RecordTrade, Inv, Shape
<1>3. CountInv /\ TradeType /\ FaultType /\ \A q \in Requests : ListType(q)
  BY DEF TypeInv
<1>4. c \in DOMAIN listed[r] /\ c \in IDs /\ listed[r][c] \in Order /\ id[r] \in IDs
  BY <1>2, <1>3 DEF ListType, InTrade, Pending, CountInv
<1>5. FaultType'
  <2>1. unrecorded' \subseteq IDs
    BY <1>1, <1>3, <1>4 DEF FaultType
  <2>2. QED
    BY <1>1, <1>3, <2>1, RememberType
<1>6. CountInv'
  <2>1. \A q \in Requests : pc'[q] = "idle" <=> pc[q] = "idle"
    BY <1>2
  <2>2. QED
    BY <1>2, <1>3, <2>1, CountStays
<1>7. TradeType'
  <2>1. trade \in Trade
    BY <1>3, <1>4 DEF TradeType, Trade, Order
  <2> HIDE DEF trade
  <2>2. IsFiniteSet(tradeRows \cup {trade})
    BY <1>3, FS_AddElement DEF TradeType
  <2>3. tradeRows' \subseteq tradeRows \cup {trade}
    BY <1>1 DEF Insert
  <2>4. tradeRows' \subseteq Trade /\ IsFiniteSet(tradeRows')
    BY <1>3, <2>1, <2>2, <2>3, FS_Subset DEF TradeType
  <2>5. /\ tradeSeq' \in Nat
        /\ counterOrder' \in [Requests -> Nat] /\ fillQty' \in [Requests -> Nat]
    <3>1. /\ tradeSeq \in Nat
          /\ counterOrder \in [Requests -> Nat] /\ fillQty \in [Requests -> Nat]
      BY <1>3 DEF TradeType
    <3>2. tradeSeq' = tradeSeq + 1 /\ counterOrder' = counterOrder /\ fillQty' = fillQty
      BY <1>2
    <3>3. QED
      BY <3>1, <3>2
  <2>6. Trade' = Trade
    BY DEF Trade, IDs
  <2>7. QED
    BY <2>4, <2>5, <2>6 DEF TradeType
<1>8. ASSUME NEW q \in Requests
      PROVE  ListType(q)'
  <2>1. CASE q = r
    <3>1. ~InTrade(r)' /\ ~Early(r)'
      BY <1>2 DEF InTrade, Early
    <3>2. QED
      BY <1>2, <1>3, <1>4, <2>1, <3>1 DEF ListType, IDs
  <2>2. CASE q # r
    <3>1. (InTrade(q)' => InTrade(q)) /\ (Early(q)' => Early(q))
      BY <1>2, <2>2 DEF InTrade, Early
    <3>2. QED
      BY <1>2, <1>3, <2>2, <3>1, ListStays
  <2>3. QED
    BY <2>1, <2>2
<1>9. QED
  BY <1>5, <1>6, <1>7, <1>8 DEF TypeInv

LEMMA TypeFinishMatching ==
  ASSUME Inv, TypeInv, NEW r \in Requests, FinishMatching(r)
  PROVE  TypeInv'
<1>1. pc[r] \in {"matching", "returning"} /\ pc' = [pc EXCEPT ![r] = "done"]
      /\ pc \in [Requests -> Places]
      /\ UNCHANGED <<id, orderSeq, listed, visited, counterOrder, fillQty, tradeSeq,
                     tradeRows, overwritten, unrecorded, faults>>
  BY DEF FinishMatching, counters, local, tables, history, Inv, Shape
<1>2. FaultType'
  BY <1>1 DEF TypeInv, FaultType, IDs
<1>3. \A q \in Requests : /\ pc'[q] = "idle" <=> pc[q] = "idle"
                          /\ InTrade(q)' => InTrade(q)
                          /\ Early(q)' => Early(q)
  BY <1>1 DEF InTrade, Early
<1>4. QED
  BY <1>1, <1>2, <1>3, TypeQuiet

LEMMA TypeCrash ==
  ASSUME Inv, TypeInv, Crash
  PROVE  TypeInv'
<1>1. /\ faults < MaxFaults /\ faults' = faults + 1
      /\ pc' = [r \in Requests |->
                  IF pc[r] \in {"idle", "done", "failed"} THEN pc[r] ELSE "lost"]
      /\ orderSeq' = 0 /\ tradeSeq' = 0
      /\ unrecorded' = unrecorded
           \cup {id[r] : r \in {q \in Requests : InTrade(q)}}
           \cup {counterOrder[r] : r \in {q \in Requests : pc[q] = "recording"}}
      /\ UNCHANGED <<overwritten, id, listed, visited, counterOrder, fillQty, tradeRows>>
  BY DEF Crash, local, tables
<1>2. CountInv /\ TradeType /\ FaultType /\ \A q \in Requests : ListType(q)
  BY DEF TypeInv
<1>3. \A q \in Requests : /\ pc'[q] = "idle" <=> pc[q] = "idle"
                          /\ ~InTrade(q)'
                          /\ Early(q)' => Early(q)
  BY <1>1 DEF InTrade, Early
<1>4. CountInv'
  BY <1>1, <1>2, <1>3, CountStays
<1>5. \A q \in Requests : ListType(q)'
  BY <1>1, <1>2, <1>3, ListStays
<1>6. FaultType'
  <2>1. \A q \in Requests : InTrade(q) => id[q] \in IDs /\ counterOrder[q] \in IDs
    BY <1>2 DEF ListType, InTrade, Pending, CountInv
  <2>2. unrecorded' \subseteq IDs
    BY <1>1, <1>2, <2>1 DEF FaultType, InTrade
  <2>3. QED
    BY <1>1, <1>2, <2>2, Bounds DEF FaultType, IDs
<1>7. TradeType'
  BY <1>1, <1>2 DEF TradeType, Trade, IDs
<1>8. QED
  BY <1>4, <1>5, <1>6, <1>7 DEF TypeInv

LEMMA TypeStutter ==
  ASSUME TypeInv, UNCHANGED vars
  PROVE  TypeInv'
<1>1. UNCHANGED <<pc, id, orderSeq, listed, visited, counterOrder, fillQty, tradeSeq,
                  tradeRows, overwritten, unrecorded, faults>>
  BY DEF vars, counters, local, tables, history
<1>2. FaultType' /\ TradeType'
  BY <1>1 DEF TypeInv, FaultType, TradeType, Trade, IDs
<1>3. CountInv'
  BY <1>1, CountStays DEF TypeInv
<1>4. \A q \in Requests : ListType(q)'
  BY <1>1, ListStays DEF TypeInv, InTrade, Early
<1>5. QED
  BY <1>2, <1>3, <1>4 DEF TypeInv

LEMMA TypeStep == Inv /\ TypeInv /\ [Next]_vars => TypeInv'
<1> SUFFICES ASSUME Inv, TypeInv, [Next]_vars PROVE TypeInv'
  OBVIOUS
<1>1. CASE UNCHANGED vars
  BY <1>1, TypeStutter
<1>2. CASE Crash
  BY <1>2, TypeCrash
<1>3. CASE AllOver
  BY <1>3, TypeStutter DEF AllOver
<1>4. ASSUME NEW r \in Requests, CreateOrder(r) \/ Process(r)
      PROVE  TypeInv'
  BY <1>4, TypeCreateOrder, TypeSaveOrder, TypeStartMatching, TypeSkipCounter,
     TypeFillAndUpdate, TypeUpdateCounter, TypeRecordTrade, TypeFinishMatching
     DEF Process
<1>5. QED
  BY <1>1, <1>2, <1>3, <1>4 DEF Next

(* Every request draws an ID from the range of the tables, although the     *)
(* counter starts again with the process, and the order that is traded with *)
(* is one of the list that is not done with.                                *)
THEOREM TypesInvariance == Spec => []TypeInv
BY TypeInit, TypeStep, Invariance, PTL DEF Spec

(* The state has its shape, whatever fails and however often the process    *)
(* crashes.                                                                 *)
THEOREM WellTyped == Spec => []TypeOK
<1>1. Inv /\ TypeInv => TypeOK
  <2> SUFFICES ASSUME Inv, TypeInv PROVE TypeOK
    OBVIOUS
  <2>1. Cardinality(Begun) <= Cardinality(Requests) /\ Cardinality(Begun) \in Nat
        /\ Cardinality(Requests) \in Nat
    BY FiniteRequests, FS_Subset, FS_CardinalityType DEF Begun
  <2>2. orderSeq \in 0 .. Cardinality(Requests)
    BY <2>1 DEF TypeInv, CountInv
  <2>3. QED
    BY <2>2 DEF Inv, Shape, Places, TypeInv, CountInv, ListType, TradeType, FaultType,
       TypeOK
<1>2. QED
  BY <1>1, Invariance, TypesInvariance, PTL

-----------------------------------------------------------------------------
(* The two tables agree.                                                    *)

(* The order of r is in the table and may still be traded by r.             *)
Live(r) == pc[r] = "saved" \/ InLoop(r)

(* The order of a request is unfilled until it is saved.                    *)
NewInv ==
  \A r \in Requests : pc[r] = "created" =>
    order[r].filled = 0 /\ order[r].remaining = order[r].quantity

(* The row of an ID not overwritten is the object of the one request that   *)
(* may still trade with it.                                                 *)
OwnerInv ==
  \A r \in Requests : Live(r) /\ id[r] \notin overwritten =>
    /\ orderRows[id[r]] = order[r]
    /\ \A q \in Requests : Live(q) /\ id[q] = id[r] => q = r

(* Between the two UpdateStatus the row of the counter order is one fill    *)
(* behind its copy.                                                         *)
Behind(r, c) ==
  /\ listed[r][c] = Fill(orderRows[c], fillQty[r])
  /\ fillQty[r] <= orderRows[c].remaining

BehindInv ==
  \A r \in Requests : pc[r] = "updated" /\ counterOrder[r] \notin overwritten =>
    Behind(r, counterOrder[r])

(* Only saved orders are traded.                                            *)
TradesInv == \A t \in tradeRows : t.buy \in Rows /\ t.sell \in Rows

(* An ID that orders of two stocks were given.                              *)
Reused(c) ==
  \E q \in Requests : id[q] = c /\ order[q].stock # orderRows[c].stock

(* A copy that its loop is not done with is never less filled than its row, *)
(* unless that is the row of the loop's own order or its ID was reused.     *)
Ahead(r, c) ==
  \/ orderRows[c].filled <= listed[r][c].filled
  \/ id[r] = c
  \/ Reused(c)

AheadInv ==
  \A r \in Requests : InLoop(r) => \A c \in Pending(r) : Ahead(r, c)

TablesInv ==
  NewInv /\ OwnerInv /\ BehindInv /\ TradesInv /\ AheadInv /\ Conservation

-----------------------------------------------------------------------------
(* What is in flight.                                                       *)

(* No loop lists another one's order, but for an ID that is overwritten.    *)
LEMMA NotListed ==
  ASSUME Inv, OwnerInv, NEW q \in Requests, InLoop(q), NEW c \in DOMAIN listed[q],
         NEW r \in Requests, InLoop(r), id[r] = c, c \notin overwritten
  PROVE  FALSE
<1>1. OtherSide(q, c)
  BY DEF Inv, Copies
<1>2. orderRows[c] = order[r]
  BY DEF OwnerInv, Live
<1>3. order[q].stock = order[r].stock /\ order[r].side = Opposite(order[q].side)
  BY <1>1, <1>2 DEF OtherSide
<1>4. q = r
  BY <1>3, OneLoop DEF Inv
<1>5. order[r] \in Order
  BY DEF Inv, Shape, InLoop, InTrade
<1>6. QED
  BY <1>3, <1>4, <1>5 DEF Opposite, Order, Sides

(* Who has filled i and not yet recorded the trade.                         *)
Serving(i) ==
  {r \in Requests :
     \/ pc[r] \in {"updated", "recording"} /\ id[r] = i
     \/ pc[r] = "recording" /\ counterOrder[r] = i}

LEMMA ServingLoops ==
  ASSUME Inv, NEW i, NEW r \in Serving(i)
  PROVE  /\ r \in Requests /\ InLoop(r) /\ InTrade(r)
         /\ id[r] = i \/ (counterOrder[r] = i /\ i \in DOMAIN listed[r])
BY DEF Serving, InLoop, InTrade, Inv, Copies

LEMMA OneServer ==
  ASSUME Inv, OwnerInv, NEW i, i \notin overwritten, NEW q \in Serving(i),
         NEW r \in Serving(i)
  PROVE  q = r
<1>1. /\ q \in Requests /\ InLoop(q) /\ r \in Requests /\ InLoop(r)
      /\ id[q] = i \/ i \in DOMAIN listed[q]
      /\ id[r] = i \/ i \in DOMAIN listed[r]
  BY ServingLoops
<1>2. CASE id[q] = i /\ id[r] = i
  BY <1>1, <1>2 DEF OwnerInv, Live
<1>3. CASE i \in DOMAIN listed[q] /\ i \in DOMAIN listed[r]
  <2>1. OtherSide(q, i) /\ OtherSide(r, i)
    BY <1>1, <1>3 DEF Inv, Copies
  <2>2. order[q].stock = order[r].stock
    BY <2>1 DEF OtherSide
  <2>3. QED
    BY <1>1, <2>2, OneLoop DEF Inv
<1>4. QED
  BY <1>1, <1>2, <1>3, NotListed

(* What is in flight for an ID not overwritten is what one loop trades, or  *)
(* nothing.                                                                 *)
FlightInv ==
  \A i : i \notin overwritten =>
    /\ \A r \in Serving(i) : InFlight(i) = fillQty[r]
    /\ Serving(i) = {} => InFlight(i) = 0

LEMMA FlightKnown == Inv /\ TypeInv /\ OwnerInv => FlightInv
<1> SUFFICES ASSUME Inv, TypeInv, OwnerInv, NEW i, i \notin overwritten
             PROVE  /\ \A r \in Serving(i) : InFlight(i) = fillQty[r]
                    /\ Serving(i) = {} => InFlight(i) = 0
  BY DEF FlightInv
<1>1. InFlight(i) = SumFunctionOnSet(fillQty, Serving(i))
  BY DEF InFlight, Serving
<1>2. Serving(i) = {} => InFlight(i) = 0
  BY <1>1, SumEmpty
<1>3. ASSUME NEW r \in Serving(i)
      PROVE  InFlight(i) = fillQty[r]
  <2>1. Serving(i) = {r}
    BY OneServer
  <2>2. fillQty[r] \in Int
    BY DEF Serving, TypeInv, TradeType
  <2>3. SumFunctionOnSet(fillQty, {r}) = fillQty[r]
    BY <2>2, SumOne
  <2>4. QED
    BY <1>1, <2>1, <2>3
<1>4. QED
  BY <1>2, <1>3

LEMMA FlightKnownNext == (Inv /\ TypeInv /\ OwnerInv)' => FlightInv'
BY FlightKnown, PTL

LEMMA TradedIsTotal ==
  ASSUME NEW i
  PROVE  TradedQty(i) = Total({t \in tradeRows : i \in {t.buy, t.sell}})
BY DEF TradedQty, Total

LEMMA TradedNat ==
  ASSUME TypeInv, NEW i
  PROVE  TradedQty(i) \in Nat
<1>1. tradeRows \subseteq Trade /\ IsFiniteSet(tradeRows)
  BY DEF TypeInv, TradeType
<1>2. \A t \in tradeRows : t.quantity \in Nat
  BY <1>1 DEF Trade
<1>3. IsFiniteSet({t \in tradeRows : i \in {t.buy, t.sell}})
  BY <1>1, FS_Subset
<1>4. QED
  BY <1>2, <1>3, TradedIsTotal, TotalNat

-----------------------------------------------------------------------------
(* Steps that leave what they do not touch.                                 *)

Balanced(i) ==
  /\ orderRows[i].filled + orderRows[i].remaining = orderRows[i].quantity
  /\ orderRows[i].filled >= TradedQty(i) + InFlight(i)
  /\ i \notin unrecorded => orderRows[i].filled = TradedQty(i) + InFlight(i)

(* Neither the row of i, nor who serves it, nor its trades change.          *)
LEMMA BalanceStays ==
  ASSUME TypeInv, NEW i, Balanced(i), orderRows'[i] = orderRows[i],
         TradedQty(i)' = TradedQty(i), Serving(i)' = Serving(i),
         \A r \in Serving(i) : fillQty'[r] = fillQty[r],
         unrecorded \subseteq unrecorded'
  PROVE  Balanced(i)'
<1>1. InFlight(i)' = InFlight(i)
  <2>1. /\ InFlight(i) = SumFunctionOnSet(fillQty, Serving(i))
        /\ InFlight(i)' = SumFunctionOnSet(fillQty', Serving(i)')
    BY DEF InFlight, Serving
  <2>2. IsFiniteSet(Serving(i))
    BY FiniteRequests, FS_Subset DEF Serving
  <2>3. PICK f, g, S : f = fillQty /\ g = fillQty' /\ S = Serving(i)
    OBVIOUS
  <2>4. SumFunctionOnSet(f, S) = SumFunctionOnSet(g, S)
    BY <2>2, <2>3, SumSame
  <2>5. QED
    BY <2>1, <2>3, <2>4
<1>2. QED
  BY <1>1 DEF Balanced

LEMMA TradedStays ==
  ASSUME UNCHANGED tradeRows, NEW i
  PROVE  TradedQty(i)' = TradedQty(i)
BY DEF TradedQty

(* Who trades goes on as he was, and nobody joins in.                       *)
LEMMA ServingStays ==
  ASSUME \A q \in Requests : InTrade(q) \/ InTrade(q)' =>
           pc'[q] = pc[q] /\ id'[q] = id[q] /\ counterOrder'[q] = counterOrder[q],
         NEW i
  PROVE  Serving(i)' = Serving(i)
BY DEF Serving, InTrade

(* IDs once drawn stay, and the terms of an order too. *)
TermsStay ==
  \A q \in Requests : id[q] \in IDs =>
    id'[q] = id[q] /\ order'[q].stock = order[q].stock

LEMMA ReusedStays ==
  ASSUME TermsStay, RowsStay, NEW c \in Rows, Reused(c)
  PROVE  Reused(c)'
BY DEF TermsStay, RowsStay, Like, Reused, Rows

(* A copy whose row stays or is less filled than before.                    *)
LEMMA AheadStays ==
  ASSUME TermsStay, RowsStay, NEW q \in Requests, NEW c \in Rows, Ahead(q, c),
         id'[q] = id[q], listed'[q][c] = listed[q][c], orderRows'[c] = orderRows[c]
  PROVE  Ahead(q, c)'
BY ReusedStays DEF Ahead

LEMMA PendingRows ==
  ASSUME Inv, NEW q \in Requests, InLoop(q), NEW c \in Pending(q)
  PROVE  /\ OtherSide(q, c) /\ c \in Rows /\ c \in IDs /\ orderRows[c] \in Order
         /\ listed[q][c] \in Order
<1>1. OtherSide(q, c)
  BY DEF Inv, Copies, Pending
<1>2. QED
  BY <1>1 DEF OtherSide, Rows, Inv, Shape

(* No row is written, and nobody saves an order or draws an ID again.       *)
Quiet ==
  /\ UNCHANGED orderRows /\ overwritten \subseteq overwritten'
  /\ TermsStay
  /\ \A q \in Requests :
       Live(q)' => Live(q) /\ id'[q] = id[q] /\ order'[q] = order[q]

LEMMA QuietOwner ==
  ASSUME OwnerInv, Quiet
  PROVE  OwnerInv'
BY DEF Quiet, OwnerInv

(* And the loop of q goes on with the copies it has. *)
LEMMA QuietAhead ==
  ASSUME Inv, AheadInv, Quiet, NEW q \in Requests, InLoop(q), id'[q] = id[q],
         Pending(q)' \subseteq Pending(q),
         \A c \in Pending(q) : listed'[q][c] = listed[q][c]
  PROVE  \A c \in Pending(q)' : Ahead(q, c)'
<1> SUFFICES ASSUME NEW c \in Pending(q)'
             PROVE  Ahead(q, c)'
  OBVIOUS
<1>1. c \in Pending(q) /\ c \in Rows /\ Ahead(q, c)
  BY PendingRows DEF AheadInv
<1>2. RowsStay
  BY DEF Quiet, RowsStay, Inv, Shape, Like, Rows
<1>3. QED
  BY <1>1, <1>2, AheadStays DEF Quiet

LEMMA QuietBehind ==
  ASSUME BehindInv, Quiet,
         \A q \in Requests : pc'[q] = "updated" =>
           /\ pc[q] = "updated" /\ listed'[q] = listed[q]
           /\ counterOrder'[q] = counterOrder[q] /\ fillQty'[q] = fillQty[q]
  PROVE  BehindInv'
<1> SUFFICES ASSUME NEW q \in Requests, pc'[q] = "updated",
                    counterOrder'[q] \notin overwritten'
             PROVE  Behind(q, counterOrder[q])'
  BY DEF BehindInv
<1>1. Behind(q, counterOrder[q])
  BY DEF BehindInv, Quiet
<1>2. QED
  BY <1>1 DEF Behind, Quiet

LEMMA QuietTrades ==
  ASSUME TradesInv, UNCHANGED <<orderRows, tradeRows>>
  PROVE  TradesInv'
BY DEF TradesInv, Rows, IDs

LEMMA QuietBalance ==
  ASSUME Inv, TypeInv, OwnerInv, Conservation, UNCHANGED <<orderRows, tradeRows>>,
         overwritten \subseteq overwritten', unrecorded \subseteq unrecorded',
         \A i : i \notin overwritten' =>
           /\ Serving(i)' \subseteq Serving(i)
           /\ Serving(i)' # Serving(i) => i \in unrecorded'
           /\ \A q \in Serving(i)' : fillQty'[q] = fillQty[q]
  PROVE  Conservation'
<1> SUFFICES ASSUME NEW i \in Rows', i \notin overwritten'
             PROVE  Balanced(i)'
  BY DEF Conservation, Balanced
<1>1. i \in Rows \ overwritten
  BY DEF Rows, IDs
<1>2. Balanced(i)
  BY <1>1 DEF Conservation, Balanced
<1>3. CASE Serving(i)' = Serving(i)
  BY <1>2, <1>3, BalanceStays, TradedStays
<1>4. CASE Serving(i)' # Serving(i)
  <2>1. PICK q \in Serving(i) : q \notin Serving(i)'
    BY <1>4
  <2>2. Serving(i)' = {}
    <3>1. \A p \in Serving(i) : p = q
      BY <1>1, OneServer
    <3>2. QED
      BY <2>1, <3>1
  <2>3. InFlight(i)' = 0
    <3>1. InFlight(i)' = SumFunctionOnSet(fillQty', Serving(i)')
      BY DEF InFlight, Serving
    <3>2. QED
      BY <2>2, <3>1, SumEmpty
  <2>4. InFlight(i) \in Nat
    <3>1. InFlight(i) = fillQty[q]
      BY <1>1, <2>1, FlightKnown DEF FlightInv
    <3>2. QED
      BY <2>1, <3>1 DEF Serving, TypeInv, TradeType
  <2>5. TradedQty(i)' = TradedQty(i) /\ TradedQty(i) \in Nat
    BY TradedStays, TradedNat
  <2>6. orderRows[i].filled \in Nat
    BY <1>1 DEF Rows, Inv, Shape, Order
  <2>7. QED
    BY <1>2, <1>4, <2>3, <2>4, <2>5, <2>6 DEF Balanced
<1>5. QED
  BY <1>3, <1>4

-----------------------------------------------------------------------------
(* The steps.                                                               *)

LEMMA TablesInit == Init => TablesInv
<1> SUFFICES ASSUME Init PROVE TablesInv
  OBVIOUS
<1>1. \A r \in Requests : pc[r] = "idle" /\ ~Live(r) /\ ~InLoop(r)
  BY DEF Init, Live, InLoop, InTrade
<1>2. Rows = {} /\ tradeRows = {}
  BY DEF Init, Rows
<1>3. NewInv /\ OwnerInv /\ BehindInv /\ TradesInv /\ AheadInv
  BY <1>1, <1>2 DEF NewInv, OwnerInv, BehindInv, TradesInv, AheadInv
<1>4. Conservation
  BY <1>2 DEF Conservation
<1>5. QED
  BY <1>3, <1>4 DEF TablesInv

LEMMA TablesCreateOrder ==
  ASSUME Inv, TypeInv, TablesInv, NEW r \in Requests, CreateOrder(r)
  PROVE  TablesInv'
<1>1. pc[r] = "idle" /\ pc' = [pc EXCEPT ![r] = "created"]
      /\ id' = [id EXCEPT ![r] = orderSeq']
      /\ UNCHANGED <<listed, visited, counterOrder, fillQty, orderRows, tradeRows,
                     overwritten, unrecorded>>
  BY DEF CreateOrder, local, tables, history
<1>2. PICK stock \in Stocks, side \in Sides, price \in Prices,
           quantity \in Quantities :
        order' = [order EXCEPT ![r] = NewOrder(stock, side, price, quantity, clock')]
  BY DEF CreateOrder
<1>3. /\ pc \in [Requests -> Places] /\ DOMAIN order = Requests /\ DOMAIN id = Requests
      /\ id[r] \notin IDs
  BY <1>1, IDsType DEF Inv, Shape, TypeInv, CountInv
<1>4. \A q \in Requests \ {r} : pc'[q] = pc[q] /\ id'[q] = id[q] /\ order'[q] = order[q]
  BY <1>1, <1>2, <1>3
<1>5. pc'[r] = "created" /\ ~Live(r)' /\ ~InLoop(r)' /\ ~InTrade(r)' /\ ~InTrade(r)
  BY <1>1, <1>3 DEF Live, InLoop, InTrade
<1>6. TermsStay
  BY <1>3, <1>4 DEF TermsStay
<1>7. Quiet
  BY <1>1, <1>4, <1>5, <1>6 DEF Quiet, Live, InLoop, InTrade
<1>8. NewInv'
  <2>1. order'[r].filled = 0 /\ order'[r].remaining = order'[r].quantity
    BY <1>2, <1>3 DEF NewOrder
  <2>2. QED
    BY <1>4, <2>1 DEF TablesInv, NewInv
<1>9. BehindInv'
  BY <1>1, <1>4, <1>5, <1>7, QuietBehind DEF TablesInv
<1>10. AheadInv'
  <2> SUFFICES ASSUME NEW q \in Requests, InLoop(q)'
               PROVE  \A c \in Pending(q)' : Ahead(q, c)'
    BY DEF AheadInv
  <2>1. q # r /\ InLoop(q)
    BY <1>4, <1>5 DEF InLoop, InTrade
  <2>2. QED
    BY <1>1, <1>4, <1>7, <2>1, QuietAhead DEF TablesInv, Pending
<1>11. Conservation'
  <2>1. \A i : Serving(i)' = Serving(i)
    BY <1>1, <1>4, <1>5, ServingStays
  <2>2. QED
    BY <1>1, <1>7, <2>1, QuietBalance DEF TablesInv
<1>12. QED
  BY <1>1, <1>7, <1>8, <1>9, <1>10, <1>11, QuietOwner, QuietTrades DEF TablesInv

(* A request that goes on without writing a row or a trade.                 *)
LEMMA TablesQuiet ==
  ASSUME Inv, TypeInv, TablesInv, UNCHANGED <<id, order, orderRows, tradeRows>>,
         overwritten \subseteq overwritten', unrecorded \subseteq unrecorded',
         \A q \in Requests :
           /\ pc'[q] # "created" \/ pc[q] = "created"
           /\ Live(q)' => Live(q)
           /\ InTrade(q)' => /\ pc'[q] = pc[q] /\ listed'[q] = listed[q]
                             /\ counterOrder'[q] = counterOrder[q]
                             /\ fillQty'[q] = fillQty[q]
           /\ InTrade(q) /\ ~InTrade(q)' =>
                /\ id[q] \in unrecorded'
                /\ pc[q] = "recording" => counterOrder[q] \in unrecorded'
           /\ InLoop(q)' =>
                \/ /\ InLoop(q) /\ Pending(q)' \subseteq Pending(q)
                   /\ listed'[q] = listed[q]
                \/ \A c \in Pending(q)' :
                     orderRows[c].filled <= listed'[q][c].filled
  PROVE  TablesInv'
<1>1. Quiet
  BY DEF Quiet, TermsStay
<1>2. NewInv'
  BY DEF TablesInv, NewInv
<1>3. OwnerInv' /\ TradesInv'
  BY <1>1, QuietOwner, QuietTrades DEF TablesInv
<1>4. BehindInv'
  BY <1>1, QuietBehind DEF TablesInv, InTrade
<1>5. AheadInv'
  <2> SUFFICES ASSUME NEW q \in Requests, InLoop(q)'
               PROVE  \A c \in Pending(q)' : Ahead(q, c)'
    BY DEF AheadInv
  <2>1. CASE \A c \in Pending(q)' : orderRows[c].filled <= listed'[q][c].filled
    BY <2>1 DEF Ahead
  <2>2. CASE InLoop(q) /\ Pending(q)' \subseteq Pending(q) /\ listed'[q] = listed[q]
    BY <1>1, <2>2, QuietAhead DEF TablesInv
  <2>3. QED
    BY <2>1, <2>2
<1>6. Conservation'
  <2>1. ASSUME NEW i, i \notin overwritten'
        PROVE  /\ Serving(i)' \subseteq Serving(i)
               /\ Serving(i)' # Serving(i) => i \in unrecorded'
               /\ \A q \in Serving(i)' : fillQty'[q] = fillQty[q]
    <3>1. Serving(i)' \subseteq Serving(i)
      BY DEF Serving, InTrade
    <3>2. \A q \in Serving(i)' : fillQty'[q] = fillQty[q]
      BY DEF Serving, InTrade
    <3>3. ASSUME NEW q \in Serving(i), q \notin Serving(i)'
          PROVE  i \in unrecorded'
      <4>1. q \in Requests /\ InTrade(q)
            /\ (id[q] = i \/ (pc[q] = "recording" /\ counterOrder[q] = i))
        BY DEF Serving, InTrade
      <4>2. ~InTrade(q)'
        BY <3>3, <4>1 DEF Serving, InTrade
      <4>3. QED
        BY <4>1, <4>2
    <3>4. QED
      BY <3>1, <3>2, <3>3
  <2>2. QED
    BY <2>1, QuietBalance DEF TablesInv
<1>7. QED
  BY <1>2, <1>3, <1>4, <1>5, <1>6 DEF TablesInv

LEMMA TablesStartMatching ==
  ASSUME Inv, TypeInv, TablesInv, NEW r \in Requests, StartMatching(r)
  PROVE  TablesInv'
<1> DEFINE list == GetOpenOrdersByStock(order[r].stock, Opposite(order[r].side))
<1>1. PICK o \in Outcomes :
        /\ listed' = IF o.ok THEN [listed EXCEPT ![r] = list] ELSE listed
        /\ pc' = [pc EXCEPT ![r] = IF o.ok THEN "matching" ELSE "returning"]
        /\ overwritten' = overwritten
  BY DEF StartMatching, Remember
<1>2. pc[r] = "saved" /\ pc \in [Requests -> Places] /\ DOMAIN listed = Requests
      /\ UNCHANGED <<id, order, visited, counterOrder, fillQty, orderRows, tradeRows,
                     unrecorded>>
  BY DEF StartMatching, counters, tables, Inv, Shape
<1>3. \A c \in DOMAIN list : list[c].filled \in Nat /\ list[c] = orderRows[c]
  BY DEF GetOpenOrdersByStock, Rows, Inv, Shape, Order
<1> HIDE DEF list
<1>4. \A q \in Requests \ {r} : pc'[q] = pc[q] /\ listed'[q] = listed[q]
  BY <1>1, <1>2
<1>5. /\ pc'[r] \in {"matching", "returning"} /\ ~InTrade(r) /\ ~InTrade(r)' /\ Live(r)
      /\ InLoop(r)' => listed'[r] = list
  BY <1>1, <1>2 DEF InTrade, InLoop, Live
<1>6. InLoop(r)' => \A c \in Pending(r)' : orderRows[c].filled <= listed'[r][c].filled
  BY <1>3, <1>5 DEF Pending
<1>7. \A q \in Requests \ {r} :
        /\ Live(q)' <=> Live(q)
        /\ InTrade(q)' <=> InTrade(q)
        /\ InLoop(q)' <=> InLoop(q)
        /\ Pending(q)' = Pending(q)
  BY <1>2, <1>4 DEF Live, InLoop, InTrade, Pending
<1>8. QED
  BY <1>1, <1>2, <1>4, <1>5, <1>6, <1>7, TablesQuiet

LEMMA TablesSkipCounter ==
  ASSUME Inv, TypeInv, TablesInv, NEW r \in Requests, SkipCounter(r)
  PROVE  TablesInv'
<1>1. PICK c \in Earliest(r) : visited' = [visited EXCEPT ![r] = @ \cup {c}]
  BY DEF SkipCounter
<1>2. UNCHANGED <<pc, id, order, listed, counterOrder, fillQty, orderRows, tradeRows,
                  overwritten, unrecorded>>
  BY DEF SkipCounter, counters, tables, history
<1>3. \A q \in Requests : visited[q] \subseteq visited'[q]
  BY <1>1 DEF Inv, Shape
<1>4. \A q \in Requests :
        /\ Pending(q)' \subseteq Pending(q)
        /\ Live(q)' <=> Live(q)
        /\ InTrade(q)' <=> InTrade(q)
        /\ InLoop(q)' <=> InLoop(q)
  BY <1>2, <1>3 DEF Live, InLoop, InTrade, Pending
<1>5. QED
  BY <1>2, <1>4, TablesQuiet

LEMMA TablesFinishMatching ==
  ASSUME Inv, TypeInv, TablesInv, NEW r \in Requests, FinishMatching(r)
  PROVE  TablesInv'
<1>1. pc[r] \in {"matching", "returning"} /\ pc' = [pc EXCEPT ![r] = "done"]
      /\ pc \in [Requests -> Places]
      /\ UNCHANGED <<id, order, listed, visited, counterOrder, fillQty, orderRows,
                     tradeRows, overwritten, unrecorded>>
  BY DEF FinishMatching, counters, local, tables, history, Inv, Shape
<1>2. \A q \in Requests :
        /\ pc'[q] # "created" \/ pc[q] = "created"
        /\ Live(q)' => Live(q)
        /\ InTrade(q)' => pc'[q] = pc[q]
        /\ InTrade(q) => InTrade(q)'
        /\ InLoop(q)' => InLoop(q)
        /\ Pending(q)' = Pending(q)
  BY <1>1 DEF Live, InLoop, InTrade, Pending
<1>3. QED
  BY <1>1, <1>2, TablesQuiet

LEMMA TablesCrash ==
  ASSUME Inv, TypeInv, TablesInv, Crash
  PROVE  TablesInv'
<1>1. /\ pc' = [r \in Requests |->
                  IF pc[r] \in {"idle", "done", "failed"} THEN pc[r] ELSE "lost"]
      /\ unrecorded' = unrecorded
           \cup {id[r] : r \in {q \in Requests : InTrade(q)}}
           \cup {counterOrder[r] : r \in {q \in Requests : pc[q] = "recording"}}
      /\ UNCHANGED <<id, order, listed, visited, counterOrder, fillQty, orderRows,
                     tradeRows, overwritten>>
  BY DEF Crash, local, tables
<1>2. \A q \in Requests :
        /\ pc'[q] # "created" /\ ~Live(q)' /\ ~InTrade(q)' /\ ~InLoop(q)'
        /\ InTrade(q) => id[q] \in unrecorded'
        /\ pc[q] = "recording" => counterOrder[q] \in unrecorded'
  BY <1>1 DEF Live, InLoop, InTrade
<1>3. QED
  BY <1>1, <1>2, TablesQuiet

(* The row appears as the order was placed; if it was there, it counts as   *)
(* overwritten.                                                             *)
LEMMA TablesSaveOrder ==
  ASSUME Inv, Inv', TypeInv, TypeInv', TablesInv, NEW r \in Requests, SaveOrder(r)
  PROVE  TablesInv'
<1>1. PICK o \in Outcomes :
        /\ orderRows' = IF o.done THEN Upsert(id[r], order[r]) ELSE orderRows
        /\ pc' = [pc EXCEPT ![r] = IF o.ok THEN "saved" ELSE "failed"]
        /\ overwritten' = overwritten \cup (IF o.done /\ id[r] \in Rows THEN {id[r]} ELSE {})
  BY DEF SaveOrder, Remember
<1>2. pc[r] = "created" /\ pc \in [Requests -> Places]
      /\ UNCHANGED <<id, order, listed, visited, counterOrder, fillQty, tradeRows,
                     unrecorded>>
  BY DEF SaveOrder, counters, local, Inv, Shape
<1>3. \A q \in Requests :
        /\ q # r => pc'[q] = pc[q]
        /\ q # r => Live(q)' <=> Live(q)
        /\ InTrade(q)' <=> InTrade(q)
        /\ InLoop(q)' <=> InLoop(q)
        /\ Pending(q)' = Pending(q)
  BY <1>1, <1>2 DEF Live, InLoop, InTrade, Pending
<1>4. ~InTrade(r) /\ ~Live(r) /\ pc'[r] # "created" /\ pc'[r] # "updated"
  BY <1>1, <1>2 DEF Live, InLoop, InTrade
<1>5. CASE ~o.done
  <2>1. ~Live(r)' /\ UNCHANGED <<orderRows, overwritten>>
    <3>1. ~o.ok
      BY <1>5, OutcomeType
    <3>2. QED
      BY <1>1, <1>2, <1>5, <3>1 DEF Live, InLoop, InTrade
  <2>2. QED
    BY <1>2, <1>3, <1>4, <2>1, TablesQuiet
<1>6. CASE o.done
  <2>1. /\ id[r] \in IDs /\ order[r] \in Order
        /\ order[r].filled = 0 /\ order[r].remaining = order[r].quantity
        /\ orderRows \in [IDs -> Order \cup {Nil}]
    BY <1>2 DEF Inv, Shape, TypeInv, CountInv, TablesInv, NewInv
  <2>2. /\ \A j \in Rows : orderRows'[j] # Nil /\ Like(orderRows'[j], orderRows[j])
        /\ \A j \in IDs : j # id[r] => orderRows'[j] = orderRows[j]
        /\ orderRows'[id[r]] # Nil
        /\ id[r] \notin Rows => orderRows'[id[r]] = order[r]
        /\ orderRows' \in [IDs -> Order \cup {Nil}]
    BY <1>1, <1>6, <2>1, UpsertKeeps
  <2>3. orderRows'[id[r]].filled = 0
    BY <1>1, <1>6, <2>1 DEF Upsert, Rows, Order
  <2>4. RowsStay /\ TermsStay
    BY <1>1, <1>2, <2>2 DEF RowsStay, TermsStay
  <2>5. id[r] \in Rows => id[r] \in overwritten'
    BY <1>1, <1>6
  <2>6. Rows \subseteq Rows' /\ overwritten \subseteq overwritten'
    BY <1>1, <2>2 DEF Rows, IDs
  <2>7. \A q \in Requests : Live(q) => id[q] \in Rows
    BY DEF Live, Inv, Stored, OwnRow, TypeInv, CountInv, InLoop, InTrade
  <2>8. NewInv'
    BY <1>2, <1>3, <1>4 DEF TablesInv, NewInv
  <2>9. OwnerInv'
    <3> SUFFICES ASSUME NEW q \in Requests, Live(q)', id[q] \notin overwritten'
                 PROVE  /\ orderRows'[id[q]] = order[q]
                        /\ \A x \in Requests : Live(x)' /\ id[x] = id[q] => x = q
      BY <1>2 DEF OwnerInv
    <3>1. CASE q = r
      BY <1>3, <2>2, <2>5, <2>7, <3>1
    <3>2. CASE q # r
      <4>1. Live(q) /\ id[q] # id[r] /\ id[q] \in IDs
        BY <1>3, <2>5, <2>7, <3>2 DEF Rows
      <4>2. orderRows[id[q]] = order[q]
            /\ \A x \in Requests : Live(x) /\ id[x] = id[q] => x = q
        BY <2>6, <4>1 DEF TablesInv, OwnerInv
      <4>3. QED
        BY <1>3, <2>2, <4>1, <4>2
    <3>3. QED
      BY <3>1, <3>2
  <2>10. BehindInv'
    <3> SUFFICES ASSUME NEW q \in Requests, pc[q] = "updated",
                        counterOrder[q] \notin overwritten'
                 PROVE  Behind(q, counterOrder[q])'
      BY <1>2, <1>3, <1>4 DEF BehindInv
    <3>1. counterOrder[q] \in Rows /\ Behind(q, counterOrder[q])
      BY <2>6 DEF Inv, Copies, OtherSide, InTrade, InLoop, TablesInv, BehindInv
    <3>2. orderRows'[counterOrder[q]] = orderRows[counterOrder[q]]
      BY <2>2, <2>5, <3>1 DEF Rows
    <3>3. QED
      BY <1>2, <3>1, <3>2 DEF Behind
  <2>11. TradesInv'
    BY <1>2, <2>6 DEF TablesInv, TradesInv
  <2>12. AheadInv'
    <3> SUFFICES ASSUME NEW q \in Requests, InLoop(q), NEW c \in Pending(q)
                 PROVE  Ahead(q, c)'
      BY <1>3 DEF AheadInv
    <3>1. c \in Rows /\ c \in IDs /\ listed[q][c] \in Order /\ Ahead(q, c)
      BY PendingRows DEF TablesInv, AheadInv
    <3>2. CASE c = id[r]
      BY <1>2, <2>3, <3>1, <3>2 DEF Ahead, Order
    <3>3. CASE c # id[r]
      BY <1>2, <2>2, <2>4, <3>1, <3>3, AheadStays
    <3>4. QED
      BY <3>2, <3>3
  <2>13. Conservation'
    <3> SUFFICES ASSUME NEW i \in Rows', i \notin overwritten'
                 PROVE  Balanced(i)'
      BY DEF Conservation, Balanced
    <3>1. Serving(i)' = Serving(i) /\ TradedQty(i)' = TradedQty(i)
      BY <1>2, <1>3, <1>4, ServingStays, TradedStays DEF InTrade
    <3>2. CASE i \in Rows
      <4>1. i # id[r] /\ i \in IDs /\ Balanced(i)
        BY <2>5, <2>6, <3>2 DEF TablesInv, Conservation, Balanced, Rows
      <4>2. QED
        BY <1>2, <2>2, <3>1, <4>1, BalanceStays
    <3>3. CASE i \notin Rows
      <4>1. i = id[r] /\ orderRows'[i] = order[r]
        BY <2>2, <3>3 DEF Rows, IDs
      <4>2. Serving(i) = {}
        BY <2>7, <3>3, ServingLoops DEF Live, Inv, Copies, OtherSide
      <4>3. InFlight(i)' = 0
        <5>1. OwnerInv' /\ Serving(i)' = {}
          BY <2>9, <3>1, <4>2
        <5>2. QED
          BY <5>1, FlightKnownNext DEF FlightInv
      <4>4. TradedQty(i) = 0
        <5>1. {t \in tradeRows : i \in {t.buy, t.sell}} = {}
          BY <3>3 DEF TablesInv, TradesInv
        <5>2. QED
          BY <5>1, TradedIsTotal, TotalEmpty
      <4>5. order[r].quantity \in Nat
        BY <2>1, PositiveInputs DEF Order
      <4>6. QED
        BY <2>1, <3>1, <4>1, <4>3, <4>4, <4>5 DEF Balanced
    <3>4. QED
      BY <3>2, <3>3
  <2>14. QED
    BY <2>8, <2>9, <2>10, <2>11, <2>12, <2>13 DEF TablesInv
<1>7. QED
  BY <1>5, <1>6

(* UpdateStatus over the row that was filled makes it the filled order.     *)
LEMMA UpdateFill ==
  ASSUME orderRows \in [IDs -> Order \cup {Nil}], NEW i \in Rows, NEW qty \in Nat
  PROVE  Update(i, Fill(orderRows[i], qty))[i] = Fill(orderRows[i], qty)
<1> DEFINE o == orderRows[i]
           left == IF o.remaining <= qty THEN 0 ELSE o.remaining - qty
           status == IF left = 0 THEN "FILLED" ELSE "PARTIAL"
<1>1. o \in Order /\ i \in IDs
  BY DEF Rows
<1>2. Fill(o, qty) = [o EXCEPT !.filled = o.filled + qty, !.remaining = left,
                               !.status = status]
  BY DEF Fill
<1>3. Update(i, Fill(o, qty))[i] =
        [o EXCEPT !.filled = Fill(o, qty).filled,
                  !.remaining = Fill(o, qty).remaining,
                  !.status = Fill(o, qty).status]
  BY <1>1 DEF Update
<1>4. /\ Fill(o, qty).filled = o.filled + qty /\ Fill(o, qty).remaining = left
      /\ Fill(o, qty).status = status
  BY <1>1, <1>2 DEF Order
<1>5. QED
  BY <1>2, <1>3, <1>4

(* A fill moves its quantity from what remains to what is filled.           *)
LEMMA FillMoves ==
  ASSUME NEW o \in Order, NEW qty \in Nat
  PROVE  /\ Fill(o, qty).filled = o.filled + qty
         /\ Fill(o, qty).quantity = o.quantity
         /\ qty <= o.remaining => Fill(o, qty).remaining = o.remaining - qty
         /\ o.filled \in Nat /\ o.remaining \in Nat /\ o.quantity \in Nat
BY PositiveInputs DEF Fill, Order

LEMMA TablesRecordTrade ==
  ASSUME Inv, Inv', TypeInv, TypeInv', TablesInv, NEW r \in Requests, RecordTrade(r)
  PROVE  TablesInv'
<1> DEFINE c == counterOrder[r]
           trade == [id       |-> tradeSeq + 1,
                     buy      |-> IF order[r].side = "BUY" THEN id[r] ELSE c,
                     sell     |-> IF order[r].side = "BUY" THEN c ELSE id[r],
                     price    |-> listed[r][c].price,
                     quantity |-> fillQty[r]]
<1>1. PICK o \in Outcomes :
        /\ tradeRows' = IF o.done THEN Insert(trade) ELSE tradeRows
        /\ unrecorded' = IF o.done /\ ~Recorded(trade.id) THEN unrecorded
                         ELSE unrecorded \cup {id[r], c}
        /\ overwritten' = overwritten
  BY DEF RecordTrade, Remember
<1>2. pc[r] = "recording" /\ pc' = [pc EXCEPT ![r] = "matching"]
      /\ pc \in [Requests -> Places] /\ DOMAIN visited = Requests
      /\ visited' = [visited EXCEPT ![r] = @ \cup {c}]
      /\ UNCHANGED <<id, order, listed, counterOrder, fillQty, orderRows>>
  BY DEF RecordTrade, Inv, Shape
<1>3. {trade.buy, trade.sell} = {id[r], c} /\ trade.quantity = fillQty[r]
      /\ fillQty[r] \in Nat
  BY DEF TypeInv, TradeType
<1>4. \A t \in tradeRows : t.quantity \in Nat
  BY DEF TypeInv, TradeType, Trade
<1>5. \A t \in tradeRows : t.id = trade.id => Recorded(trade.id)
  BY DEF Recorded
<1> HIDE DEF trade
<1>6. /\ tradeRows \subseteq tradeRows' /\ tradeRows' \subseteq tradeRows \cup {trade}
      /\ overwritten \subseteq overwritten' /\ unrecorded \subseteq unrecorded'
  BY <1>1 DEF Insert
<1>7. id[r] \in Rows /\ c \in Rows /\ id[r] \in IDs
  BY <1>2 DEF Inv, Stored, OwnRow, Copies, OtherSide, InLoop, InTrade, TypeInv, CountInv
<1>8. \A q \in Requests :
        /\ q # r => pc'[q] = pc[q]
        /\ Live(q)' <=> Live(q)
        /\ InLoop(q)' <=> InLoop(q)
        /\ Pending(q)' \subseteq Pending(q)
  BY <1>2 DEF Live, InLoop, InTrade, Pending
<1>9. Quiet
  BY <1>2, <1>6, <1>8 DEF Quiet, TermsStay
<1>10. NewInv'
  BY <1>2 DEF TablesInv, NewInv
<1>11. OwnerInv'
  BY <1>9, QuietOwner DEF TablesInv
<1>12. BehindInv'
  BY <1>2, <1>9, QuietBehind DEF TablesInv
<1>13. TradesInv'
  <2>1. Rows' = Rows
    BY <1>2 DEF Rows, IDs
  <2>2. trade.buy \in Rows /\ trade.sell \in Rows
    BY <1>3, <1>7
  <2>3. QED
    BY <1>6, <2>1, <2>2 DEF TablesInv, TradesInv
<1>14. AheadInv'
  BY <1>2, <1>8, <1>9, QuietAhead DEF TablesInv, AheadInv
<1>15. Conservation'
  <2> SUFFICES ASSUME NEW i \in Rows', i \notin overwritten'
               PROVE  Balanced(i)'
    BY DEF Conservation, Balanced
  <2>1. i \in Rows \ overwritten /\ Balanced(i)
    BY <1>2, <1>6 DEF Rows, IDs, TablesInv, Conservation, Balanced
  <2>2. CASE i \in {id[r], c}
    <3> DEFINE mine == {t \in tradeRows : i \in {t.buy, t.sell}}
    <3>1. r \in Serving(i) /\ InFlight(i) = fillQty[r]
      <4>1. r \in Serving(i)
        BY <1>2, <2>2 DEF Serving
      <4>2. QED
        BY <2>1, <4>1, FlightKnown DEF FlightInv, TablesInv
    <3>2. InFlight(i)' = 0
      <4>1. ASSUME NEW q \in Serving(i)'
            PROVE  FALSE
        <5>1. q \in Serving(i) /\ q # r
          BY <1>2, <4>1 DEF Serving
        <5>2. QED
          BY <2>1, <3>1, <5>1, OneServer DEF TablesInv
      <4>2. Serving(i)' = {}
        BY <4>1
      <4>3. QED
        BY <1>11, <4>2, FlightKnownNext DEF FlightInv
    <3>3. TradedQty(i) \in Nat /\ orderRows[i].filled \in Nat
      BY <2>1, TradedNat DEF Rows, Inv, Shape, Order
    <3>4. CASE o.done /\ ~Recorded(trade.id)
      <4>1. tradeRows' = tradeRows \cup {trade} /\ trade \notin tradeRows
            /\ unrecorded' = unrecorded
        BY <1>1, <1>5, <3>4 DEF Insert
      <4>2. {t \in tradeRows' : i \in {t.buy, t.sell}} = mine \cup {trade}
        BY <1>3, <2>2, <4>1
      <4>3. IsFiniteSet(mine) /\ trade \notin mine
            /\ \A t \in mine \cup {trade} : t.quantity \in Nat
        BY <1>3, <1>4, <4>1, FS_Subset DEF TypeInv, TradeType
      <4> HIDE DEF mine
      <4>4. Total(mine \cup {trade}) = Total(mine) + fillQty[r]
        BY <1>3, <4>3, TotalAdd
      <4>5. TradedQty(i)' = TradedQty(i) + fillQty[r]
        <5>1. TradedQty(i)' = Total({t \in tradeRows' : i \in {t.buy, t.sell}})
          BY DEF TradedQty, Total
        <5>2. TradedQty(i) = Total(mine)
          BY TradedIsTotal DEF mine
        <5>3. QED
          BY <4>2, <4>4, <5>1, <5>2
      <4>6. QED
        BY <1>2, <1>3, <2>1, <3>1, <3>2, <3>3, <4>1, <4>5 DEF Balanced
    <3>5. CASE ~(o.done /\ ~Recorded(trade.id))
      <4>1. tradeRows' = tradeRows /\ i \in unrecorded'
        BY <1>1, <2>2, <3>5 DEF Insert
      <4>2. TradedQty(i)' = TradedQty(i)
        BY <4>1, TradedStays
      <4>3. QED
        BY <1>2, <1>3, <2>1, <3>1, <3>2, <3>3, <4>1, <4>2 DEF Balanced
    <3>6. QED
      BY <3>4, <3>5
  <2>3. CASE i \notin {id[r], c}
    <3>1. {t \in tradeRows' : i \in {t.buy, t.sell}}
            = {t \in tradeRows : i \in {t.buy, t.sell}}
      BY <1>3, <1>6, <2>3
    <3>2. TradedQty(i)' = TradedQty(i)
      BY <3>1 DEF TradedQty
    <3>3. Serving(i)' = Serving(i)
      BY <1>2, <2>3 DEF Serving
    <3>4. QED
      BY <1>2, <1>6, <2>1, <3>2, <3>3, BalanceStays
  <2>4. QED
    BY <2>2, <2>3
<1>16. QED
  BY <1>10, <1>11, <1>12, <1>13, <1>14, <1>15 DEF TablesInv

LEMMA TablesUpdateCounter ==
  ASSUME Inv, Inv', TypeInv, TypeInv', TablesInv, NEW r \in Requests, UpdateCounter(r)
  PROVE  TablesInv'
<1>1. PICK c, copy : c = counterOrder[r] /\ copy = listed[r][c]
  OBVIOUS
<1>2. PICK o \in Outcomes :
        /\ orderRows' = IF o.done THEN Update(c, copy) ELSE orderRows
        /\ overwritten' = overwritten \cup (IF o.done /\ ~Waiting(c) THEN {} ELSE {c})
  BY <1>1 DEF UpdateCounter, Remember
<1>3. pc[r] = "updated" /\ pc' = [pc EXCEPT ![r] = "recording"]
      /\ pc \in [Requests -> Places]
      /\ UNCHANGED <<id, order, listed, visited, counterOrder, fillQty, tradeRows,
                     unrecorded>>
  BY DEF UpdateCounter, counters, local, Inv, Shape
<1>4. \A q \in Requests :
        /\ q # r => pc'[q] = pc[q]
        /\ Live(q)' <=> Live(q)
        /\ InLoop(q)' <=> InLoop(q)
        /\ Pending(q)' = Pending(q)
  BY <1>3 DEF Live, InLoop, InTrade, Pending
<1>5. InLoop(r) /\ c \in Pending(r) /\ c \in DOMAIN listed[r]
  BY <1>1, <1>3 DEF InLoop, InTrade, TypeInv, ListType, Pending
<1>6. OtherSide(r, c) /\ c \in Rows /\ c \in IDs /\ copy \in Order
  BY <1>1, <1>5, PendingRows
<1>7. orderRows \in [IDs -> Order \cup {Nil}] /\ overwritten \subseteq overwritten'
  BY <1>2 DEF Inv, Shape
<1>8. /\ orderRows' \in [IDs -> Order \cup {Nil}]
      /\ \A j \in Rows : orderRows'[j] # Nil /\ Like(orderRows'[j], orderRows[j])
      /\ \A j \in IDs : j # c => orderRows'[j] = orderRows[j]
  <2>1. CASE o.done
    BY <1>2, <1>6, <1>7, <2>1, UpdateKeeps
  <2>2. CASE ~o.done
    BY <1>2, <1>7, <2>2 DEF Like, Rows
  <2>3. QED
    BY <2>1, <2>2
<1>9. Rows' = Rows /\ RowsStay /\ TermsStay
  <2>1. Rows' = Rows
    BY <1>6, <1>7, <1>8 DEF Rows, IDs
  <2>2. RowsStay
    BY <1>7, <1>8 DEF RowsStay
  <2>3. TermsStay
    BY <1>3 DEF TermsStay
  <2>4. QED
    BY <2>1, <2>2, <2>3
<1>10. ASSUME NEW q \in Requests, InLoop(q), c \in DOMAIN listed[q]
       PROVE  q = r
  <2>1. OtherSide(q, c)
    BY <1>10 DEF Inv, Copies
  <2>2. order[q].stock = order[r].stock
    BY <1>6, <2>1 DEF OtherSide
  <2>3. QED
    BY <1>5, <1>10, <2>2, OneLoop DEF Inv
<1>11. NewInv'
  BY <1>3 DEF TablesInv, NewInv
<1>12. OwnerInv'
  <2> SUFFICES ASSUME NEW q \in Requests, Live(q), id[q] \notin overwritten'
               PROVE  orderRows'[id[q]] = orderRows[id[q]]
    BY <1>3, <1>4, <1>7 DEF TablesInv, OwnerInv
  <2>1. id[q] \in IDs
    BY DEF Live, InLoop, InTrade, TypeInv, CountInv
  <2>2. CASE id[q] = c
    <3>1. ~Waiting(c)
      BY <1>2, <2>2
    <3>2. InLoop(q)
      BY <2>2, <3>1 DEF Live, Waiting
    <3>3. QED
      BY <1>5, <1>7, <2>2, <3>2, NotListed DEF TablesInv
  <2>3. QED
    BY <1>8, <2>1, <2>2
<1>13. BehindInv'
  <2> SUFFICES ASSUME NEW q \in Requests, q # r, pc[q] = "updated",
                      counterOrder[q] \notin overwritten'
               PROVE  Behind(q, counterOrder[q])'
    BY <1>3, <1>4 DEF BehindInv
  <2>1. Behind(q, counterOrder[q]) /\ InLoop(q) /\ counterOrder[q] \in DOMAIN listed[q]
    BY <1>7 DEF TablesInv, BehindInv, InLoop, InTrade, Inv, Copies
  <2>2. counterOrder[q] # c /\ counterOrder[q] \in IDs
    BY <1>10, <2>1 DEF TypeInv, ListType
  <2>3. QED
    BY <1>3, <1>8, <2>1, <2>2 DEF Behind
<1>14. TradesInv'
  BY <1>3, <1>9 DEF TablesInv, TradesInv
<1>15. AheadInv'
  <2> SUFFICES ASSUME NEW q \in Requests, InLoop(q), NEW d \in Pending(q)
               PROVE  Ahead(q, d)'
    BY <1>4 DEF AheadInv
  <2>1. d \in Rows /\ d \in IDs /\ d \in DOMAIN listed[q] /\ Ahead(q, d)
    BY PendingRows DEF TablesInv, AheadInv, Pending
  <2>2. CASE d = c /\ o.done
    <3>1. q = r /\ orderRows'[c].filled = copy.filled
      BY <1>2, <1>6, <1>7, <1>10, <2>1, <2>2 DEF Update, Rows, Order
    <3>2. copy.filled \in Nat
      BY <1>6 DEF Order
    <3>3. QED
      BY <1>1, <1>3, <2>2, <3>1, <3>2 DEF Ahead
  <2>3. CASE ~(d = c /\ o.done)
    <3>1. orderRows'[d] = orderRows[d]
      BY <1>2, <1>8, <2>1, <2>3
    <3>2. QED
      BY <1>3, <1>9, <2>1, <3>1, AheadStays
  <2>4. QED
    BY <2>2, <2>3
<1>16. Conservation'
  <2> SUFFICES ASSUME NEW i \in Rows', i \notin overwritten'
               PROVE  Balanced(i)'
    BY DEF Conservation, Balanced
  <2>1. i \in Rows /\ i \in IDs /\ i \notin overwritten /\ Balanced(i)
    BY <1>7, <1>9 DEF TablesInv, Conservation, Balanced, Rows
  <2>2. TradedQty(i)' = TradedQty(i)
    BY <1>3, TradedStays
  <2>3. CASE i = c
    <3>1. o.done
      BY <1>2, <2>3
    <3>2. copy = Fill(orderRows[c], fillQty[r]) /\ fillQty[r] <= orderRows[c].remaining
      BY <1>1, <1>3, <2>1, <2>3 DEF TablesInv, BehindInv, Behind
    <3>3. fillQty[r] \in Nat /\ orderRows[c] \in Order
      BY <1>6, <1>7 DEF TypeInv, TradeType, Rows
    <3>4. orderRows'[c] = Fill(orderRows[c], fillQty[r])
      BY <1>2, <1>6, <1>7, <3>1, <3>2, <3>3, UpdateFill
    <3>5. InFlight(c) = 0
      <4>1. ASSUME NEW q \in Serving(c)
            PROVE  FALSE
        <5>1. q \in Requests /\ InLoop(q) /\ (id[q] = c \/ c \in DOMAIN listed[q])
          BY ServingLoops
        <5>2. id[q] # c
          BY <1>5, <2>1, <2>3, <5>1, NotListed DEF TablesInv
        <5>3. q = r /\ pc[q] = "recording"
          BY <1>10, <5>1, <5>2 DEF Serving
        <5>4. QED
          BY <1>3, <5>3
      <4>2. Serving(c) = {}
        BY <4>1
      <4>3. QED
        BY <2>1, <2>3, <4>2, FlightKnown DEF FlightInv, TablesInv
    <3>6. InFlight(c)' = fillQty[r]
      <4>1. r \in Serving(c)'
        BY <1>1, <1>3 DEF Serving
      <4>2. QED
        BY <1>3, <1>12, <2>3, <4>1, FlightKnownNext DEF FlightInv
    <3>7. TradedQty(c) \in Nat
      BY TradedNat
    <3>8. /\ orderRows'[c].filled = orderRows[c].filled + fillQty[r]
          /\ orderRows'[c].remaining = orderRows[c].remaining - fillQty[r]
          /\ orderRows'[c].quantity = orderRows[c].quantity
          /\ orderRows[c].filled \in Nat /\ orderRows[c].remaining \in Nat
          /\ orderRows[c].quantity \in Nat
      BY <3>2, <3>3, <3>4, FillMoves
    <3>9. QED
      BY <1>3, <2>1, <2>2, <2>3, <3>3, <3>5, <3>6, <3>7, <3>8 DEF Balanced
  <2>4. CASE i # c
    <3>1. Serving(i)' = Serving(i)
      BY <1>1, <1>3, <2>4 DEF Serving
    <3>2. QED
      BY <1>3, <1>8, <2>1, <2>2, <2>4, <3>1, BalanceStays
  <2>5. QED
    BY <2>3, <2>4
<1>17. QED
  BY <1>11, <1>12, <1>13, <1>14, <1>15, <1>16 DEF TablesInv

LEMMA TablesStutter ==
  ASSUME Inv, TypeInv, TablesInv, UNCHANGED vars
  PROVE  TablesInv'
<1>1. UNCHANGED <<pc, id, order, listed, visited, counterOrder, fillQty, orderRows,
                  tradeRows, overwritten, unrecorded>>
  BY DEF vars, local, tables, history
<1>2. \A q \in Requests :
        /\ Live(q)' <=> Live(q)
        /\ InTrade(q)' <=> InTrade(q)
        /\ InLoop(q)' <=> InLoop(q)
        /\ Pending(q)' = Pending(q)
  BY <1>1 DEF Live, InLoop, InTrade, Pending
<1>3. QED
  BY <1>1, <1>2, TablesQuiet

(* The row of the loop's own order follows its object; the row of the       *)
(* counter order falls behind its copy.                                     *)
LEMMA TablesFillAndUpdate ==
  ASSUME Inv, Inv', TypeInv, TypeInv', TablesInv, NEW r \in Requests, FillAndUpdate(r)
  PROVE  TablesInv'
<1>1. PICK c, o, qty, i :
        /\ c \in Earliest(r) /\ o \in Outcomes
        /\ qty = FillQty(order[r], listed[r][c]) /\ i = id[r]
        /\ order' = [order EXCEPT ![r] = Fill(@, qty)]
        /\ listed' = [listed EXCEPT ![r][c] = Fill(@, qty)]
        /\ counterOrder' = [counterOrder EXCEPT ![r] = c]
        /\ fillQty' = [fillQty EXCEPT ![r] = qty]
        /\ orderRows' = IF o.done THEN Update(i, order'[r]) ELSE orderRows
        /\ overwritten' = overwritten \cup (IF o.done THEN {} ELSE {i})
  BY DEF FillAndUpdate, Remember
<1>2. pc[r] = "matching" /\ pc' = [pc EXCEPT ![r] = "updated"]
      /\ pc \in [Requests -> Places] /\ DOMAIN order = Requests
      /\ DOMAIN listed = Requests /\ counterOrder \in [Requests -> Nat]
      /\ fillQty \in [Requests -> Nat]
      /\ UNCHANGED <<id, visited, tradeRows, unrecorded>>
  BY DEF FillAndUpdate, counters, Inv, Shape, TypeInv, TradeType
<1>3. InLoop(r) /\ Live(r) /\ ~InTrade(r) /\ c \in Pending(r) /\ order[r] \in Order
  BY <1>1, <1>2 DEF InLoop, InTrade, Live, Earliest, Inv, Shape
<1>4. /\ OtherSide(r, c) /\ c \in Rows /\ c \in IDs /\ orderRows[c] \in Order
      /\ listed[r][c] \in Order
  BY <1>3, PendingRows
<1>5. qty \in Nat /\ qty <= order[r].remaining /\ qty <= listed[r][c].remaining
  BY <1>1, <1>3, <1>4 DEF FillQty, Order
<1>6. i \in IDs /\ i \in Rows /\ orderRows \in [IDs -> Order \cup {Nil}]
  BY <1>1, <1>2, <1>3 DEF Inv, Stored, OwnRow, Shape, TypeInv, CountInv
<1>7. /\ order'[r] = Fill(order[r], qty) /\ order'[r] \in Order
      /\ order'[r].stock = order[r].stock
      /\ listed'[r] = [listed[r] EXCEPT ![c] = Fill(@, qty)]
      /\ counterOrder'[r] = c /\ fillQty'[r] = qty /\ pc'[r] = "updated"
  BY <1>1, <1>2, <1>3, <1>5, FillType
<1>8. \A q \in Requests \ {r} :
        /\ pc'[q] = pc[q] /\ order'[q] = order[q] /\ listed'[q] = listed[q]
        /\ counterOrder'[q] = counterOrder[q] /\ fillQty'[q] = fillQty[q]
  BY <1>1, <1>2
<1>9. \A q \in Requests :
        /\ Live(q)' <=> Live(q)
        /\ InLoop(q)' <=> InLoop(q)
        /\ Pending(q)' = Pending(q)
  BY <1>2, <1>3, <1>7, <1>8 DEF Live, InLoop, InTrade, Pending
<1>10. overwritten \subseteq overwritten' /\ (i \notin overwritten' => o.done)
  BY <1>1
<1>11. /\ orderRows' \in [IDs -> Order \cup {Nil}]
       /\ \A j \in Rows : orderRows'[j] # Nil /\ Like(orderRows'[j], orderRows[j])
       /\ \A j \in IDs : j # i => orderRows'[j] = orderRows[j]
  <2>1. CASE o.done
    BY <1>1, <1>6, <1>7, <2>1, UpdateKeeps
  <2>2. CASE ~o.done
    BY <1>1, <1>6, <2>2 DEF Like, Rows
  <2>3. QED
    BY <2>1, <2>2
<1>12. Rows' = Rows /\ RowsStay /\ TermsStay
  <2>1. Rows' = Rows
    BY <1>6, <1>11 DEF Rows, IDs
  <2>2. RowsStay
    BY <1>10, <1>11 DEF RowsStay
  <2>3. TermsStay
    BY <1>2, <1>7, <1>8 DEF TermsStay
  <2>4. QED
    BY <2>1, <2>2, <2>3
<1>13. ASSUME i \notin overwritten'
       PROVE  /\ orderRows[i] = order[r] /\ orderRows'[i] = order'[r]
              /\ \A q \in Requests : Live(q) /\ id[q] = i => q = r
  <2>1. orderRows[i] = order[r] /\ \A q \in Requests : Live(q) /\ id[q] = i => q = r
    BY <1>1, <1>3, <1>10, <1>13 DEF TablesInv, OwnerInv
  <2>2. orderRows'[i] = order'[r]
    BY <1>1, <1>5, <1>6, <1>7, <1>10, <1>13, <2>1, UpdateFill
  <2>3. QED
    BY <2>1, <2>2
<1>14. ASSUME NEW q \in Requests, InLoop(q), NEW d \in DOMAIN listed[q],
              d \notin overwritten
       PROVE  d # i
  BY <1>1, <1>3, <1>14, NotListed DEF TablesInv
<1>15. NewInv'
  BY <1>2, <1>7, <1>8 DEF TablesInv, NewInv
<1>16. OwnerInv'
  <2> SUFFICES ASSUME NEW q \in Requests, Live(q), id[q] \notin overwritten'
               PROVE  /\ orderRows'[id[q]] = order'[q]
                      /\ \A x \in Requests : Live(x) /\ id[x] = id[q] => x = q
    BY <1>2, <1>9 DEF OwnerInv
  <2>1. CASE id[q] = i
    BY <1>13, <2>1
  <2>2. CASE id[q] # i
    <3>1. q # r /\ id[q] \in IDs /\ id[q] \notin overwritten
      BY <1>1, <1>10, <2>2 DEF Live, InLoop, InTrade, TypeInv, CountInv
    <3>2. QED
      BY <1>8, <1>11, <2>2, <3>1 DEF TablesInv, OwnerInv
  <2>3. QED
    BY <2>1, <2>2
<1>17. BehindInv'
  <2> SUFFICES ASSUME NEW q \in Requests, pc'[q] = "updated",
                      counterOrder'[q] \notin overwritten'
               PROVE  Behind(q, counterOrder[q])'
    BY DEF BehindInv
  <2>1. CASE q = r
    <3>1. c \notin overwritten /\ c \in DOMAIN listed[r]
      BY <1>3, <1>7, <1>10, <2>1 DEF Pending
    <3>2. listed[r][c] = orderRows[c]
      BY <1>2, <1>3, <3>1 DEF Inv, ListIsCurrent
    <3>3. orderRows'[c] = orderRows[c]
      BY <1>3, <1>4, <1>11, <1>14, <3>1
    <3>4. listed'[r][c] = Fill(orderRows[c], qty)
      BY <1>7, <3>1, <3>2
    <3>5. QED
      BY <1>5, <1>7, <2>1, <3>2, <3>3, <3>4 DEF Behind
  <2>2. CASE q # r
    <3>1. /\ InLoop(q) /\ counterOrder[q] \in DOMAIN listed[q]
          /\ Behind(q, counterOrder[q]) /\ counterOrder[q] \in IDs
      BY <1>8, <1>10, <2>2
         DEF TablesInv, BehindInv, InLoop, InTrade, Inv, Copies, TypeInv, ListType
    <3>2. orderRows'[counterOrder[q]] = orderRows[counterOrder[q]]
      BY <1>8, <1>10, <1>11, <1>14, <2>2, <3>1
    <3>3. QED
      BY <1>8, <2>2, <3>1, <3>2 DEF Behind
  <2>3. QED
    BY <2>1, <2>2
<1>18. TradesInv'
  BY <1>2, <1>12 DEF TablesInv, TradesInv
<1>19. AheadInv'
  <2> SUFFICES ASSUME NEW q \in Requests, InLoop(q), NEW d \in Pending(q)
               PROVE  Ahead(q, d)'
    BY <1>9 DEF AheadInv
  <2>1. /\ OtherSide(q, d) /\ d \in Rows /\ d \in IDs /\ d \in DOMAIN listed[q]
        /\ Ahead(q, d) /\ orderRows[d] \in Order /\ listed[q][d] \in Order
    BY PendingRows DEF TablesInv, AheadInv, Pending
  <2>2. CASE q = r /\ d = i
    BY <1>1, <1>2, <2>2 DEF Ahead
  <2>3. CASE q = r /\ d = c /\ d # i
    <3>1. orderRows'[d] = orderRows[d]
      BY <1>11, <2>1, <2>3
    <3>2. Reused(d) => Reused(d)'
      BY <1>12, <2>1, ReusedStays
    <3>3. CASE orderRows[d].filled <= listed[q][d].filled
      <4>1. listed'[r][c].filled = listed[r][c].filled + qty
        BY <1>4, <1>5, <1>7, <2>1, <2>3, FillMoves
      <4>2. orderRows[c].filled \in Nat /\ listed[r][c].filled \in Nat
        BY <1>4 DEF Order
      <4>3. orderRows'[d].filled <= listed'[q][d].filled
        BY <1>5, <2>3, <3>1, <3>3, <4>1, <4>2
      <4>4. QED
        BY <4>3 DEF Ahead
    <3>4. QED
      BY <1>1, <2>1, <2>3, <3>2, <3>3 DEF Ahead
  <2>4. CASE q = r /\ d # c /\ d # i
    BY <1>2, <1>7, <1>11, <1>12, <2>1, <2>4, AheadStays
  <2>5. CASE q # r /\ d = i
    <3>1. order[q].stock # order[r].stock
      BY <1>3, <2>5, OneLoop DEF Inv
    <3>2. orderRows'[d].stock = orderRows[d].stock
      BY <1>11, <2>1 DEF Like
    <3>3. Reused(d)'
      BY <1>1, <1>2, <1>7, <2>1, <2>5, <3>1, <3>2 DEF Reused, OtherSide
    <3>4. QED
      BY <3>3 DEF Ahead
  <2>6. CASE q # r /\ d # i
    BY <1>2, <1>8, <1>11, <1>12, <2>1, <2>6, AheadStays
  <2>7. QED
    BY <2>2, <2>3, <2>4, <2>5, <2>6
<1>20. Conservation'
  <2> SUFFICES ASSUME NEW j \in Rows', j \notin overwritten'
               PROVE  Balanced(j)'
    BY DEF Conservation, Balanced
  <2>1. j \in Rows /\ j \in IDs /\ j \notin overwritten /\ Balanced(j)
    BY <1>10, <1>12 DEF TablesInv, Conservation, Balanced, Rows
  <2>2. TradedQty(j)' = TradedQty(j)
    BY <1>2, TradedStays
  <2>3. CASE j = i
    <3>1. orderRows[i] = order[r] /\ orderRows'[i] = Fill(order[r], qty)
      BY <1>7, <1>13, <2>3
    <3>2. InFlight(i) = 0
      <4>1. ASSUME NEW q \in Serving(i)
            PROVE  FALSE
        <5>1. q \in Requests /\ InLoop(q) /\ InTrade(q)
              /\ (id[q] = i \/ i \in DOMAIN listed[q])
          BY ServingLoops
        <5>2. q # r
          BY <1>3, <5>1
        <5>3. id[q] # i
          BY <1>13, <2>3, <5>1, <5>2 DEF Live
        <5>4. QED
          BY <1>14, <2>1, <2>3, <5>1, <5>3
      <4>2. Serving(i) = {}
        BY <4>1
      <4>3. QED
        BY <2>1, <2>3, <4>2, FlightKnown DEF FlightInv, TablesInv
    <3>3. InFlight(i)' = qty
      <4>1. r \in Serving(i)'
        BY <1>1, <1>2, <1>7 DEF Serving
      <4>2. QED
        BY <1>7, <1>16, <2>3, <4>1, FlightKnownNext DEF FlightInv
    <3>4. TradedQty(i) \in Nat
      BY TradedNat
    <3>5. /\ orderRows'[i].filled = orderRows[i].filled + qty
          /\ orderRows'[i].remaining = orderRows[i].remaining - qty
          /\ orderRows'[i].quantity = orderRows[i].quantity
          /\ orderRows[i].filled \in Nat /\ orderRows[i].remaining \in Nat
          /\ orderRows[i].quantity \in Nat
      BY <1>3, <1>5, <3>1, FillMoves
    <3>6. QED
      BY <1>2, <1>5, <2>1, <2>2, <2>3, <3>2, <3>3, <3>4, <3>5 DEF Balanced
  <2>4. CASE j # i
    <3>1. r \notin Serving(j) /\ r \notin Serving(j)'
      BY <1>1, <1>2, <1>7, <2>4 DEF Serving
    <3>2. Serving(j)' = Serving(j)
      BY <1>2, <1>8, <3>1 DEF Serving
    <3>3. \A q \in Serving(j) : fillQty'[q] = fillQty[q]
      BY <1>8, <3>1 DEF Serving
    <3>4. QED
      BY <1>2, <1>11, <2>1, <2>2, <2>4, <3>2, <3>3, BalanceStays
  <2>5. QED
    BY <2>3, <2>4
<1>21. QED
  BY <1>15, <1>16, <1>17, <1>18, <1>19, <1>20 DEF TablesInv

LEMMA TablesStep ==
  Inv /\ Inv' /\ TypeInv /\ TypeInv' /\ TablesInv /\ [Next]_vars => TablesInv'
<1> SUFFICES ASSUME Inv, Inv', TypeInv, TypeInv', TablesInv, [Next]_vars
             PROVE  TablesInv'
  OBVIOUS
<1>1. CASE UNCHANGED vars
  BY <1>1, TablesStutter
<1>2. CASE Crash
  BY <1>2, TablesCrash
<1>3. CASE AllOver
  BY <1>3, TablesStutter DEF AllOver
<1>4. ASSUME NEW r \in Requests, CreateOrder(r) \/ Process(r)
      PROVE  TablesInv'
  BY <1>4, TablesCreateOrder, TablesSaveOrder, TablesStartMatching, TablesSkipCounter,
     TablesFillAndUpdate, TablesUpdateCounter, TablesRecordTrade, TablesFinishMatching
     DEF Process
<1>5. QED
  BY <1>1, <1>2, <1>3, <1>4 DEF Next

(* An order whose row no fault or race has left behind is the object of the *)
(* one request that may trade it, its row is at most one fill behind a copy *)
(* of it, and the trades tell of no more than the row does.                 *)
THEOREM TablesAgree == Spec => []TablesInv
BY TablesInit, TablesStep, Invariance, TypesInvariance, PTL DEF Spec

(* A row of the orders table adds up and never tells of less than the       *)
(* trades of its order, with the one on its way, unless an update without   *)
(* effect, a reused ID or a fill while its request waited left it behind;   *)
(* it tells of no more either, unless a trade of it was not saved, had a    *)
(* reused ID or was under way in a crash.                                   *)
THEOREM TablesBalance == Spec => []Conservation
<1>1. TablesInv => Conservation
  BY DEF TablesInv
<1>2. QED
  BY <1>1, TablesAgree, PTL

(* No answered order loses a fill from its row, whatever fails and wherever *)
(* the process crashes: what is written over it is never older than it.     *)
THEOREM AnsweredKeepFills == Spec => AnsweredOnlyGrow
<1> DEFINE Answered(i) == \A r \in Requests : id[r] = i =>
                            Over(r) /\ order[r].stock = orderRows[i].stock
<1>1. ASSUME Inv, TypeInv, TablesInv, [Next]_vars, NEW i \in Rows, Answered(i)
      PROVE  orderRows'[i].filled >= orderRows[i].filled
  <2>1. i \in IDs /\ orderRows[i] \in Order /\ orderRows[i].filled \in Nat
    BY <1>1 DEF Rows, Inv, Shape, Order
  <2>2. \A r \in Requests : pc[r] = "created" \/ InLoop(r) => id[r] # i
    BY <1>1 DEF Over, InLoop, InTrade
  <2>3. ~Reused(i)
    BY <1>1 DEF Reused
  <2> HIDE DEF Answered
  <2>4. ASSUME orderRows' = orderRows
        PROVE  orderRows'[i].filled >= orderRows[i].filled
    BY <2>1, <2>4
  <2>5. ASSUME orderRows'[i] = orderRows[i]
        PROVE  orderRows'[i].filled >= orderRows[i].filled
    BY <2>1, <2>5
  <2>6. ASSUME NEW r \in Requests, SaveOrder(r)
        PROVE  orderRows'[i] = orderRows[i]
    <3>1. id[r] # i
      BY <2>2, <2>6 DEF SaveOrder
    <3>2. QED
      BY <1>1, <2>1, <2>6, <3>1 DEF SaveOrder, Upsert, Inv, Shape
  <2>7. ASSUME NEW r \in Requests, FillAndUpdate(r)
        PROVE  orderRows'[i] = orderRows[i]
    <3>1. id[r] # i
      BY <2>2, <2>7 DEF FillAndUpdate, InLoop
    <3>2. QED
      BY <1>1, <2>1, <2>7, <3>1 DEF FillAndUpdate, Update, Inv, Shape
  <2>8. ASSUME NEW r \in Requests, UpdateCounter(r)
        PROVE  orderRows'[i].filled >= orderRows[i].filled
    <3>1. PICK c, copy : c = counterOrder[r] /\ copy = listed[r][c]
      OBVIOUS
    <3>2. PICK o \in Outcomes :
            orderRows' = IF o.done THEN Update(c, copy) ELSE orderRows
      BY <2>8, <3>1 DEF UpdateCounter
    <3>3. CASE c = i /\ o.done
      <4>1. InLoop(r) /\ i \in Pending(r)
        BY <1>1, <2>8, <3>1, <3>3 DEF UpdateCounter, InLoop, InTrade, TypeInv, ListType
      <4>2. orderRows[i].filled <= copy.filled
        BY <1>1, <2>2, <2>3, <3>1, <3>3, <4>1 DEF TablesInv, AheadInv, Ahead
      <4>3. copy \in Order
        BY <1>1, <3>1, <3>3, <4>1, PendingRows
      <4>4. orderRows'[i].filled = copy.filled
        BY <1>1, <2>1, <3>2, <3>3 DEF Update, Inv, Shape, Order
      <4>5. QED
        BY <2>1, <4>2, <4>3, <4>4 DEF Order
    <3>4. CASE ~(c = i /\ o.done)
      <4>1. orderRows'[i] = orderRows[i]
        BY <1>1, <2>1, <3>2, <3>4 DEF Update, Inv, Shape
      <4>2. QED
        BY <2>5, <4>1
    <3>5. QED
      BY <3>3, <3>4
  <2>9. CASE UNCHANGED vars \/ AllOver \/ Crash
    BY <2>4, <2>9 DEF AllOver, Crash, vars, tables
  <2>10. ASSUME NEW r \in Requests,
                \/ CreateOrder(r) \/ StartMatching(r) \/ SkipCounter(r)
                \/ RecordTrade(r) \/ FinishMatching(r)
         PROVE  orderRows' = orderRows
    BY <2>10 DEF CreateOrder, StartMatching, SkipCounter, RecordTrade, FinishMatching,
       tables
  <2>11. QED
    BY <1>1, <2>4, <2>5, <2>6, <2>7, <2>8, <2>9, <2>10 DEF Next, Process
<1>2. Inv /\ TypeInv /\ TablesInv /\ [Next]_vars =>
        [\A i \in Rows : Answered(i) => orderRows'[i].filled >= orderRows[i].filled]_vars
  BY <1>1
<1>3. QED
  BY <1>2, Invariance, TypesInvariance, TablesAgree, PTL DEF Spec, AnsweredOnlyGrow
=============================================================================
