------------------------------- MODULE Orders -------------------------------
(***************************************************************************)
(* The order entity of internal/domain/order.go and the price test of the  *)
(* matching engine, as pure operators.  An order is a record; the pointer  *)
(* to it that the program passes around is the index of a function in the  *)
(* modules that use these operators.                                       *)
(*                                                                         *)
(* Prices are float64 in the code but are only ever compared and copied by *)
(* the matching engine, so any totally ordered set of positive numbers     *)
(* stands for them.  OrderStatusCancelled is declared by the code and      *)
(* assigned nowhere, so it is not a status an order can have.              *)
(***************************************************************************)
EXTENDS Naturals

CONSTANTS
  Stocks,      \* the stock codes orders are placed for
  Prices,      \* the limit prices a request may carry
  Quantities   \* the quantities a request may carry

\* CreateOrder rejects a price or a quantity that is not positive.
ASSUME PositiveInputs ==
  /\ Prices \subseteq Nat \ {0}
  /\ Quantities \subseteq Nat \ {0}

Sides == {"BUY", "SELL"}

Statuses == {"OPEN", "PARTIAL", "FILLED"}

Order ==
  [stock : Stocks, side : Sides, price : Prices, quantity : Quantities,
   filled : Nat, remaining : Nat, status : Statuses, createdAt : Nat]

NewOrder(stock, side, price, quantity, now) ==
  [stock |-> stock, side |-> side, price |-> price, quantity |-> quantity,
   filled |-> 0, remaining |-> quantity, status |-> "OPEN", createdAt |-> now]

Opposite(side) == IF side = "BUY" THEN "SELL" ELSE "BUY"

\* Order.Fill: RemainingQty is clamped at zero and decides the status.
Fill(order, qty) ==
  LET left == IF order.remaining <= qty THEN 0 ELSE order.remaining - qty
  IN  [order EXCEPT !.filled    = @ + qty,
                    !.remaining = left,
                    !.status    = IF left = 0 THEN "FILLED" ELSE "PARTIAL"]

\* The statuses GetOpenOrdersByStock selects.
IsOpen(order) == order.status \in {"OPEN", "PARTIAL"}

PricesMatch(incoming, resting) ==
  IF incoming.side = "BUY" THEN incoming.price >= resting.price
                           ELSE incoming.price <= resting.price

\* What one pass of the loop in ProcessOrder trades between the two orders.
FillQty(incoming, resting) ==
  IF incoming.remaining <= resting.remaining THEN incoming.remaining
                                             ELSE resting.remaining
=============================================================================
