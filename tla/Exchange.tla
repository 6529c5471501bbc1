------------------------------ MODULE Exchange ------------------------------
(***************************************************************************)
(* What the exchange promises, without goroutines, mutexes or loops: an    *)
(* order enters the book, and some time later it is matched in one atomic  *)
(* step against orders of the other side, oldest first.  MatchingEngine is *)
(* checked to implement this specification.                                *)
(***************************************************************************)
EXTENDS Orders, FiniteSets, Functions

CONSTANT Orders

VARIABLES
  terms,    \* what each order in the book was placed for
  matched,  \* the orders that had their turn
  deals     \* every trade: who bought from whom, at what price, how much

vars == <<terms, matched, deals>>

Terms == [stock : Stocks, side : Sides, price : Prices,
          quantity : Quantities, createdAt : Nat]

Placed == DOMAIN terms

Left(o) ==
  terms[o].quantity -
    SumFunction([d \in {x \in deals : o \in {x.buy, x.sell}} |-> d.quantity])

Init ==
  /\ terms = <<>>
  /\ matched = {}
  /\ deals = {}

\* An order enters the book; its creation time may lie before that of
\* orders that entered earlier.
Place(o) ==
  /\ o \notin Placed
  /\ DOMAIN terms' = Placed \cup {o}
  /\ terms' = [p \in DOMAIN terms' |-> terms'[p]]
  /\ terms'[o] \in Terms
  /\ \A p \in Placed : terms'[p] = terms[p]
  /\ UNCHANGED <<matched, deals>>

\* The orders of the other side that o can trade with.
Rivals(o) ==
  {c \in Placed : /\ terms[c].stock = terms[o].stock
                  /\ terms[c].side # terms[o].side
                  /\ PricesMatch(terms[o], terms[c])
                  /\ Left(c) > 0}

\* A way to fill o from the orders in seen: as much as there is, the oldest
\* first, and no more than one of them in part.
FifoAllocation(o, seen, alloc) ==
  /\ \A c \in seen : alloc[c] <= Left(c)
  /\ LET offered == SumFunction([c \in seen |-> Left(c)])
         wanted  == Left(o)
     IN  SumFunctionOnSet(alloc, seen) =
           IF wanted <= offered THEN wanted ELSE offered
  /\ \A c, d \in seen :
       terms[c].createdAt < terms[d].createdAt /\ alloc[d] > 0
         => alloc[c] = Left(c)
  /\ Cardinality({c \in seen : alloc[c] \in 1 .. (Left(c) - 1)}) <= 1

\* Each deal is made at the price of the order that was already there.
Deal(o, c, qty) ==
  [buy      |-> IF terms[o].side = "BUY" THEN o ELSE c,
   sell     |-> IF terms[o].side = "BUY" THEN c ELSE o,
   price    |-> terms[c].price,
   quantity |-> qty]

\* An order's turn.  It never misses an order that had its turn before; one
\* that is still waiting for its own turn may be seen or not.
Match(o) ==
  /\ o \in Placed \ matched
  /\ matched' = matched \cup {o}
  /\ UNCHANGED terms
  /\ \E seen \in SUBSET Rivals(o) :
       /\ Rivals(o) \cap matched \subseteq seen
       /\ \E alloc \in [seen -> 0 .. Left(o)] :
            /\ FifoAllocation(o, seen, alloc)
            /\ deals' = deals \cup
                 {Deal(o, c, alloc[c]) : c \in {d \in seen : alloc[d] > 0}}

Next == \E o \in Orders : Place(o) \/ Match(o)

Spec == Init /\ [][Next]_vars
=============================================================================
