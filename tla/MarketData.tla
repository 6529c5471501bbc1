----------------------------- MODULE MarketData -----------------------------
(***************************************************************************)
(* The market data record of internal/domain/market.go and the map of the  *)
(* market repository, as pure operators.  Change and ChangePct are not     *)
(* kept: the code always derives them from the last and the open price.    *)
(***************************************************************************)
EXTENDS Naturals

CONSTANT Nil   \* Go's nil: no *MarketData under this key

Market ==
  [open : Nat, last : Nat, prev : Nat, high : Nat, low : Nat, volume : Nat]

ASSUME NilIsNoMarketData == Nil \notin Market

\* The low starts at 0, which UpdatePrice reads as "not set yet".
NewMarketData(price) ==
  [open |-> price, last |-> price, prev |-> price, high |-> price,
   low |-> 0, volume |-> 0]

\* Mutant: a low of 0 is taken for a price.
UpdatePriceLowStuck(md, price, volume) ==
  [open   |-> IF md.open = 0 THEN price ELSE md.open,
   prev   |-> IF md.open = 0 THEN price ELSE md.last,
   last   |-> price,
   high   |-> IF price > md.high THEN price ELSE md.high,
   low    |-> IF price < md.low THEN price ELSE md.low,
   volume |-> md.volume + volume]

\* An open price of 0 is what the Finnhub feed creates its entries with.
UpdatePrice(md, price, volume) ==
  [open   |-> IF md.open = 0 THEN price ELSE md.open,
   prev   |-> IF md.open = 0 THEN price ELSE md.last,
   last   |-> price,
   high   |-> IF price > md.high THEN price ELSE md.high,
   low    |-> IF md.low = 0 \/ price < md.low THEN price ELSE md.low,
   volume |-> md.volume + volume]

\* MarketRepository.GetOrCreate: the first caller fixes the open price.
GetOrCreate(market, stock, price) ==
  IF market[stock] = Nil
  THEN [market EXCEPT ![stock] = NewMarketData(price)]
  ELSE market
=============================================================================
