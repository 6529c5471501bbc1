----------------------------- MODULE PriceFeed -----------------------------
(***************************************************************************)
(* Who writes the market data, and how the writers start and stop.  main   *)
(* starts one price feeder: the simulator with a goroutine for each stock, *)
(* or the Finnhub feed with one read loop, in whose place it starts the    *)
(* simulator if Start fails.  Trades of the matching engine update the     *)
(* same entries at any time after that, until the process ends.            *)
(*                                                                         *)
(* Every writer does the same: UpdatePrice, then GetTicker, then onEvent.  *)
(* Each is atomic, the three together are not.  The simulator derives its  *)
(* price from the last one, at a random distance: here, any price.         *)
(***************************************************************************)
EXTENDS MarketData, Sequences, FiniteSets, FiniteSetsExt, Functions

CONSTANTS
  Stocks,
  FeedStocks,   \* the stocks the feeder knows
  Prices,       \* the prices of ticks, trades and orders
  Volumes,      \* their volumes; a fraction of a unit is cut down to 0
  MaxUpdates,   \* how often UpdatePrice is called in a behaviour
  MaxDials      \* how often the feed can be made to connect

ASSUME FeedInputs ==
  /\ FeedStocks \subseteq Stocks /\ IsFiniteSet(Stocks)
  /\ Prices \subseteq Nat \ {0} /\ Volumes \subseteq Nat
  /\ MaxUpdates \in Nat /\ MaxDials \in Nat

VARIABLES
  main,       \* where main is
  feeder,     \* which price feeder it has started, or Nil
  done,       \* whether the feeder's channel done is closed
  sim,        \* where the simulator's goroutine of each stock is
  reader,     \* where readLoop is
  conns,      \* the state of every connection the feed has opened
  conn,       \* FinnhubFeed.conn: an index of conns, or 0
  market,     \* the market repository
  phase,      \* how far the writers are with their current update
  ticker,     \* what they have got from GetTicker
  initial,    \* history: the price each entry was created with
  updates,    \* history: the updates of each entry
  announced   \* history: the tickers given to onEvent

feed == <<reader, conns, conn>>
data == <<market, phase, ticker, initial, updates, announced>>
vars == <<main, feeder, done, sim, feed, data>>

Writers == {"engine", "feeder"}

Init ==
  /\ main = "starting"
  /\ feeder = Nil
  /\ done = FALSE
  /\ sim = [s \in FeedStocks |-> "none"]
  /\ reader = "none"
  /\ conns = <<>>
  /\ conn = 0
  /\ market = [s \in Stocks |-> Nil]
  /\ phase = [w \in Writers |-> [s \in Stocks |-> "idle"]]
  /\ ticker = [w \in Writers |-> [s \in Stocks |-> Nil]]
  /\ initial = [s \in Stocks |-> 0]
  /\ updates = [s \in Stocks |-> <<>>]
  /\ announced = [s \in Stocks |-> {}]

-----------------------------------------------------------------------------
(* One update of an entry, in three steps.                                 *)

UpdateCount == SumFunction([s \in Stocks |-> Len(updates[s])])

\* GetOrCreate with this price, then UpdatePrice.
Update(w, s, price, volume) ==
  /\ phase[w][s] = "idle"
  /\ UpdateCount < MaxUpdates
  /\ LET md == GetOrCreate(market, s, price)[s]
     IN  market' = [market EXCEPT ![s] = UpdatePrice(md, price, volume)]
  /\ initial' = IF market[s] = Nil THEN [initial EXCEPT ![s] = price]
                ELSE initial
  /\ updates' = [updates EXCEPT ![s] =
                   Append(@, [price |-> price, volume |-> volume])]
  /\ phase' = [phase EXCEPT ![w][s] = "updated"]
  /\ UNCHANGED <<ticker, announced>>

\* Mutant: the event carries the ticker of the last event.
GetTickerOnce(w, s) ==
  /\ phase[w][s] = "updated"
  /\ ticker' = IF ticker[w][s] # Nil THEN ticker
               ELSE [ticker EXCEPT ![w][s] = market[s]]
  /\ phase' = [phase EXCEPT ![w][s] = "holding"]
  /\ UNCHANGED <<market, initial, updates, announced>>

GetTicker(w, s) ==
  /\ phase[w][s] = "updated"
  /\ ticker' = [ticker EXCEPT ![w][s] = market[s]]
  /\ phase' = [phase EXCEPT ![w][s] = "holding"]
  /\ UNCHANGED <<market, initial, updates, announced>>

Emit(w, s) ==
  /\ phase[w][s] = "holding"
  /\ announced' = [announced EXCEPT ![s] = @ \cup {ticker[w][s]}]
  /\ phase' = [phase EXCEPT ![w][s] = "idle"]
  /\ UNCHANGED <<market, ticker, initial, updates>>

-----------------------------------------------------------------------------
(* main, up to the start of the HTTP server.                               *)

\* Creates the entries of the feeder's stocks.
Create(prices) ==
  /\ market' = [s \in Stocks |->
                  IF s \in FeedStocks THEN NewMarketData(prices[s])
                  ELSE market[s]]
  /\ initial' = [s \in Stocks |->
                   IF s \in FeedStocks THEN prices[s] ELSE initial[s]]
  /\ UNCHANGED <<phase, ticker, updates, announced>>

\* PriceSimulator.Start
StartSimulator ==
  /\ feeder' = "simulator"
  /\ main' = "serving"
  /\ sim' = [s \in FeedStocks |-> "waiting"]
  /\ \E prices \in [FeedStocks -> Prices] : Create(prices)
  /\ UNCHANGED <<done, reader>>

\* Finnhub is not enabled, has no key, or cannot be reached.
UseSimulator == main = "starting" /\ StartSimulator /\ UNCHANGED <<conns, conn>>

\* FinnhubFeed.Start reaches the server ...
DialFirst ==
  /\ main = "starting"
  /\ Len(conns) < MaxDials
  /\ conns' = Append(conns, "open")
  /\ conn' = Len(conns')
  /\ main' = "subscribing"
  /\ UNCHANGED <<feeder, done, sim, reader, data>>

\* ... but cannot subscribe ...
FallBack ==
  /\ main = "subscribing"
  /\ StartSimulator
  /\ conns' = [conns EXCEPT ![conn] = "closed"]
  /\ UNCHANGED conn

\* ... or can, and creates its entries without a price.
StartFeed ==
  /\ main = "subscribing"
  /\ feeder' = "feed"
  /\ main' = "serving"
  /\ reader' = "top"
  /\ Create([s \in FeedStocks |-> 0])
  /\ UNCHANGED <<done, sim, conns, conn>>

Start == UseSimulator \/ DialFirst \/ FallBack \/ StartFeed

-----------------------------------------------------------------------------
(* main, from the signal on.                                               *)

Signal ==
  /\ main = "serving"
  /\ done' = TRUE
  /\ main' = "stopping"
  /\ UNCHANGED <<feeder, sim, feed, data>>

\* Mutant: Stop waits for the server to hang up.
KeepConnection ==
  /\ main = "stopping"
  /\ UNCHANGED conns
  /\ main' = "waiting"
  /\ UNCHANGED <<feeder, done, sim, reader, conn, data>>

\* FinnhubFeed.Stop ends a pending ReadMessage; the simulator has none.
CloseConnection ==
  /\ main = "stopping"
  /\ conns' = IF feeder = "feed" THEN [conns EXCEPT ![conn] = "closed"]
              ELSE conns
  /\ main' = "waiting"
  /\ UNCHANGED <<feeder, done, sim, reader, conn, data>>

\* Mutant: Stop returns at once.
NoWaiting == TRUE

\* wg.Wait
GoroutinesEnded ==
  /\ reader \in {"none", "ended"}
  /\ \A s \in FeedStocks : sim[s] \in {"none", "ended"}

\* Stop returns.  Then main closes the brokers, which events go through.
StopReturns ==
  /\ main = "waiting"
  /\ GoroutinesEnded
  /\ main' = "stopped"
  /\ UNCHANGED <<feeder, done, sim, feed, data>>

Stop == CloseConnection \/ StopReturns

-----------------------------------------------------------------------------
(* PriceSimulator.simulateStock.                                           *)

Tick(s) ==
  /\ sim[s] = "waiting"
  /\ \E price \in Prices, volume \in Volumes \ {0} :
       Update("feeder", s, price, volume)
  /\ sim' = [sim EXCEPT ![s] = "ticking"]
  /\ UNCHANGED <<main, feeder, done, feed>>

EndTick(s) ==
  /\ sim[s] = "ticking"
  /\ Emit("feeder", s)
  /\ sim' = [sim EXCEPT ![s] = "waiting"]
  /\ UNCHANGED <<main, feeder, done, feed>>

EndSimulation(s) ==
  /\ sim[s] = "waiting"
  /\ done
  /\ sim' = [sim EXCEPT ![s] = "ended"]
  /\ UNCHANGED <<main, feeder, done, feed, data>>

-----------------------------------------------------------------------------
(* FinnhubFeed.readLoop.                                                   *)

MoveReader(from, to) ==
  /\ reader = from
  /\ reader' = to
  /\ UNCHANGED <<main, feeder, done, sim>>

LoopTop ==
  /\ MoveReader("top", IF done THEN "ended" ELSE "reading")
  /\ UNCHANGED <<conns, conn, data>>

ReceiveMessage ==
  /\ MoveReader("reading", "handling")
  /\ conns[conn] = "open"
  /\ UNCHANGED <<conns, conn, data>>

\* An item with a known symbol and a positive price; others are skipped.
HandleItem(s) ==
  /\ \A t \in Stocks : phase["feeder"][t] = "idle"
  /\ \E price \in Prices, volume \in Volumes :
       Update("feeder", s, price, volume)
  /\ MoveReader("handling", "handling")
  /\ UNCHANGED <<conns, conn>>

EndItem(s) ==
  /\ Emit("feeder", s)
  /\ MoveReader("handling", "handling")
  /\ UNCHANGED <<conns, conn>>

EndMessage ==
  /\ \A s \in Stocks : phase["feeder"][s] = "idle"
  /\ MoveReader("handling", "top")
  /\ UNCHANGED <<conns, conn, data>>

ReadError ==
  /\ MoveReader("reading", IF done THEN "ended" ELSE "pausing")
  /\ conns[conn] # "open"
  /\ UNCHANGED <<conns, conn, data>>

DoneWhilePausing ==
  /\ done
  /\ MoveReader("pausing", "ended")
  /\ UNCHANGED <<conns, conn, data>>

PauseOver == MoveReader("pausing", "dialing") /\ UNCHANGED <<conns, conn, data>>

\* Mutant: reconnect stores what Dial returned before it looks at the error.
StoredUnchecked ==
  /\ MoveReader("dialing", "ended")
  /\ conn' = Len(conns) + 1
  /\ UNCHANGED <<conns, data>>

\* The server cannot be reached: the loop returns.
DialFails == MoveReader("dialing", "ended") /\ UNCHANGED <<conns, conn, data>>

DialAgain ==
  /\ Len(conns) < MaxDials
  /\ conns' = Append(conns, "open")
  /\ MoveReader("dialing", "subscribing")
  /\ UNCHANGED <<conn, data>>

SubscribeFails ==
  /\ MoveReader("subscribing", "ended")
  /\ conns' = [conns EXCEPT ![Len(conns)] = "closed"]
  /\ UNCHANGED <<conn, data>>

\* The connection it replaces is not closed.
Reconnected ==
  /\ conn' = Len(conns)
  /\ MoveReader("subscribing", "top")
  /\ UNCHANGED <<conns, data>>

ReadLoop ==
  \/ LoopTop
  \/ EndMessage
  \/ ReadError
  \/ DoneWhilePausing
  \/ PauseOver
  \/ DialFails
  \/ DialAgain
  \/ SubscribeFails
  \/ Reconnected

LoseConnection(i) ==
  /\ conns[i] = "open"
  /\ conns' = [conns EXCEPT ![i] = "lost"]
  /\ UNCHANGED <<main, feeder, done, sim, reader, conn, data>>

-----------------------------------------------------------------------------
(* The HTTP server runs from the end of the start on.                      *)

Serving == main \notin {"starting", "subscribing"}

\* An order creates the entry of a stock that nobody has traded.
PlaceOrder(s) ==
  /\ Serving
  /\ market[s] = Nil
  /\ \E price \in Prices :
       /\ market' = GetOrCreate(market, s, price)
       /\ initial' = [initial EXCEPT ![s] = price]
  /\ UNCHANGED <<main, feeder, done, sim, feed, phase, ticker, updates,
                 announced>>

\* The engine trades; the stock's mutex allows one trade at a time.
Trade(s) ==
  /\ Serving
  /\ market[s] # Nil
  /\ \E price \in Prices, volume \in Volumes \ {0} :
       Update("engine", s, price, volume)
  /\ UNCHANGED <<main, feeder, done, sim, feed>>

EndTrade(s) == Emit("engine", s) /\ UNCHANGED <<main, feeder, done, sim, feed>>

Announce(s) ==
  /\ \E w \in Writers : GetTicker(w, s)
  /\ UNCHANGED <<main, feeder, done, sim, feed>>

-----------------------------------------------------------------------------
\* The updates of the instance are used up and the feeder has stopped.
Quiet ==
  /\ main = "stopped" /\ UpdateCount = MaxUpdates
  /\ \A s \in Stocks : phase["engine"][s] = "idle"
  /\ UNCHANGED vars

Next ==
  \/ Start \/ Signal \/ Stop
  \/ \E s \in FeedStocks :
       Tick(s) \/ EndTick(s) \/ EndSimulation(s) \/ HandleItem(s) \/ EndItem(s)
  \/ ReceiveMessage \/ ReadLoop
  \/ \E i \in DOMAIN conns : LoseConnection(i)
  \/ \E s \in Stocks : PlaceOrder(s) \/ Trade(s) \/ EndTrade(s) \/ Announce(s)
  \/ Quiet

Spec == Init /\ [][Next]_vars

\* Goroutines run and dialling comes to an end.  A simulator that finds both
\* its timer and done ready picks at random, and between ticks only done is
\* ready.  No message has to arrive, nothing has to tick or be traded, and
\* no signal has to come.
Fairness ==
  /\ WF_vars(Stop) /\ WF_vars(ReadLoop)
  /\ \A s \in Stocks : WF_vars(Announce(s)) /\ WF_vars(EndTrade(s))
  /\ \A s \in FeedStocks :
       WF_vars(EndTick(s)) /\ WF_vars(EndItem(s)) /\ SF_vars(EndSimulation(s))

FairSpec == Spec /\ Fairness

-----------------------------------------------------------------------------
(* Properties.                                                             *)

\* The shape of the state.
TypeOK ==
  /\ main \in {"starting", "subscribing", "serving", "stopping", "waiting",
               "stopped"}
  /\ feeder \in {Nil, "simulator", "feed"}
  /\ done \in BOOLEAN
  /\ sim \in [FeedStocks -> {"none", "waiting", "ticking", "ended"}]
  /\ reader \in {"none", "top", "reading", "handling", "pausing", "dialing",
                 "subscribing", "ended"}
  /\ conns \in Seq({"open", "lost", "closed"}) /\ conn \in 0 .. Len(conns)
  /\ market \in [Stocks -> Market \cup {Nil}]
  /\ phase \in [Writers -> [Stocks -> {"idle", "updated", "holding"}]]
  /\ ticker \in [Writers -> [Stocks -> Market \cup {Nil}]]
  /\ initial \in [Stocks -> Prices \cup {0}]
  /\ updates \in [Stocks -> Seq([price : Prices, volume : Volumes])]
  /\ announced \in [Stocks -> SUBSET Market]

\* The ticker of a stock is what its updates add up to, whoever made them and
\* whether the entry was created by the simulator, by an order or, without a
\* price, by the feed.
TickerSumsUp ==
  \A s \in Stocks : updates[s] # <<>> =>
    LET n      == Len(updates[s])
        prices == {updates[s][i].price : i \in 1 .. n}
        first  == IF initial[s] = 0 THEN updates[s][1].price ELSE initial[s]
        md     == market[s]
    IN  /\ md.open = first
        /\ md.last = updates[s][n].price
        /\ md.prev = IF n = 1 THEN first ELSE updates[s][n - 1].price
        /\ md.high = Max(prices \cup {first})
        /\ md.low = Min(prices)
        /\ md.volume = SumFunction([i \in 1 .. n |-> updates[s][i].volume])

\* Ticker events of two writers may leave in the wrong order, but the current
\* ticker is never kept from the clients: when no update of a stock is under
\* way, some event has carried its ticker as it is.
TickerAnnounced ==
  \A s \in Stocks :
    updates[s] # <<>> /\ (\A w \in Writers : phase[w][s] = "idle")
      => market[s] \in announced[s]

\* Once Stop has returned, the feeder touches nothing any more: main goes on
\* to close the brokers its events would go to.
SilentAfterStop ==
  [][main = "stopped" =>
       /\ phase'["feeder"] = phase["feeder"]
       /\ UNCHANGED <<sim, reader>>]_vars

\* Stop returns although the feed may be reading, pausing or reconnecting
\* (README.md:692 says so of the simulator).
EveryStopReturns == main = "stopping" ~> main = "stopped"
=============================================================================
