-------------------------- MODULE PriceFeedProofs --------------------------
(***************************************************************************)
(* Proofs about PriceFeed, for any number of stocks, updates and           *)
(* connections: Stop of a price feeder leaves nothing behind, the current  *)
(* ticker of a stock reaches the clients, and it is what the updates of    *)
(* the stock add up to.                                                    *)
(***************************************************************************)
EXTENDS PriceFeed, SumFacts, SequenceTheorems, TLAPS

Places == {"none", "waiting", "ticking", "ended"}
Phases == {"idle", "updated", "holding"}

ShapeInv ==
  /\ sim \in [FeedStocks -> Places]
  /\ phase \in [Writers -> [Stocks -> Phases]]

\* Before main serves, no feeder's goroutine runs.
StartInv ==
  main \in {"starting", "subscribing"} =>
    reader = "none" /\ \A s \in FeedStocks : sim[s] = "none"

\* An update that a feeder has begun is in the hands of one of its goroutines.
BusyInv ==
  \A s \in Stocks :
    phase["feeder"][s] # "idle" =>
      reader = "handling" \/ (s \in FeedStocks /\ sim[s] = "ticking")

StopInv == main = "stopped" => GoroutinesEnded

Inv == ShapeInv /\ StartInv /\ BusyInv /\ StopInv

\* The actions of Next, by what they may disturb.
Main     == Signal \/ Stop
Requests == \E s \in Stocks : PlaceOrder(s) \/ Trade(s) \/ EndTrade(s)
Reads    == ReadLoop \/ ReceiveMessage
Items    == \E s \in FeedStocks : HandleItem(s) \/ EndItem(s)
Ticks    == \E s \in FeedStocks : Tick(s) \/ EndTick(s) \/ EndSimulation(s)
Tickers  == \E s \in Stocks : Announce(s)
Network  == \E i \in DOMAIN conns : LoseConnection(i)

LEMMA NextCases ==
  ASSUME Next
  PROVE  Start \/ Main \/ Requests \/ Reads \/ Items \/ Ticks \/ Tickers
         \/ Network \/ UNCHANGED vars
BY Zenon DEF Next, Start, Main, Requests, Reads, Items, Ticks, Tickers,
             Network, Quiet

LEMMA InitInv == Init => Inv
BY DEF Init, Inv, ShapeInv, StartInv, BusyInv, StopInv, GoroutinesEnded,
       Places, Phases, Writers

\* An update's three steps change the phase of one writer and one stock.
LEMMA PhaseSteps ==
  ASSUME ShapeInv, NEW w \in Writers, NEW s \in Stocks,
         \/ \E price, volume : Update(w, s, price, volume)
         \/ GetTicker(w, s)
         \/ Emit(w, s)
  PROVE  \E p \in Phases : phase' = [phase EXCEPT ![w][s] = p]
BY DEF Update, GetTicker, Emit, Phases

\* What such a step leaves of the phases.
LEMMA PhaseChange ==
  ASSUME ShapeInv, NEW w \in Writers, NEW s \in Stocks, NEW p \in Phases,
         phase' = [phase EXCEPT ![w][s] = p]
  PROVE  /\ phase' \in [Writers -> [Stocks -> Phases]]
         /\ phase'[w][s] = p
         /\ \A v \in Writers, t \in Stocks :
              v # w \/ t # s => phase'[v][t] = phase[v][t]
         /\ \A v \in Writers : v # w => phase'[v] = phase[v]
BY DEF ShapeInv

LEMMA StepInv == Inv /\ [Next]_vars => Inv'
<1> SUFFICES ASSUME Inv, [Next]_vars PROVE Inv'
  OBVIOUS
<1> USE DEF Inv, ShapeInv, StartInv, BusyInv, StopInv, GoroutinesEnded
<1>1. CASE UNCHANGED vars
  BY <1>1 DEF vars, feed, data
<1>2. CASE Start
  <2>1. CASE UseSimulator \/ FallBack
    BY <2>1 DEF UseSimulator, FallBack, StartSimulator, Create, Places
  <2>2. CASE DialFirst
    BY <2>2 DEF DialFirst, data
  <2>3. CASE StartFeed
    BY <2>3 DEF StartFeed, Create
  <2>. QED
    BY <1>2, <2>1, <2>2, <2>3 DEF Start, Start
<1>3. CASE Main
  BY <1>3 DEF Main, Signal, Stop, CloseConnection, StopReturns, feed, data
<1>4. CASE Requests
  <2>1. PICK s \in Stocks : PlaceOrder(s) \/ Trade(s) \/ EndTrade(s)
    BY <1>4 DEF Requests
  <2>2. CASE PlaceOrder(s)
    BY <2>2 DEF PlaceOrder, feed
  <2>3. CASE Trade(s) \/ EndTrade(s)
    <3>1. UNCHANGED <<main, sim, reader>>
      BY <2>3 DEF Trade, EndTrade, feed
    <3>2. PICK p \in Phases : phase' = [phase EXCEPT !["engine"][s] = p]
      BY <2>3, PhaseSteps DEF Trade, EndTrade, Writers
    <3>. QED
      BY <3>1, <3>2, PhaseChange DEF Writers
  <2>. QED
    BY <2>1, <2>2, <2>3
<1>5. CASE Reads
  BY <1>5 DEF Reads, ReadLoop, ReceiveMessage, LoopTop, EndMessage, ReadError,
              DoneWhilePausing, PauseOver, DialFails, DialAgain,
              SubscribeFails, Reconnected, MoveReader, data
<1>6. CASE Items
  <2>1. PICK s \in FeedStocks : HandleItem(s) \/ EndItem(s)
    BY <1>6 DEF Items
  <2>2. s \in Stocks
    BY FeedInputs
  <2>3. UNCHANGED <<main, sim>> /\ reader = "handling" /\ reader' = reader
    BY <2>1 DEF HandleItem, EndItem, MoveReader
  <2>4. PICK p \in Phases : phase' = [phase EXCEPT !["feeder"][s] = p]
    BY <2>1, <2>2, PhaseSteps DEF HandleItem, EndItem, Writers
  <2>. QED
    BY <2>2, <2>3, <2>4, PhaseChange DEF Writers
<1>7. CASE Ticks
  <2>1. PICK s \in FeedStocks : Tick(s) \/ EndTick(s) \/ EndSimulation(s)
    BY <1>7 DEF Ticks
  <2>2. s \in Stocks
    BY FeedInputs
  <2>3. CASE EndSimulation(s)
    BY <2>3 DEF EndSimulation, feed, data, Places
  <2>4. CASE Tick(s)
    <3>1. /\ UNCHANGED <<main, reader>> /\ sim[s] = "waiting"
          /\ sim' = [sim EXCEPT ![s] = "ticking"]
      BY <2>4 DEF Tick, feed
    <3>2. PICK p \in Phases : phase' = [phase EXCEPT !["feeder"][s] = p]
      BY <2>4, <2>2, PhaseSteps DEF Tick, Writers
    <3>. QED
      BY <2>2, <3>1, <3>2, PhaseChange DEF Writers, Places
  <2>5. CASE EndTick(s)
    <3>1. /\ UNCHANGED <<main, reader>> /\ sim[s] = "ticking"
          /\ sim' = [sim EXCEPT ![s] = "waiting"]
      BY <2>5 DEF EndTick, feed
    <3>2. phase' = [phase EXCEPT !["feeder"][s] = "idle"]
      BY <2>5 DEF EndTick, Emit
    <3>. QED
      BY <2>2, <3>1, <3>2, PhaseChange DEF Writers, Places, Phases
  <2>. QED
    BY <2>1, <2>3, <2>4, <2>5
<1>8. CASE Tickers
  <2>1. PICK s \in Stocks, w \in Writers : GetTicker(w, s)
    BY <1>8 DEF Tickers, Announce
  <2>2. UNCHANGED <<main, sim, reader>>
    BY <1>8 DEF Tickers, Announce, feed
  <2>3. /\ phase[w][s] = "updated"
        /\ phase' = [phase EXCEPT ![w][s] = "holding"]
    BY <2>1 DEF GetTicker
  <2>. QED
    BY <2>2, <2>3, PhaseChange DEF Writers, Phases
<1>9. CASE Network
  BY <1>9 DEF Network, LoseConnection, data
<1>. QED
  BY <1>1, <1>2, <1>3, <1>4, <1>5, <1>6, <1>7, <1>8, <1>9, NextCases DEF vars

\* Once main has gone on, no step is a feeder's.
LEMMA StepSilent ==
  ASSUME Inv, [Next]_vars, main = "stopped"
  PROVE  phase'["feeder"] = phase["feeder"] /\ UNCHANGED <<sim, reader>>
<1>1. /\ reader \in {"none", "ended"}
      /\ \A s \in FeedStocks : sim[s] \in {"none", "ended"}
      /\ \A s \in Stocks : phase["feeder"][s] = "idle"
  BY DEF Inv, StopInv, BusyInv, GoroutinesEnded
<1>2. CASE UNCHANGED vars
  BY <1>2 DEF vars, feed, data
<1>3. CASE Start \/ Main
  BY <1>3 DEF Start, UseSimulator, FallBack, StartSimulator,
              DialFirst, StartFeed, Main, Signal, Stop, CloseConnection,
              StopReturns
<1>4. CASE Requests
  <2>1. PICK s \in Stocks : PlaceOrder(s) \/ Trade(s) \/ EndTrade(s)
    BY <1>4 DEF Requests
  <2>2. CASE PlaceOrder(s)
    BY <2>2 DEF PlaceOrder, feed
  <2>3. CASE Trade(s) \/ EndTrade(s)
    <3>1. PICK p \in Phases : phase' = [phase EXCEPT !["engine"][s] = p]
      BY <2>3, PhaseSteps DEF Inv, Trade, EndTrade, Writers
    <3>. QED
      BY <2>3, <3>1, PhaseChange DEF Inv, Trade, EndTrade, feed, Writers
  <2>. QED
    BY <2>1, <2>2, <2>3
<1>5. CASE Reads \/ Items
  BY <1>1, <1>5 DEF Reads, ReadLoop, ReceiveMessage, LoopTop, EndMessage,
              ReadError, DoneWhilePausing, PauseOver, DialFails, DialAgain,
              SubscribeFails, Reconnected, MoveReader, Items, HandleItem,
              EndItem
<1>6. CASE Ticks
  BY <1>1, <1>6 DEF Ticks, Tick, EndTick, EndSimulation
<1>7. CASE Tickers
  <2>1. PICK s \in Stocks, w \in Writers : GetTicker(w, s)
    BY <1>7 DEF Tickers, Announce
  <2>2. /\ w = "engine"
        /\ phase' = [phase EXCEPT ![w][s] = "holding"]
    BY <1>1, <2>1 DEF GetTicker, Writers
  <2>3. UNCHANGED <<sim, reader>>
    BY <1>7 DEF Tickers, Announce, feed
  <2>. QED
    BY <2>2, <2>3, PhaseChange DEF Inv, Writers, Phases
<1>8. CASE Network
  BY <1>8 DEF Network, LoseConnection, data
<1>. QED
  BY <1>2, <1>3, <1>4, <1>5, <1>6, <1>7, <1>8, NextCases DEF vars

\* An update that a feeder has begun always belongs to a running goroutine,
\* and once Stop has returned there is none: the invariant of the module.
THEOREM FeederInvariance == Spec => []Inv
BY InitInv, StepInv, PTL DEF Spec

\* Whatever the feed or the simulator was doing when the signal came, once
\* Stop has returned no goroutine of it runs and no update of it is open.
THEOREM StopIsFinal == Spec => SilentAfterStop
<1>1. Inv /\ [Next]_vars =>
        [main = "stopped" =>
           /\ phase'["feeder"] = phase["feeder"]
           /\ UNCHANGED <<sim, reader>>]_vars
  BY StepSilent
<1>. QED
  BY <1>1, FeederInvariance, PTL DEF Spec, SilentAfterStop

-----------------------------------------------------------------------------
(* The data: its shape, and that the current ticker reaches the clients.   *)

DataShape ==
  /\ market \in [Stocks -> Market \cup {Nil}]
  /\ phase \in [Writers -> [Stocks -> Phases]]
  /\ ticker \in [Writers -> [Stocks -> Market \cup {Nil}]]
  /\ initial \in [Stocks -> Prices \cup {0}]
  /\ updates \in [Stocks -> Seq([price : Prices, volume : Volumes])]
  /\ announced \in [Stocks -> SUBSET Market]

\* Whoever is in an update has an entry to read, then a ticker to announce.
HeldInv ==
  \A w \in Writers, s \in Stocks :
    /\ phase[w][s] = "updated" => market[s] \in Market
    /\ phase[w][s] = "holding" => ticker[w][s] \in Market

\* The current ticker has been announced, or some writer is going to.
OnItsWay(s) ==
  \/ market[s] \in announced[s]
  \/ \E w \in Writers :
       \/ phase[w][s] = "updated"
       \/ phase[w][s] = "holding" /\ ticker[w][s] = market[s]

CarriedInv ==
  \A s \in Stocks : updates[s] # <<>> => market[s] \in Market /\ OnItsWay(s)

\* Nothing is updated before main serves.
Untouched ==
  \A s \in Stocks :
    updates[s] = <<>> /\ \A w \in Writers : phase[w][s] = "idle"

DataInv == DataShape /\ HeldInv /\ CarriedInv

UntouchedInv == main \in {"starting", "subscribing"} => Untouched

LEMMA NewMarketDataType ==
  ASSUME NEW price \in Nat
  PROVE  NewMarketData(price) \in Market
BY DEF NewMarketData, Market

LEMMA GetOrCreateType ==
  ASSUME NEW m \in [Stocks -> Market \cup {Nil}], NEW s \in Stocks,
         NEW price \in Prices
  PROVE  /\ GetOrCreate(m, s, price) \in [Stocks -> Market \cup {Nil}]
         /\ GetOrCreate(m, s, price)[s] \in Market
BY NewMarketDataType, FeedInputs DEF GetOrCreate

LEMMA UpdatePriceType ==
  ASSUME NEW md \in Market, NEW price \in Prices, NEW volume \in Volumes
  PROVE  UpdatePrice(md, price, volume) \in Market
BY FeedInputs DEF UpdatePrice, Market

LEMMA DataInit == Init => DataInv /\ UntouchedInv
BY DEF Init, DataInv, DataShape, HeldInv, CarriedInv, UntouchedInv, Untouched,
       Writers, Phases

LEMMA UpdateData ==
  ASSUME DataInv, NEW w \in Writers, NEW s \in Stocks,
         NEW price \in Prices, NEW volume \in Volumes,
         Update(w, s, price, volume)
  PROVE  DataInv'
<1> DEFINE md  == UpdatePrice(GetOrCreate(market, s, price)[s], price, volume)
           one == [price |-> price, volume |-> volume]
<1>1. md \in Market
  BY GetOrCreateType, UpdatePriceType DEF DataInv, DataShape
<1>2. /\ market' = [market EXCEPT ![s] = md]
      /\ initial' = IF market[s] = Nil THEN [initial EXCEPT ![s] = price]
                    ELSE initial
      /\ updates' = [updates EXCEPT ![s] = Append(@, one)]
      /\ phase' = [phase EXCEPT ![w][s] = "updated"]
      /\ UNCHANGED <<ticker, announced>>
  BY Zenon DEF Update
<1> HIDE DEF md
<1>3. DataShape'
  <2>1. Append(updates[s], one) \in Seq([price : Prices, volume : Volumes])
    <3>1. /\ updates[s] \in Seq([price : Prices, volume : Volumes])
          /\ one \in [price : Prices, volume : Volumes]
      BY DEF DataInv, DataShape
    <3> HIDE DEF one
    <3>. QED
      BY <3>1, AppendProperties
  <2>2. updates' \in [Stocks -> Seq([price : Prices, volume : Volumes])]
    BY <1>2, <2>1 DEF DataInv, DataShape
  <2>3. /\ market' \in [Stocks -> Market \cup {Nil}]
        /\ initial' \in [Stocks -> Prices \cup {0}]
    BY <1>1, <1>2 DEF DataInv, DataShape
  <2>4. phase' \in [Writers -> [Stocks -> Phases]]
    BY <1>2 DEF DataInv, DataShape, Phases
  <2>. QED
    BY <1>2, <2>2, <2>3, <2>4 DEF DataInv, DataShape
<1>4. HeldInv'
  BY <1>1, <1>2 DEF DataInv, DataShape, HeldInv
<1>5. CarriedInv'
  <2>1. market'[s] \in Market /\ phase'[w][s] = "updated"
    BY <1>1, <1>2 DEF DataInv, DataShape
  <2>2. ASSUME NEW t \in Stocks, t # s
        PROVE  /\ market'[t] = market[t] /\ updates'[t] = updates[t]
               /\ \A v \in Writers : phase'[v][t] = phase[v][t]
    BY <1>2, <2>2 DEF DataInv, DataShape
  <2>. QED
    BY <1>2, <2>1, <2>2 DEF DataInv, CarriedInv, OnItsWay
<1>. QED
  BY <1>3, <1>4, <1>5 DEF DataInv

LEMMA GetTickerData ==
  ASSUME DataInv, NEW w \in Writers, NEW s \in Stocks, GetTicker(w, s)
  PROVE  DataInv'
<1>1. DataShape'
  BY DEF GetTicker, DataInv, DataShape, Phases
<1>2. HeldInv'
  BY DEF GetTicker, DataInv, DataShape, HeldInv
<1>3. CarriedInv'
  BY DEF GetTicker, DataInv, DataShape, CarriedInv, OnItsWay
<1>. QED
  BY <1>1, <1>2, <1>3 DEF DataInv

LEMMA EmitData ==
  ASSUME DataInv, NEW w \in Writers, NEW s \in Stocks, Emit(w, s)
  PROVE  DataInv'
<1>1. DataShape'
  BY DEF Emit, DataInv, DataShape, HeldInv, Phases
<1>2. HeldInv'
  BY DEF Emit, DataInv, DataShape, HeldInv
<1>3. CarriedInv'
  <2>1. ASSUME NEW t \in Stocks, OnItsWay(t)
        PROVE  OnItsWay(t)'
    <3>1. CASE market[t] \in announced[t]
      BY <3>1 DEF Emit, DataInv, DataShape, OnItsWay
    <3>2. ASSUME NEW v \in Writers,
                 \/ phase[v][t] = "updated"
                 \/ phase[v][t] = "holding" /\ ticker[v][t] = market[t]
          PROVE  OnItsWay(t)'
      <4>1. CASE v = w /\ t = s
        <5>1. ticker[w][s] = market[s] /\ market' = market
          BY <3>2, <4>1 DEF Emit
        <5>2. ticker[w][s] \in announced'[s]
          BY DEF Emit, DataInv, DataShape
        <5>. QED
          BY <4>1, <5>1, <5>2 DEF OnItsWay
      <4>2. CASE v # w \/ t # s
        <5>1. phase'[v][t] = phase[v][t]
          BY <4>2 DEF Emit, DataInv, DataShape
        <5>. QED
          BY <3>2, <5>1 DEF Emit, OnItsWay
      <4>. QED
        BY <4>1, <4>2
    <3>. QED
      BY <2>1, <3>1, <3>2 DEF OnItsWay
  <2>. QED
    BY <2>1 DEF Emit, DataInv, CarriedInv
<1>. QED
  BY <1>1, <1>2, <1>3 DEF DataInv

LEMMA CreateData ==
  ASSUME DataInv, Untouched, NEW prices \in [FeedStocks -> Prices \cup {0}],
         Create(prices)
  PROVE  DataInv' /\ Untouched'
<1>1. \A s \in FeedStocks : NewMarketData(prices[s]) \in Market
  BY NewMarketDataType, FeedInputs
<1>2. DataShape'
  BY <1>1 DEF Create, DataInv, DataShape
<1>. QED
  BY <1>2 DEF Create, Untouched, DataInv, HeldInv, CarriedInv

LEMMA PlaceOrderData ==
  ASSUME DataInv, NEW s \in Stocks, PlaceOrder(s)
  PROVE  DataInv'
<1>1. PICK price \in Prices :
        /\ market' = GetOrCreate(market, s, price)
        /\ initial' = [initial EXCEPT ![s] = price]
  BY DEF PlaceOrder
<1>2. market[s] = Nil /\ UNCHANGED <<phase, ticker, updates, announced>>
  BY DEF PlaceOrder
<1>3. DataShape'
  BY <1>1, <1>2, GetOrCreateType DEF DataInv, DataShape
<1>4. \A t \in Stocks : t # s => market'[t] = market[t]
  BY <1>1 DEF GetOrCreate, DataInv, DataShape
<1>5. market[s] \notin Market
  BY <1>2, NilIsNoMarketData
<1>. QED
  BY <1>2, <1>3, <1>4, <1>5 DEF DataInv, HeldInv, CarriedInv, OnItsWay

LEMMA DataStep ==
  ASSUME Inv, DataInv, UntouchedInv, [Next]_vars
  PROVE  DataInv' /\ UntouchedInv'
<1>1. ASSUME UNCHANGED <<main, data>>
      PROVE  DataInv' /\ UntouchedInv'
  BY <1>1 DEF data, DataInv, DataShape, HeldInv, CarriedInv, OnItsWay,
              UntouchedInv, Untouched
<1>2. CASE Start
  <2>1. Untouched
    BY <1>2 DEF Start, UseSimulator, DialFirst, FallBack, StartFeed,
                UntouchedInv
  <2>2. CASE DialFirst
    BY <2>1, <2>2 DEF DialFirst, data, DataInv, DataShape, HeldInv,
                      CarriedInv, OnItsWay, UntouchedInv, Untouched
  <2>3. CASE UseSimulator \/ FallBack \/ StartFeed
    <3>1. \E prices \in [FeedStocks -> Prices \cup {0}] : Create(prices)
      <4>1. CASE UseSimulator \/ FallBack
        BY <4>1 DEF UseSimulator, FallBack, StartSimulator
      <4>2. CASE StartFeed
        BY <4>2 DEF StartFeed
      <4>. QED
        BY <2>3, <4>1, <4>2
    <3>. QED
      BY <2>1, <3>1, CreateData DEF UntouchedInv
  <2>. QED
    BY <1>2, <2>2, <2>3 DEF Start
<1>3. CASE Main
  <2>1. main' \notin {"starting", "subscribing"} /\ UNCHANGED data
    BY <1>3 DEF Main, Signal, Stop, CloseConnection, StopReturns
  <2>. QED
    BY <2>1 DEF data, DataInv, DataShape, HeldInv, CarriedInv, OnItsWay,
                UntouchedInv
<1>4. CASE Reads \/ Network
  BY <1>1, <1>4 DEF Reads, ReadLoop, ReceiveMessage, LoopTop, EndMessage,
              ReadError, DoneWhilePausing, PauseOver, DialFails, DialAgain,
              SubscribeFails, Reconnected, MoveReader, Network,
              LoseConnection
<1>5. CASE Requests
  <2>1. PICK s \in Stocks : PlaceOrder(s) \/ Trade(s) \/ EndTrade(s)
    BY <1>5 DEF Requests
  <2>2. UNCHANGED main
    BY <2>1 DEF PlaceOrder, Trade, EndTrade
  <2>3. CASE PlaceOrder(s)
    BY <2>2, <2>3, PlaceOrderData DEF PlaceOrder, Serving, UntouchedInv
  <2>4. CASE Trade(s)
    <3>1. PICK price \in Prices, volume \in Volumes :
            Update("engine", s, price, volume)
      BY <2>4 DEF Trade
    <3>2. DataInv'
      BY <3>1, UpdateData DEF Writers
    <3>. QED
      BY <2>2, <2>4, <3>2 DEF Trade, Serving, UntouchedInv
  <2>5. CASE EndTrade(s)
    <3>1. DataInv'
      BY <2>5, EmitData DEF EndTrade, Writers
    <3>2. ~Untouched
      BY <2>5 DEF EndTrade, Emit, Untouched, Writers
    <3>. QED
      BY <2>2, <3>1, <3>2 DEF UntouchedInv
  <2>. QED
    BY <2>1, <2>3, <2>4, <2>5
<1>6. CASE Items
  <2>1. PICK s \in FeedStocks : HandleItem(s) \/ EndItem(s)
    BY <1>6 DEF Items
  <2>2. s \in Stocks /\ "feeder" \in Writers
    BY FeedInputs DEF Writers
  <2>3. main' \notin {"starting", "subscribing"}
    BY <2>1 DEF HandleItem, EndItem, MoveReader, Inv, StartInv
  <2>4. CASE HandleItem(s)
    <3>1. PICK price \in Prices, volume \in Volumes :
            Update("feeder", s, price, volume)
      BY <2>4 DEF HandleItem
    <3>. QED
      BY <2>2, <2>3, <3>1, UpdateData DEF UntouchedInv
  <2>5. CASE EndItem(s)
    BY <2>2, <2>3, <2>5, EmitData DEF EndItem, UntouchedInv
  <2>. QED
    BY <2>1, <2>4, <2>5
<1>7. CASE Ticks
  <2>1. PICK s \in FeedStocks : Tick(s) \/ EndTick(s) \/ EndSimulation(s)
    BY <1>7 DEF Ticks
  <2>2. s \in Stocks /\ "feeder" \in Writers
    BY FeedInputs DEF Writers
  <2>3. main' \notin {"starting", "subscribing"}
    BY <2>1 DEF Tick, EndTick, EndSimulation, Inv, StartInv
  <2>4. CASE Tick(s)
    <3>1. PICK price \in Prices, volume \in Volumes :
            Update("feeder", s, price, volume)
      BY <2>4 DEF Tick
    <3>. QED
      BY <2>2, <2>3, <3>1, UpdateData DEF UntouchedInv
  <2>5. CASE EndTick(s)
    BY <2>2, <2>3, <2>5, EmitData DEF EndTick, UntouchedInv
  <2>6. CASE EndSimulation(s)
    BY <1>1, <2>6 DEF EndSimulation
  <2>. QED
    BY <2>1, <2>4, <2>5, <2>6
<1>8. CASE Tickers
  <2>1. PICK s \in Stocks, w \in Writers : GetTicker(w, s)
    BY <1>8 DEF Tickers, Announce
  <2>2. UNCHANGED main
    BY <1>8 DEF Tickers, Announce
  <2>3. ~Untouched
    BY <2>1 DEF GetTicker, Untouched
  <2>. QED
    BY <2>1, <2>2, <2>3, GetTickerData DEF UntouchedInv
<1>. QED
  BY <1>1, <1>2, <1>3, <1>4, <1>5, <1>6, <1>7, <1>8, NextCases
     DEF vars, data

\* Who writes the market data, and what they have announced of it.
THEOREM DataInvariance == Spec => [](DataInv /\ UntouchedInv)
<1>1. Inv /\ DataInv /\ UntouchedInv /\ [Next]_vars => DataInv' /\ UntouchedInv'
  BY DataStep
<1>. QED
  BY <1>1, DataInit, FeederInvariance, PTL DEF Spec

\* Engine and feeder may announce their tickers in the wrong order, but when
\* neither is in an update of a stock, its current ticker has been announced.
THEOREM CurrentTickerAnnounced == Spec => []TickerAnnounced
<1>1. DataInv => TickerAnnounced
  BY DEF DataInv, CarriedInv, OnItsWay, TickerAnnounced
<1>. QED
  BY <1>1, DataInvariance, PTL

-----------------------------------------------------------------------------
(* The rest of the type invariant: main, the goroutines, the connections.  *)

Connections == {"open", "lost", "closed"}

FeedShape ==
  /\ main \in {"starting", "subscribing", "serving", "stopping", "waiting",
               "stopped"}
  /\ feeder \in {Nil, "simulator", "feed"}
  /\ done \in BOOLEAN
  /\ reader \in {"none", "top", "reading", "handling", "pausing", "dialing",
                 "subscribing", "ended"}
  /\ conns \in Seq(Connections) /\ conn \in 0 .. Len(conns)

LEMMA ConnectionSteps ==
  ASSUME FeedShape, NEW c \in Connections
  PROVE  /\ Append(conns, c) \in Seq(Connections)
         /\ Len(Append(conns, c)) = Len(conns) + 1
         /\ \A i : /\ [conns EXCEPT ![i] = c] \in Seq(Connections)
                   /\ Len([conns EXCEPT ![i] = c]) = Len(conns)
<1>1. conns \in Seq(Connections)
  BY DEF FeedShape
<1>2. /\ Append(conns, c) \in Seq(Connections)
      /\ Len(Append(conns, c)) = Len(conns) + 1
  BY <1>1, AppendProperties
<1>3. ASSUME NEW i
      PROVE  /\ [conns EXCEPT ![i] = c] \in Seq(Connections)
             /\ Len([conns EXCEPT ![i] = c]) = Len(conns)
  <2>1. CASE i \in 1 .. Len(conns)
    BY <1>1, <2>1, ExceptSeq
  <2>2. CASE i \notin 1 .. Len(conns)
    <3>1. [conns EXCEPT ![i] = c] = conns
      BY <1>1, <2>2
    <3>. QED
      BY <1>1, <3>1
  <2>. QED
    BY <2>1, <2>2
<1>. QED
  BY <1>2, <1>3

LEMMA FeedShapeInit == Init => FeedShape
<1> SUFFICES ASSUME Init PROVE FeedShape
  OBVIOUS
<1>1. conns \in Seq(Connections) /\ conn \in 0 .. Len(conns)
  <2>1. conns = <<>> /\ conn = 0
    BY DEF Init
  <2>2. <<>> \in Seq(Connections) /\ Len(<<>>) = 0
    BY EmptySeq
  <2>. QED
    BY <2>1, <2>2
<1>2. done \in BOOLEAN
  BY DEF Init
<1>. QED
  BY <1>1, <1>2 DEF Init, FeedShape

LEMMA FeedShapeStep == FeedShape /\ [Next]_vars => FeedShape'
<1> SUFFICES ASSUME FeedShape, [Next]_vars PROVE FeedShape'
  OBVIOUS
<1> USE DEF FeedShape
<1>1. \A c \in Connections : \A i :
        /\ Append(conns, c) \in Seq(Connections)
        /\ Len(Append(conns, c)) = Len(conns) + 1
        /\ [conns EXCEPT ![i] = c] \in Seq(Connections)
        /\ Len([conns EXCEPT ![i] = c]) = Len(conns)
  BY ConnectionSteps
<1>2. Len(conns) \in Nat
  OBVIOUS
<1>3. CASE Start
  <2>1. CASE UseSimulator
    BY <2>1 DEF UseSimulator, StartSimulator
  <2>2. CASE DialFirst
    BY <1>1, <1>2, <2>2 DEF DialFirst, Connections
  <2>3. CASE FallBack
    BY <1>1, <1>2, <2>3 DEF FallBack, StartSimulator, Connections
  <2>4. CASE StartFeed
    BY <2>4 DEF StartFeed
  <2>. QED
    BY <1>3, <2>1, <2>2, <2>3, <2>4 DEF Start
<1>4. CASE Main
  <2>1. CASE Signal \/ StopReturns
    BY <2>1 DEF Signal, StopReturns, feed
  <2>2. CASE CloseConnection
    BY <1>1, <1>2, <2>2 DEF CloseConnection, Connections
  <2>. QED
    BY <1>4, <2>1, <2>2 DEF Main, Stop
<1>5. CASE Requests \/ Ticks \/ Tickers
  BY <1>5 DEF Requests, PlaceOrder, Trade, EndTrade, Ticks, Tick, EndTick,
              EndSimulation, Tickers, Announce, feed
<1>6. CASE Items
  BY <1>6 DEF Items, HandleItem, EndItem, MoveReader
<1>7. CASE Reads
  <2>1. CASE DialAgain
    BY <1>1, <1>2, <2>1 DEF DialAgain, MoveReader, Connections
  <2>2. CASE SubscribeFails
    BY <1>1, <1>2, <2>2 DEF SubscribeFails, MoveReader, Connections
  <2>3. CASE Reconnected
    BY <1>2, <2>3 DEF Reconnected, MoveReader
  <2>4. CASE LoopTop \/ EndMessage \/ ReadError \/ DoneWhilePausing
             \/ PauseOver \/ DialFails \/ ReceiveMessage
    BY <2>4 DEF LoopTop, EndMessage, ReadError, DoneWhilePausing, PauseOver,
                DialFails, ReceiveMessage, MoveReader
  <2>. QED
    BY <1>7, <2>1, <2>2, <2>3, <2>4 DEF Reads, ReadLoop
<1>8. CASE Network
  BY <1>1, <1>2, <1>8 DEF Network, LoseConnection, Connections
<1>9. CASE UNCHANGED vars
  BY <1>9 DEF vars, feed
<1>. QED
  BY <1>3, <1>4, <1>5, <1>6, <1>7, <1>8, <1>9, NextCases

\* Every reachable state of the price feed has the declared shape.
THEOREM TypeCorrect == Spec => []TypeOK
<1>1. FeedShape /\ Inv /\ DataInv => TypeOK
  BY DEF FeedShape, Inv, ShapeInv, Places, DataInv, DataShape, Phases,
         Connections, TypeOK
<1>2. Spec => []FeedShape
  BY FeedShapeInit, FeedShapeStep, PTL DEF Spec
<1>. QED
  BY <1>1, <1>2, FeederInvariance, DataInvariance, PTL

-----------------------------------------------------------------------------
(* The ticker of a stock adds up its updates.                              *)

PriceUpdate == [price : Prices, volume : Volumes]

\* The price that counts as the open price of an entry.
First(init, u) == IF init = 0 THEN u[1].price ELSE init

PricesOf(u) == {u[i].price : i \in 1 .. Len(u)}

VolumeOf(u) == SumFunction([i \in 1 .. Len(u) |-> u[i].volume])

\* md is what the updates u make of an entry that was created with init.
SumsUp(md, init, u) ==
  /\ md.open = First(init, u)
  /\ md.last = u[Len(u)].price
  /\ md.prev = IF Len(u) = 1 THEN First(init, u) ELSE u[Len(u) - 1].price
  /\ md.high \in PricesOf(u) \cup {First(init, u)}
  /\ \A p \in PricesOf(u) \cup {First(init, u)} : md.high >= p
  /\ md.low \in PricesOf(u)
  /\ \A p \in PricesOf(u) : md.low <= p
  /\ md.volume = VolumeOf(u)

\* An entry without updates is as it was created.
SumsInv ==
  \A s \in Stocks :
    IF updates[s] = <<>> THEN market[s] \in {Nil, NewMarketData(initial[s])}
                         ELSE SumsUp(market[s], initial[s], updates[s])

\* Prices are positive, volumes may be 0.
LEMMA UpdateType ==
  /\ \A one \in PriceUpdate : one.price \in Nat \ {0} /\ one.volume \in Nat
  /\ \A u \in Seq(PriceUpdate) : \A i \in 1 .. Len(u) :
       u[i] \in PriceUpdate /\ u[i].price \in Nat \ {0} /\ u[i].volume \in Nat
<1>1. \A one \in PriceUpdate : one.price \in Nat \ {0} /\ one.volume \in Nat
  BY FeedInputs DEF PriceUpdate
<1>2. \A u \in Seq(PriceUpdate) : \A i \in 1 .. Len(u) : u[i] \in PriceUpdate
  BY ElementOfSeq
<1>. QED
  BY <1>1, <1>2

\* The volumes of a longer sequence add up to one volume more.
LEMMA VolumeAppend ==
  ASSUME NEW u \in Seq(PriceUpdate), NEW one \in PriceUpdate
  PROVE  VolumeOf(Append(u, one)) = VolumeOf(u) + one.volume
<1> DEFINE n == Len(u)
           f == [i \in 1 .. n |-> u[i].volume]
           g == [i \in 1 .. n + 1 |-> Append(u, one)[i].volume]
<1>1. n \in Nat /\ Len(Append(u, one)) = n + 1
      /\ \A i \in 1 .. n : Append(u, one)[i] = u[i]
      /\ Append(u, one)[n + 1] = one
  BY AppendProperties, LenProperties
<1>2. one.volume \in Int /\ \A i \in 1 .. n : u[i].volume \in Int
  BY UpdateType
<1>3. /\ \A i \in 1 .. n : f[i] = g[i]
      /\ \A i \in (1 .. n) \cup {n + 1} : g[i] \in Int
      /\ g[n + 1] = one.volume
  BY <1>1, <1>2
<1>4. VolumeOf(u) = SumFunctionOnSet(f, 1 .. n)
  BY DEF VolumeOf, SumFunction
<1>5. VolumeOf(Append(u, one)) = SumFunctionOnSet(g, 1 .. n + 1)
  BY <1>1 DEF VolumeOf, SumFunction
<1>6. 1 .. n + 1 = (1 .. n) \cup {n + 1} /\ n + 1 \notin 1 .. n
  BY <1>1
<1>7. IsFiniteSet(1 .. n)
  BY <1>1, FS_Interval
<1> HIDE DEF f, g, n
<1>8. SumFunctionOnSet(g, (1 .. n) \cup {n + 1})
        = g[n + 1] + SumFunctionOnSet(g, 1 .. n)
  BY <1>3, <1>6, <1>7, SumAddElement
<1>9. SumFunctionOnSet(g, 1 .. n) = SumFunctionOnSet(f, 1 .. n)
  BY <1>3, <1>7, SumSame
<1>10. SumFunctionOnSet(f, 1 .. n) \in Int
  <2>1. \A i \in 1 .. n : f[i] \in Int
    BY <1>3
  <2>. QED
    BY <1>7, <2>1, SumInt
<1>. QED
  <2>1. VolumeOf(Append(u, one)) = SumFunctionOnSet(g, (1 .. n) \cup {n + 1})
    BY <1>5, <1>6
  <2>. QED
    BY <1>2, <1>3, <1>4, <1>8, <1>9, <1>10, <2>1

LEMMA VolumeType ==
  ASSUME NEW u \in Seq(PriceUpdate)
  PROVE  VolumeOf(u) \in Nat
<1> DEFINE f == [i \in 1 .. Len(u) |-> u[i].volume]
<1>1. IsFiniteSet(1 .. Len(u))
  BY LenProperties, FS_Interval
<1>2. \A i \in 1 .. Len(u) : f[i] \in Nat
  BY UpdateType
<1>3. VolumeOf(u) = SumFunctionOnSet(f, 1 .. Len(u))
  BY DEF VolumeOf, SumFunction
<1> HIDE DEF f
<1>. QED
  BY <1>1, <1>2, <1>3, SumNat

LEMMA VolumeEmpty == VolumeOf(<<>>) = 0
BY SumEmpty DEF VolumeOf, SumFunction

\* One more update adds its price.
LEMMA PricesAppend ==
  ASSUME NEW u \in Seq(PriceUpdate), NEW one \in PriceUpdate, NEW v, v = Append(u, one)
  PROVE  PricesOf(v) = PricesOf(u) \cup {one.price}
<1>1. Len(u) \in Nat /\ Len(v) = Len(u) + 1 /\ v[Len(v)] = one
      /\ \A i \in 1 .. Len(u) : v[i] = u[i]
  BY AppendProperties, LenProperties
<1>2. 1 .. Len(v) = (1 .. Len(u)) \cup {Len(v)}
  BY <1>1
<1>. QED
  BY <1>1, <1>2 DEF PricesOf

\* What one more update adds to a sequence of them.
LEMMA AppendFacts ==
  ASSUME NEW u \in Seq(PriceUpdate), NEW one \in PriceUpdate, NEW v, v = Append(u, one)
  PROVE  /\ Len(u) \in Nat /\ Len(v) = Len(u) + 1 /\ v[Len(v)] = one
         /\ \A i \in 1 .. Len(u) : v[i] = u[i]
         /\ PricesOf(v) = PricesOf(u) \cup {one.price}
         /\ PricesOf(u) \subseteq Nat \ {0} /\ one.price \in Nat \ {0}
         /\ v # <<>>
<1>1. Len(u) \in Nat /\ Len(v) = Len(u) + 1 /\ v[Len(v)] = one
      /\ \A i \in 1 .. Len(u) : v[i] = u[i]
  BY AppendProperties, LenProperties
<1>2. PricesOf(v) = PricesOf(u) \cup {one.price}
  BY PricesAppend
<1>3. PricesOf(u) \subseteq Nat \ {0} /\ one.price \in Nat \ {0}
  BY UpdateType DEF PricesOf
<1>4. v # <<>>
  BY <1>1
<1>. QED
  BY <1>1, <1>2, <1>3, <1>4

\* The first update of an entry, created with a price or without.
LEMMA FirstUpdate ==
  ASSUME NEW init \in Prices \cup {0}, NEW price \in Prices,
         NEW volume \in Volumes, NEW one \in PriceUpdate,
         one.price = price, one.volume = volume,
         NEW u \in Seq(PriceUpdate), u = <<>>, NEW v, v = Append(u, one),
         NEW md, md = UpdatePrice(NewMarketData(init), price, volume)
  PROVE  SumsUp(md, init, v)
<1>1. Len(u) = 0 /\ PricesOf(u) = {} /\ VolumeOf(u) = 0
  BY EmptySeq, VolumeEmpty DEF PricesOf
<1>2. Len(v) = 1 /\ v[1] = one /\ PricesOf(v) = {price} /\ VolumeOf(v) = volume
  <2>1. Len(v) = Len(u) + 1 /\ v[Len(v)] = one
    BY AppendFacts
  <2>2. PricesOf(v) = PricesOf(u) \cup {one.price}
    BY PricesAppend
  <2>3. volume \in Nat
    BY FeedInputs
  <2>4. VolumeOf(v) = VolumeOf(u) + volume
    BY VolumeAppend
  <2>. QED
    BY <1>1, <2>1, <2>2, <2>3, <2>4
<1>3. /\ md.open = IF init = 0 THEN price ELSE init
      /\ md.prev = md.open
      /\ md.last = price /\ md.low = price /\ md.volume = volume
      /\ md.high = IF price > init THEN price ELSE init
  BY FeedInputs DEF UpdatePrice, NewMarketData
<1>4. price \in Nat \ {0} /\ init \in Nat
  BY FeedInputs
<1>. QED
  BY <1>2, <1>3, <1>4 DEF SumsUp, First

\* Every later one.
LEMMA NextUpdate ==
  ASSUME NEW init \in Prices \cup {0}, NEW price \in Prices,
         NEW volume \in Volumes, NEW one \in PriceUpdate, NEW md \in Market,
         one.price = price, one.volume = volume,
         NEW u \in Seq(PriceUpdate), u # <<>>, SumsUp(md, init, u),
         NEW v, v = Append(u, one), NEW new, new = UpdatePrice(md, price, volume)
  PROVE  SumsUp(new, init, v)
<1>1. /\ Len(u) \in Nat \ {0} /\ Len(v) = Len(u) + 1
      /\ v[Len(v)] = one /\ v[1] = u[1] /\ v[Len(u)] = u[Len(u)]
      /\ PricesOf(v) = PricesOf(u) \cup {price}
      /\ VolumeOf(v) = VolumeOf(u) + volume
      /\ PricesOf(u) \subseteq Nat \ {0} /\ price \in Nat \ {0}
  <2>1. Len(u) \in Nat \ {0}
    BY EmptySeq
  <2>2. 1 \in 1 .. Len(u) /\ Len(u) \in 1 .. Len(u)
    BY <2>1
  <2>3. Len(v) = Len(u) + 1 /\ v[Len(v)] = one
    BY AppendFacts
  <2>4. \A i \in 1 .. Len(u) : v[i] = u[i]
    BY AppendFacts
  <2>5. PricesOf(v) = PricesOf(u) \cup {one.price}
    BY AppendFacts
  <2>6. PricesOf(u) \subseteq Nat \ {0} /\ one.price \in Nat \ {0}
    BY AppendFacts
  <2>7. VolumeOf(v) = VolumeOf(u) + volume
    BY VolumeAppend
  <2>. QED
    BY <2>1, <2>2, <2>3, <2>4, <2>5, <2>6, <2>7
<1>2. First(init, v) = First(init, u) /\ First(init, u) \in Nat \ {0}
  <2>1. u[1].price \in PricesOf(u)
    BY <1>1 DEF PricesOf
  <2>. QED
    BY <1>1, <2>1, FeedInputs DEF First
<1>3. md.open # 0 /\ md.low # 0 /\ md.low \in Nat /\ md.high \in Nat
      /\ md.volume \in Nat
  BY <1>1, <1>2 DEF SumsUp, Market
<1>4. /\ new.open = md.open /\ new.prev = md.last /\ new.last = price
      /\ new.high = IF price > md.high THEN price ELSE md.high
      /\ new.low = IF price < md.low THEN price ELSE md.low
      /\ new.volume = md.volume + volume
  BY <1>3 DEF UpdatePrice
<1>5. /\ new.high \in PricesOf(v) \cup {First(init, v)}
      /\ \A p \in PricesOf(v) \cup {First(init, v)} : new.high >= p
  <2> DEFINE S == PricesOf(u) \cup {First(init, u)}
  <2>1. md.high \in S /\ (\A p \in S : md.high >= p) /\ S \subseteq Nat
    BY <1>1, <1>2 DEF SumsUp
  <2>2. PricesOf(v) \cup {First(init, v)} = S \cup {price}
    BY <1>1, <1>2
  <2> HIDE DEF S
  <2>3. price \in Nat
    BY <1>1
  <2>4. new.high \in S \cup {price} /\ new.high >= price
    BY <1>3, <1>4, <2>1, <2>3
  <2>5. \A p \in S : new.high >= p
    BY <1>3, <1>4, <2>1, <2>3
  <2>. QED
    BY <2>2, <2>4, <2>5
<1>6. new.low \in PricesOf(v) /\ \A p \in PricesOf(v) : new.low <= p
  <2>1. md.low \in PricesOf(u) /\ \A p \in PricesOf(u) : md.low <= p
    BY DEF SumsUp
  <2>2. new.low \in PricesOf(u) \cup {price} /\ new.low <= price
    BY <1>1, <1>3, <1>4, <2>1
  <2>3. \A p \in PricesOf(u) : new.low <= p
    BY <1>1, <1>3, <1>4, <2>1
  <2>. QED
    BY <1>1, <2>2, <2>3
<1>7. /\ new.open = First(init, v) /\ new.last = v[Len(v)].price
      /\ new.prev = IF Len(v) = 1 THEN First(init, v) ELSE v[Len(v) - 1].price
      /\ new.volume = VolumeOf(v)
  BY <1>1, <1>2, <1>4 DEF SumsUp
<1>. QED
  BY <1>5, <1>6, <1>7 DEF SumsUp

LEMMA SumsInit == Init => SumsInv
BY DEF Init, SumsInv

LEMMA SumsSame ==
  ASSUME SumsInv, UNCHANGED <<market, initial, updates>>
  PROVE  SumsInv'
BY DEF SumsInv

\* UpdatePrice on an entry, on a created one or on none.
LEMMA SumsUpdate ==
  ASSUME DataInv, SumsInv, NEW w \in Writers, NEW s \in Stocks,
         NEW price \in Prices, NEW volume \in Volumes,
         Update(w, s, price, volume)
  PROVE  SumsInv'
<1>1. PICK one, u, init, md :
        /\ one = [price |-> price, volume |-> volume]
        /\ u = updates[s]
        /\ init = IF market[s] = Nil THEN price ELSE initial[s]
        /\ md = GetOrCreate(market, s, price)[s]
  OBVIOUS
<1>2. DataShape
  BY DEF DataInv
<1>3. /\ market' = [market EXCEPT ![s] = UpdatePrice(md, price, volume)]
      /\ initial' = IF market[s] = Nil THEN [initial EXCEPT ![s] = price]
                    ELSE initial
      /\ updates' = [updates EXCEPT ![s] = Append(u, one)]
  BY <1>1, Zenon DEF Update
<1>4. /\ u \in Seq(PriceUpdate) /\ one \in PriceUpdate
      /\ one.price = price /\ one.volume = volume
  BY <1>1, <1>2 DEF DataShape, PriceUpdate
<1>5. init \in Prices \cup {0} /\ initial'[s] = init
  BY <1>1, <1>2, <1>3 DEF DataShape
<1>6. md = IF market[s] = Nil THEN NewMarketData(price) ELSE market[s]
  BY <1>1, <1>2 DEF GetOrCreate, DataShape
<1>7. /\ market'[s] = UpdatePrice(md, price, volume)
      /\ updates'[s] = Append(u, one)
  BY <1>2, <1>3 DEF DataShape
<1>8. SumsUp(market'[s], initial'[s], updates'[s])
  <2>1. CASE u = <<>>
    <3>1. md = NewMarketData(init)
      BY <1>1, <1>6, <2>1 DEF SumsInv
    <3>. QED
      BY <1>4, <1>5, <1>7, <2>1, <3>1, FirstUpdate
  <2>2. CASE u # <<>>
    <3>1. market[s] \in Market /\ SumsUp(market[s], initial[s], u)
      BY <1>1, <2>2 DEF SumsInv, DataInv, CarriedInv
    <3>2. md = market[s] /\ init = initial[s]
      BY <1>1, <1>6, <3>1, NilIsNoMarketData
    <3>. QED
      BY <1>4, <1>5, <1>7, <2>2, <3>1, <3>2, NextUpdate
  <2>. QED
    BY <2>1, <2>2
<1>9. updates'[s] # <<>>
  BY <1>4, <1>7, AppendFacts
<1>10. ASSUME NEW t \in Stocks, t # s
       PROVE  /\ market'[t] = market[t] /\ updates'[t] = updates[t]
              /\ initial'[t] = initial[t]
  BY <1>2, <1>3, <1>10 DEF DataShape
<1>. QED
  BY <1>8, <1>9, <1>10 DEF SumsInv

\* The feeder creates its entries before anybody updates one.
LEMMA SumsCreate ==
  ASSUME DataInv, SumsInv, Untouched,
         NEW prices \in [FeedStocks -> Prices \cup {0}], Create(prices)
  PROVE  SumsInv'
<1> SUFFICES ASSUME NEW s \in Stocks
             PROVE  market'[s] \in {Nil, NewMarketData(initial'[s])}
                    /\ updates'[s] = <<>>
  BY DEF SumsInv
<1>1. updates'[s] = <<>> /\ updates[s] = <<>>
  BY DEF Create, Untouched
<1>2. CASE s \in FeedStocks
  <2>1. market'[s] = NewMarketData(prices[s]) /\ initial'[s] = prices[s]
    BY <1>2 DEF Create
  <2>. QED
    BY <1>1, <2>1
<1>3. CASE s \notin FeedStocks
  <2>1. market'[s] = market[s] /\ initial'[s] = initial[s]
    BY <1>3 DEF Create
  <2>. QED
    BY <1>1, <2>1 DEF SumsInv
<1>. QED
  BY <1>2, <1>3

\* An order creates an entry that nobody has updated.
LEMMA SumsPlaceOrder ==
  ASSUME DataInv, SumsInv, NEW s \in Stocks, PlaceOrder(s)
  PROVE  SumsInv'
<1>1. PICK price \in Prices :
        /\ market' = GetOrCreate(market, s, price)
        /\ initial' = [initial EXCEPT ![s] = price]
  BY DEF PlaceOrder
<1>2. market[s] = Nil /\ UNCHANGED updates
  BY DEF PlaceOrder
<1>3. updates[s] = <<>>
  BY <1>2, NilIsNoMarketData DEF DataInv, CarriedInv
<1>4. market'[s] = NewMarketData(price) /\ initial'[s] = price
  BY <1>1, <1>2 DEF GetOrCreate, DataInv, DataShape
<1>5. \A t \in Stocks : t # s => market'[t] = market[t] /\ initial'[t] = initial[t]
  BY <1>1 DEF GetOrCreate, DataInv, DataShape
<1>. QED
  BY <1>2, <1>3, <1>4, <1>5 DEF SumsInv

LEMMA SumsStep ==
  ASSUME Inv, DataInv, UntouchedInv, SumsInv, [Next]_vars
  PROVE  SumsInv'
<1>1. ASSUME UNCHANGED data
      PROVE  SumsInv'
  BY <1>1, SumsSame DEF data
<1>2. ASSUME NEW w \in Writers, NEW s \in Stocks, GetTicker(w, s) \/ Emit(w, s)
      PROVE  SumsInv'
  BY <1>2, SumsSame DEF GetTicker, Emit
<1>3. \A s \in FeedStocks : s \in Stocks
  BY FeedInputs
<1>4. CASE Start
  <2>1. Untouched
    BY <1>4 DEF Start, UseSimulator, DialFirst, FallBack, StartFeed,
                UntouchedInv
  <2>2. CASE DialFirst
    BY <1>1, <2>2 DEF DialFirst
  <2>3. CASE UseSimulator \/ FallBack
    BY <2>1, <2>3, SumsCreate DEF UseSimulator, FallBack, StartSimulator
  <2>4. CASE StartFeed
    BY <2>1, <2>4, SumsCreate DEF StartFeed
  <2>. QED
    BY <1>4, <2>2, <2>3, <2>4 DEF Start
<1>5. CASE Main
  BY <1>1, <1>5 DEF Main, Signal, Stop, CloseConnection, StopReturns
<1>6. CASE Reads \/ Network
  BY <1>1, <1>6 DEF Reads, ReadLoop, ReceiveMessage, LoopTop, EndMessage,
              ReadError, DoneWhilePausing, PauseOver, DialFails, DialAgain,
              SubscribeFails, Reconnected, MoveReader, Network,
              LoseConnection
<1>7. CASE Requests
  <2>1. PICK s \in Stocks : PlaceOrder(s) \/ Trade(s) \/ EndTrade(s)
    BY <1>7 DEF Requests
  <2>2. CASE PlaceOrder(s)
    BY <2>2, SumsPlaceOrder
  <2>3. CASE Trade(s)
    BY <2>3, SumsUpdate DEF Trade, Writers
  <2>4. CASE EndTrade(s)
    BY <1>2, <2>4 DEF EndTrade, Writers
  <2>. QED
    BY <2>1, <2>2, <2>3, <2>4
<1>8. CASE Items
  <2>1. PICK s \in FeedStocks : HandleItem(s) \/ EndItem(s)
    BY <1>8 DEF Items
  <2>2. CASE HandleItem(s)
    BY <1>3, <2>2, SumsUpdate DEF HandleItem, Writers
  <2>3. CASE EndItem(s)
    BY <1>2, <1>3, <2>3 DEF EndItem, Writers
  <2>. QED
    BY <2>1, <2>2, <2>3
<1>9. CASE Ticks
  <2>1. PICK s \in FeedStocks : Tick(s) \/ EndTick(s) \/ EndSimulation(s)
    BY <1>9 DEF Ticks
  <2>2. CASE Tick(s)
    BY <1>3, <2>2, SumsUpdate DEF Tick, Writers
  <2>3. CASE EndTick(s)
    BY <1>2, <1>3, <2>3 DEF EndTick, Writers
  <2>4. CASE EndSimulation(s)
    BY <1>1, <2>4 DEF EndSimulation
  <2>. QED
    BY <2>1, <2>2, <2>3, <2>4
<1>10. CASE Tickers
  BY <1>2, <1>10 DEF Tickers, Announce
<1>. QED
  BY <1>1, <1>4, <1>5, <1>6, <1>7, <1>8, <1>9, <1>10, NextCases DEF vars

\* Every entry is its updates added up, or as it was created.
THEOREM SumsInvariance == Spec => []SumsInv
<1>1. Inv /\ DataInv /\ UntouchedInv /\ SumsInv /\ [Next]_vars => SumsInv'
  BY SumsStep
<1>. QED
  BY <1>1, SumsInit, FeederInvariance, DataInvariance, PTL DEF Spec

\* A greatest and a least member are the Max and the Min.
LEMMA MaxIs ==
  ASSUME NEW S \in SUBSET Nat, NEW m \in S, \A x \in S : m >= x
  PROVE  Max(S) = m
<1>1. Max(S) \in S /\ \A x \in S : Max(S) >= x
  BY Zenon DEF Max
<1>2. Max(S) >= m /\ m >= Max(S) /\ m \in Nat /\ Max(S) \in Nat
  BY <1>1
<1>. QED
  BY <1>2

LEMMA MinIs ==
  ASSUME NEW S \in SUBSET Nat, NEW m \in S, \A x \in S : m <= x
  PROVE  Min(S) = m
<1>1. Min(S) \in S /\ \A x \in S : Min(S) <= x
  BY Zenon DEF Min
<1>2. Min(S) <= m /\ m <= Min(S) /\ m \in Nat /\ Min(S) \in Nat
  BY <1>1
<1>. QED
  BY <1>2

\* Open, last, previous, high, low and volume of a stock are those of all its
\* updates in their order, however engine and feeder take turns, and whoever
\* created the entry and with or without a price.
THEOREM TickersAddUp == Spec => []TickerSumsUp
<1>1. DataInv /\ SumsInv => TickerSumsUp
  <2> SUFFICES ASSUME DataInv, SumsInv, NEW s \in Stocks, updates[s] # <<>>
               PROVE
         LET n      == Len(updates[s])
             prices == {updates[s][i].price : i \in 1 .. n}
             first  == IF initial[s] = 0 THEN updates[s][1].price ELSE initial[s]
             md     == market[s]
         IN  /\ md.open = first
             /\ md.last = updates[s][n].price
             /\ md.prev = IF n = 1 THEN first ELSE updates[s][n - 1].price
             /\ md.high = Max(prices \cup {first})
             /\ md.low = Min(prices)
             /\ md.volume = SumFunction([i \in 1 .. n |-> updates[s][i].volume])
    BY DEF TickerSumsUp
  <2>1. PICK u, init, md : u = updates[s] /\ init = initial[s] /\ md = market[s]
    OBVIOUS
  <2>2. SumsUp(md, init, u) /\ u \in Seq(PriceUpdate) /\ init \in Prices \cup {0}
        /\ u # <<>>
    BY <2>1 DEF SumsInv, DataInv, DataShape, PriceUpdate
  <2>3. PricesOf(u) \subseteq Nat
    BY <2>2, UpdateType DEF PricesOf
  <2>4. First(init, u) \in Nat
    <3>1. 1 \in 1 .. Len(u)
      BY <2>2, EmptySeq
    <3>. QED
      BY <2>2, <2>3, <3>1, FeedInputs DEF First, PricesOf
  <2>5. md.high = Max(PricesOf(u) \cup {First(init, u)})
    BY <2>2, <2>3, <2>4, MaxIs DEF SumsUp
  <2>6. md.low = Min(PricesOf(u))
    BY <2>2, <2>3, MinIs DEF SumsUp
  <2>. QED
    BY <2>1, <2>2, <2>5, <2>6 DEF SumsUp, First, PricesOf, VolumeOf
<1>. QED
  BY <1>1, SumsInvariance, DataInvariance, PTL
=============================================================================
