# Formal models of mini-exchange

TLA+ modules for the Go service in `src/`: an in-process stock exchange with
accounts, an order API, a matching engine per stock, optional Postgres storage,
optional Redis and NATS brokers and a WebSocket feed. TLC checks the modules on
small instances; TLAPS proves part of the results for every instance.

Contents: [1 the system](#1-the-system), [2 the modules](#2-the-modules),
[3 the runs](#3-the-runs), [4 bounds and fairness](#4-bounds-and-fairness),
[5 the proofs](#5-the-proofs), [6 where code and documentation disagree](#6-where-code-and-documentation-disagree),
[7 what is not modelled](#7-what-is-not-modelled), [8 plan](#8-plan).

## 1 The system

| part | state | operations | meets others through | what must hold |
|---|---|---|---|---|
| order handler (`delivery/http/order_handler.go`) | `orderSeq` | `CreateOrder`, `GetOrders` | calls the repositories and the engine; one goroutine per request | an accepted order is stored, matched once and answered |
| matching engine (`engine/matching_engine.go`) | a mutex per stock, `tradeSeq` | `ProcessOrder`, `GetOrderBook` | shares order objects with every request; calls `onEvent` | no quantity traded twice; oldest first; no crossing orders left behind; events tell the truth |
| orders, trades (`domain`) | quantities and status | `NewOrder`, `Fill`, snapshots | pointers shared between requests | filled + remaining = quantity |
| in-memory repositories (`repository`) | maps of pointers | `Save`, `GetOpenOrdersByStock`, ... | the same objects for everybody | the listing is FIFO |
| Postgres repositories (`infrastructure/postgres`) | two tables | the same, each a statement that can fail | a fresh copy for every query | tables agree with each other, survive a restart |
| market data (`domain/market.go`) | ticker and open price per stock | `GetOrCreate`, `UpdatePrice`, `GetTicker` | written by engine, simulator or feed | ticker follows the trades |
| router (`delivery/http/router.go`) | none | routes, logging, CORS | wraps every `ResponseWriter` before a handler gets it | a handler can do with it what it needs |
| hub, clients, pumps (`delivery/websocket`) | clients, subscriptions, three channels | register, unregister, broadcast, subscribe | goroutines and channels | order, no loss without a full buffer, no panic, no leak |
| price simulator, Finnhub feed (`simulator`) | goroutines, a connection | tick, reconnect, stop | write market data, call `onEvent` | they stop, they keep feeding |
| Redis pub/sub, NATS (`infrastructure`) | connections | publish, subscribe | between `onEvent` and the hub | every event reaches every subscribed hub, once and in order; what is lost has a cause that can be named |
| rate limiter (`middleware/rate_limiter.go`) | a token bucket per address | allow, cleanup | every HTTP request | never more than the burst plus the refill, whoever is forgotten in between |
| registration and login | users, `userSeq` | register, login | the user repository; a token names the user | unique names and IDs; whoever was accepted can log in |
| wiring (`cmd/server/main.go`) | the chosen repositories and `onEvent` | start, shutdown | everything | the shutdown ends, and closes nothing the feeder still uses |

The hard behaviour is concurrency. A request saves its order *before* it waits
for the stock's mutex, so another request may fill the order first; the order
objects are shared in memory but copied with Postgres; fills, rows, trades and
events change one after the other; every event passes two bounded channels that
drop; three goroutines per WebSocket client end each other; a broker can lose,
double or misreport an event while the server that uses it shuts down; buckets
of the rate limiter are forgotten while they are in use; ID counters start at 0
after a restart and the tables do not. The list of hazards,
each at its line and with the properties that watch it, is in `PROJECT.json`.

## 2 The modules

| module | models | built on |
|---|---|---|
| `Orders` | the order record, `Fill`, `PricesMatch`: pure operators | |
| `MarketData` | the ticker record, `UpdatePrice`, `GetOrCreate`: pure operators | |
| `MatchingEngine` | `CreateOrder` and `ProcessOrder` over the in-memory repositories, with trades, market data and events | `Orders`, `MarketData` |
| `Exchange` | the abstract exchange: an order is placed, later matched in one atomic FIFO step | `Orders` |
| `PostgresExchange` | the same handler and engine over the Postgres repositories, with failing calls and crashes | `Orders` |
| `Hub` | hub, WebSocket handler, both pumps of every client | |
| `PriceFeed` | price simulator, Finnhub feed, how `main` starts and stops them, and the engine and the order handler as further writers of the market data | `MarketData` |
| `EventBus` | `onEvent` as `main` wires it, the Redis and NATS clients with their listeners, several servers, and the shutdown | |
| `TokenBucket` | the abstract limiter: one bucket a visitor that exists for ever | |
| `RateLimiter` | the limiter with its lazily refilled buckets and the cleanup goroutine | `TokenBucket` |
| `Accounts` | registration and login over both user repositories, with restarts and failing calls | |
| `MatchingEngineProofs`, `PriceFeedProofs`, `RateLimiterProofs`, `AccountsProofs`, `PostgresExchangeProofs`, `HubProofs`, `EventBusProofs` | theorems about the module of that name | TLAPS |
| `SumFacts` | lemmas about the sums over finite sets that the properties use | TLAPS |
| `MC*` | symmetry sets and the writers' homes for TLC | |

**Matching engine.** `pc[o]` is where the goroutine of the request for order `o`
is; one action is one stretch of code that no other goroutine can look into.

| code | action |
|---|---|
| validation, ID, `GetOrCreate`, `NewOrder` | `CreateOrder` (rejected requests change nothing and are left out) |
| `orderRepo.Save` | `SaveOrder` |
| `getStockMutex`, `Lock`, `GetOpenOrdersByStock` | `StartMatching` |
| `continue` of the loop | `SkipCounter` |
| `order.Fill` / `counterOrder.Fill` | `FillIncoming` / `FillCounter` |
| trade ID, trade `Save`, `UpdatePrice`, four events | `RecordTrade` |
| end of loop, book event, `Unlock`, answer | `FinishMatching` |

The loop's position is the set `visited` of listed orders it is done with; the
next is any of the `Earliest` of the rest, because the sort by creation time is
not stable. The trade is recorded in one step, and so is the end of the loop:
the stock's mutex keeps every other writer of that stock's orders, trades and
events away. The book is built from two queries with saves possibly between
them; a save adds an order and takes nothing away, so one reading later stands
for both in what is checked here. An order the loop holds is never in its own
list, since the list has the other side. Prices are `float64` in the code; the
engine compares and copies them only, so naturals stand for them.

**Abstract exchange.** `Exchange` has what an observer may count on: the terms
of the saved orders, who had their turn, the deals. A turn must take into
account every order that had its turn before, may or may not see an order that
still waits for its own, fills as much as there is, oldest first, with at most
one order filled in part. `MatchingEngine!Atomic` maps to it: a deal appears
when the request that made it is done (`Settled`).

**Postgres.** A query makes new objects, so `order[r]` (what the handler built),
`listed[r]` (the copies it listed) and `orderRows` (the table) are three things.
Every repository call is a step, and may fail as long as `MaxFaults` allows. An
`Outcomes` record says apart whether the call took effect (`done`) and what the caller was
told (`ok`): a success took effect, an error says nothing, since the connection can be lost
after the commit. `Crash` ends every goroutine, frees the mutexes and sets the counters to 0. The two
`Fill` calls change objects that no other goroutine sees, and are one step with the first
`UpdateStatus` (`FillAndUpdate`). The clock counts from the first order. A listing that
fails leaves the request with the mutex and nothing to do but return (`"returning"`), and
it frees the mutex in `FinishMatching` like everybody else. Two variables are history.
`overwritten`: the IDs whose row was left behind the objects of its order, by an update
that had no effect, a reused order ID, or a fill while the order's own request was waiting.
`unrecorded`: the IDs of fills that no trade tells of, because the trade was not saved, had
a reused ID, or was under way in a crash. `Conservation` says that a row outside
`overwritten` adds up and never tells less than its trades, and outside both it tells
exactly as much. Market data and events are left out, and they are not as in
`MatchingEngine`: a trade that cannot be saved has neither (`matching_engine.go:114-117`),
and the updates of an order tell what the request's own object of it holds, which may be
stale. Stock codes fit their column; a longer one is a call that fails without effect.

**Hub.** In the server as it is wired no request gets past the upgrade: `router.go` hands
every handler a `statusRecorder`, which has no `Hijack`, so `Upgrade` answers 500 and the
handler returns (`UpgradeFails`, for the clients in `Wrapped`). Hub, pumps and the rest of
the handler are modelled as they behave with a writer that can be hijacked, as in a server
without that middleware; the passing runs are about those clients, and a refused one among
them changes nothing. `Run` is one goroutine: while `current` is 0 it selects between
`Register`, `Unregister` and `TakeEvent`; otherwise it walks over the clients
(`Visit`, `SendEvent`) in any order, as Go's map iteration does. The
subscription test and the send are two steps, since a `ReadPump` can change the
subscription in between. `register` and `unregister` are unbuffered, so a
rendezvous is one action. `Run` frees a place of `broadcast` when it receives an event
(`Received`), so that while one is broadcast as many as the channel holds can wait. A buffered channel is the sequence of all it was
given and the number taken out; `TrySend` is the `select` with a `default`. A
send on a closed channel is a panic, kept in `panics`: in `Run` or a `ReadPump` it
ends the process, in the handler `net/http` recovers it. The RWMutexes of hub
and client guard single reads and writes that are single steps here.

**Price feed.** `main` starts one feeder before it serves: the simulator, the Finnhub
feed, or the simulator in the feed's place when `Start` fails. `sim[s]` is where the
simulator's goroutine of a stock is, `reader` where `readLoop` is; `conns` are the
connections the feed has opened and `conn` is `FinnhubFeed.conn`. Every writer updates
an entry (`Update`), reads it again (`GetTicker`) and emits what it read (`Emit`): three
steps, between which the other writers run. The simulator's random walk is any
price. `ReceiveMessage` to `EndMessage` is one message with any number of items; items
with an unknown symbol or no price change nothing and are left out. Events end in
`announced`: what happens behind `onEvent` is not this module's subject. `PlaceOrder` and
`Trade` are the two places where a request touches the market data; they go on after
the feeder has stopped, as the HTTP server does.

**Event bus.** A server starts by connecting to Redis and NATS, each of which may be
absent, connected without a subscription (`deaf`: the error is logged or ignored) or
working. `Route` is `onEvent` as it is wired then: NATS if connected, else Redis, else
the hub. `Publish` is one call of the client and chooses an `Outcome`: how many
copies the broker got, what the caller was told, and which servers the network kept
it from. Redis may have executed a command that is reported as failed, and its client
repeats commands; NATS reports an error only when nothing was sent. A publication
that failed goes to the own hub (`Fallback`). `Take` and `Deliver` are the listener
(Redis) or the callback (NATS). Stopping goes through `main`'s calls one after the
other: `StopFeeder`, `UnsubscribeNats`, `DrainNats`, `StopListener`, `CloseRedis`,
`ShutDown`, with requests still being served beside all of them. `Drain` is asynchronous:
`DrainNats` only asks for it, `EndDrain` is the moment, if it comes before the process
ends, from which NATS refuses to publish. An event that the client has buffered and not
sent when the process ends is one of the `lost` ones of an `Outcome`, decided at the
publication; `main` waits for no flush. The closing of
the rate limiter (see `RateLimiter`) and of the database (`SaveFails` and the failing
calls of `PostgresExchange`) are not repeated here. The sets `heard`, `missed`,
`unheard` and `failed` are history: they say who should have got an event, and what
cost it. The Redis cache that `onEvent` also writes is left out: nothing reads it.

**Rate limiter.** `Allow` and one pass of `cleanup` run under the limiter's mutex and
read the clock under it: each is a step. Time is counted in ticks and tokens in parts,
so that the fractions the code keeps in a `float64` are whole; rounding is left out.
`Cost` parts make a token, `Refill` parts come in a tick. The code's numbers (capacity
100, 100 a minute, cleanup after 10 minutes) satisfy `IdleMeansFull`: who may be
forgotten would have a full bucket. `Level` is what a visitor's bucket holds now,
known or not, and maps `RateLimiter` to `TokenBucket`. `from` and `passed` are
history: the start of any window, and what it let through.

**Accounts.** A registration draws an ID (`Begin`), saves the user (`SaveInMemory`, one
step under the repository's lock, or `SaveInPostgres`, one `INSERT` with the table's
unique keys and column types), and is answered with a token (`Answer`). `SaveFails` is
a database call that fails before or after the row is in. `Unfit` are the names and
addresses that a column does not take: a name over 50 or an address over 100 characters,
or one with a NUL; the handler checks neither (`auth_handler.go:64-67`). `Restart` ends the process,
puts the ID counter back to 0 and settles anew whether Postgres or memory is used, as
`main` does when the database cannot be reached. Hashing is injective.

## 3 The runs

| run | module / cfg | question |
|---|---|---|
| `matching` | `MCMatchingEngine` | `TypeOK`; `Conservation`: filled = trades + the trade in the making; `TimePriority`; `NoCrossedBook`; `NoPhantomDepth`: the last book event never shows depth that is gone; `UpdatesCaughtUp`: the last order event carries the current quantities; `MatchesAtomically`: the engine implements `Exchange` |
| `matching_priority` | `MCMatchingPriority` | `PricePriority`: violated, see section 6 |
| `postgres` | `MCPostgresExchange` | `TypeOK`; `Conservation`: no row tells less than its trades, and the tables agree but for trades that were not saved; `ListIsCurrent`: the copies taken under the mutex stay as good as the rows; `AnsweredOnlyGrow`: the row of an answered order never loses a fill, unless its ID went to orders of two stocks; `LockMeansLoop`: whatever fails, a mutex is held by the request that is between `Lock` and return and by nobody else |
| `postgres_double_fill` | `MCPostgresDoubleFill` | `NoDoubleFill`: violated |
| `postgres_restart` | `MCPostgresRestart` | `AcceptedOrdersStored`: violated |
| `hub` | `MCHub` | `TypeOK`; for clients whose connection can be hijacked, beside one that is refused: `EventsInOrder`: and none twice; `AtMostOneStray` after an unsubscribe; `NoGaps`: a slow client costs the others nothing |
| `hub_liveness` | `MCHubLiveness` | `NoFatalPanic`; `EveryEventHandled`; `EveryClientGoes`: no goroutine and no hub entry leaks |
| `hub_welcome` | `MCHubWelcome` | `WelcomeSent`: violated as the server is wired |
| `feed` | `MCPriceFeed` | `TypeOK`; `TickerSumsUp`: the ticker is what its updates add up to; `TickerAnnounced`: the current ticker has been announced; `EveryStopReturns`; `SilentAfterStop`: no feeder outlives `Stop` |
| `event_bus` | `MCEventBus` | `TypeOK`; `EventsInOrder`: each hub gets each goroutine's events in order and once; `EventsReachHubs`: an event reaches every hub it is due to or has a named cause not to; `UnheardOnlyIf`: no event of the feeder is published by a server that has unsubscribed; `StopEnds` |
| `rate_limiter` | `MCRateLimiter` | `TypeOK`; `WithinRate`: the bound on every window; `AbsentForgotten`: nobody is remembered for ever; `IdealBucket`: the limiter implements `TokenBucket` |
| `accounts` | `MCAccounts` | `TypeOK`; `UniqueUsers`; `AcceptedCanLogIn`: who got 201 is logged in, in the same life or while the database is in use on both sides of the restarts; `TokensNameUsers`; `ConflictMeansTaken`: a 409 has one of the causes the property lists |

Every property of a passing run has a mutant in the module it is about: the
definition marked `\* Mutant:` just before the one it replaces, written like a
plausible bug (a mutex per call, a loop that breaks where it should continue, a
send that blocks, an event forgotten). With it TLC finds the property violated,
so the property does say something about that code.

Run one with `tlc -config MCHub.cfg MCHub.tla`, and the proofs with
`tlapm MatchingEngineProofs.tla` and likewise for the other proof modules.

## 4 Bounds and fairness

- `matching`: three orders, two stocks, two prices, quantities 1 and 2. Three
  orders are needed for every interesting case: two resting and one incoming
  (FIFO, partial fill, skipped price), or two incoming for one resting (double
  fill); two prices for orders that match or not; quantities 1 and 2 for full
  and partial fills on either side. Two stocks show that nothing leaks between
  them. Orders and stocks are symmetric: IDs are only tested for equality.
- `clock` grows by 0 or 1 for each order, so equal and different creation times
  both occur; it is bounded by the number of orders.
- `postgres`: `MaxFaults` = 1, a crash or a call that fails with or without effect, with three requests: two
  orders to trade and a third that comes while the fault is being carried on, or
  reuses an ID after the crash; two prices and quantities 1 and 2 as in `matching`. TLC does
  not combine a failing call with a crash; the proofs of section 5 allow any number of both.
- `hub`: `SendBuffer` = 1 and `BroadcastBuffer` = 2 in place of 256 and 1024: full
  buffers are the case to reach. `MaxEvents` = 3 gives an event before, during and
  after a full buffer; one event is broadcast and two wait. Two clients, one slow and one
  fast, and a third in `Wrapped` for the upgrade that fails. Connections fail in
  `hub_liveness` (`MaxFailures`), where one client is enough, because clients meet only
  at `Run`.
- `feed`: one stock that the feeder knows and one that only orders create; three
  updates, so that both writers are under way and one of them comes round again
  before the other has announced; two connections, one replaced by the other. One
  volume is enough, since volumes are only added. `MaxUpdates` also bounds the items of a
  message, which are finitely many in the code too.
- `event_bus`: one server with a feeder and a request, which may stop, and one that
  listens; two events, so that one can overtake the other; one fault, which may be a
  lost, doubled or misreported publication, a full channel or the shutdown's timeout.
- `rate_limiter`: a bucket of 5 parts, 2 a tick and 3 a token, so that a bucket holds
  a fraction of a token at almost every time; idle time 3 and period 2 as in
  `IdleMeansFull`; nine ticks are four cleanups, before, at and after the limit.
- `accounts`: three registrations, so that one can be refused because of a row that a
  second one left before the restart while a third comes first; a name and an address that do not
  fit; one restart and one failing call.

Deadlock is checked in every run but `event_bus` and `accounts`, whose instances stop when
no event or no registration is left. `AllAnswered`, `AllOver` and `Quiet` are self-loops
of the states in which the bounded instance is really finished.

Fairness is weak and per goroutine: the Go scheduler runs every runnable
goroutine, a `sync.Mutex` in starvation mode is handed over in arrival order,
every database call returns, and a write to a connection returns by its
deadline. `Run`'s `select` picks at random among the ready channels, which is strong
fairness of `Register` and `Unregister`. Requests, connects, disconnects,
timeouts, failures and crashes have no fairness: they need not happen. That no
request is shut out of a stock's mutex is stated as safety (`LockMeansLoop`) and holds
without any fairness.

In `PriceFeed` dialling and subscribing end one way or the other, and a simulator
goroutine that finds its timer and `done` both ready picks at random (strong fairness
of `EndSimulation`). No message, tick, trade, lost connection or signal has to come.

In `EventBus` the same holds for the Redis listener, whose `select` finds a message and
`done` both ready (strong fairness of `EndListen`), and for the feeder's goroutines
(`EndFeeding`). Fairness is asked only of servers that may stop; no event, signal or
timeout has to come.

## 5 The proofs

`MatchingEngineProofs` proves, for every set of stocks, prices, quantities and orders
(assuming only what `Orders` and `MatchingEngine` assume: positive prices and
quantities, `Nil` is no order):

- `TypeCorrect`: `Spec => []TypeOK`;
- `BookNeverCrossed`: `Spec => []NoCrossedBook`;
- `FirstComeFirstServed`: `Spec => []TimePriority`;
- `NeverOverfilled`: `Spec => []QuantityInv`, the second conjunct of `Conservation` with
  the status each quantity goes with;
- `Invariance`: `Spec => []Inv`, from which those follow;
- `LedgerBalances` and `FillsConserved`: `Spec => []Conservation`;
- `EventsInvariance`, `UpdatesNeverBehind` (`[]UpdatesCaughtUp`) and `NoPhantoms`
  (`[]NoPhantomDepth`);
- `TurnsInvariance`: `Spec => [](TradeInv /\ TurnInv)`, and from it
  `ImplementsExchange`: `Spec => MatchesAtomically`, the refinement of `Exchange`.

None of the properties is inductive alone. `Inv` adds: who is past the lock holds the
mutex (`MutexInv`), so two requests for a stock never match at once; what a listed
order is (`ListInv`) and that the listing missed nobody who is `done` or can still be
traded with; that a visited order is filled, does not match, or the incoming order is
exhausted (`VisitInv`); what the quantity held between the two fills is (`FillInv`);
that an order done with its own turn has offered itself to all that were there
(`OfferInv`); and the priority of the trade in the making (`PriorityInv`). The argument
for `NoCrossedBook`: of two answered orders the one that took the mutex later listed the
other, because an order is saved before it takes the mutex; its loop then either
filled one of them or saw a price that does not match, and quantities only shrink.
`Inv` was checked with TLC as an invariant before it was proved. The proof has one
step per action, and under it one per conjunct the action can disturb.

`Conservation` relates every order to the sum of its trades. `FlightInv`, which follows
from `Inv`, says what is still without a trade: at most one request owes an order one,
because the mutex lets one through at a time. `LedgerInv` then needs only that trade
IDs are drawn from a counter, so that the new trade is not in the set yet. The events
are proved from `EventInv`: the requests between lock and end of the loop are one for a
stock (`HolderInv`), the last update of a traded order is its state or the holder has
just filled it (`UpdateInv`), and the last book shows no more than rests, or the
holder has traded and will emit another (`DepthInv`).

The refinement maps every step of the engine but two to a stutter: `SaveOrder` is
`Place`, and `FinishMatching` is `Match` (`StepImplements`, one lemma for each). For `Match`
the orders seen are those the request listed that still match and had something left when its
turn began, and what each of them gives is the total of the turn's trades with
it (`Part`). That these parts are a FIFO allocation needs the history of a turn, which
`Inv` does not keep. `TradeInv`: every trade was made in the turn of one of its orders, at the
price of the other, and no two orders trade twice. `TurnInv`: while a request matches, what
it has listed and not come to still has something left, what it has passed at a
matching price was taken, and at most one order was taken only in part. What an order has
left in `Exchange` is its quantity less its settled deals, so the parts have to be added
up: `PartsFill` gets their sum from `Conservation` and from sums over a partition
of the trades (`TotalOfParts`).

Sums are `SumFunction` and `SumFunctionOnSet` of the community modules, a recursion over
the subsets of a finite set. The prover library's induction theorems cannot be used,
because they take an operator as a parameter; `SumFacts` uses instead that the proper
subsets of a finite set are well founded (`FS_StrictSubsetOrderingWellFounded`): a
set of subsets for which a fact fails has a least member, and there the definition
gives a contradiction. From this come: the sum is what the recursion says whichever
element is taken out first (`SumRemove`), an element more adds its value, sums of naturals
are naturals, grow with the set and with the values, and are the same over a partition or
over the image of an injective map.

`PriceFeedProofs` proves, for every set of stocks, prices and volumes and every bound
(assuming what `FeedInputs` and `NilIsNoMarketData` say):

- `TypeCorrect`: `Spec => []TypeOK`;
- `StopIsFinal`: `Spec => SilentAfterStop`, an action property;
- `CurrentTickerAnnounced`: `Spec => []TickerAnnounced`;
- `SumsInvariance` and `TickersAddUp`: `Spec => []TickerSumsUp`.

`StopIsFinal` rests on three facts that hold together: no goroutine runs before `main`
serves (`StartInv`), an update a feeder has begun is in the hands of its running
goroutine (`BusyInv`), and `Stop` has returned only when none runs (`StopInv`).
`TickerAnnounced` becomes inductive as `CarriedInv`: the current ticker has been announced,
or some writer has yet to read it, or holds just this ticker; a second writer's
update makes the first's ticker stale but is itself still to be announced.
`TickerSumsUp` becomes inductive as `SumsInv`, which also says what an entry without updates
is: created with or without a price, since the first update treats the two differently.

`RateLimiterProofs` proves, for every set of visitors and ports and all amounts (assuming
`Amounts` and `IdleMeansFull`):

- `TypeCorrect`: `Spec => []TypeOK`, and so that no bucket exceeds its capacity;
- `VisitorsForgotten`: `Spec => []AbsentForgotten`;
- `ImplementsIdealBucket`: `Spec => IdealBucket`, the refinement;
- `RateBounded`: `Spec => []WithinRate`.

The refinement shows that every `Allow` is an `Ask` of the abstract bucket, a tick of the
clock a `Tick`, and a cleanup a stutter: forgetting a visitor replaces a bucket whose
refill has reached its capacity, because it was idle for `MaxIdle`, by none, which
counts as full. `WithinRate` becomes inductive as `WithinBudget`: what has passed in
the window and what is left in the bucket together are bounded. `AbsentForgotten`
rests on `SweptAtLastTick`: once the goroutine has taken a tick, nobody is
known who was idle for `MaxIdle` at that tick.

`AccountsProofs` proves, for any registrations, names, addresses, unfit ones among them, and any number of
restarts and failing calls, all five properties of the run `accounts`: `TypeCorrect`,
`UsersUnique`, `AcceptedAreKept`, `TokensAreNames` and `ConflictsHaveCauses`. Its
invariant says what each place of a registration has made sure of: which IDs of this
life are drawn and by whom, that a saved user is in the storage of its life, and
that what is in memory has an ID of this life.

`PostgresExchangeProofs` proves, for any requests, stocks, prices and quantities and any
number of faults (assuming `FiniteRequests`, `Bounds`, `NilIsNothing` and `PositiveInputs`):

- `WellTyped`: `Spec => []TypeOK`;
- `MutexIsTheLoops`: `Spec => []LockMeansLoop`;
- `CopiesAreRows`: `Spec => []ListIsCurrent`;
- `TablesAgree` and `TablesBalance`: `Spec => []Conservation`;
- `AnsweredKeepFills`: `Spec => AnsweredOnlyGrow`, an action property.

There are three inductive invariants, each resting on the one before. `Inv`: two loops
run on different stocks (`OneLoop`), a loop writes the row of its own order and rows it
has listed, rows never change stock or side (`RowsStay`), and what a loop has listed is of
its own stock and the other side (`Copies`), so that the only foreign row it can write is
one a restarted counter handed out twice, which is then `overwritten` (`Stored`). `TypeInv`
adds that quantities add up. `TablesInv` relates the two tables: the row of an
ID that is not `overwritten` is the object of the one request that may still trade with it
(`OwnerInv`), between the two `UpdateStatus` the row of the counter order is one fill behind
its copy (`BehindInv`), and a copy that its loop is not done with is at least as filled as
the row (`AheadInv`), overwritten or not. The attempt to prove `AnsweredOnlyGrow` found it
too strong as it was first stated: after a restart two requests for different
stocks can have one ID, so two loops under two mutexes write one row. TLC confirmed
it with a second stock, and the property now says so.

`HubProofs` proves, for any clients, keys, buffers and bounds (assuming `Capacities` and
`NilIsNoClient`): `TypeCorrect`, `ServerSurvives` (`NoFatalPanic`), `ClientsSeeOrder`
(`EventsInOrder`), `OneStray` (`AtMostOneStray`) and `SlowOnesHarmNobody` (`NoGaps`). A channel is closed only when the
hub has forgotten the client and its reader is past responding (`ReaderInv`); a
client's events are of what Run is done with, or the current one if Run has passed
the client (`PastInv`); and an unwanted event in Run's hands means that the client
has changed its subscriptions, and so its count of strays is 0 (`StrayInv`). `NoGaps` needs
more (`GapInv`): a client that has dropped nothing, has not unsubscribed and has got an
event of a key, or was found subscribed to it, still is; and if Run has passed it, it
has the current event too. The acknowledgement of an unsubscription is on its way or in
the channel from the moment the subscription goes, so a client that Run finds unsubscribed
in the middle of a broadcast is one the property says nothing about.

`EventBusProofs` proves, for any servers, writers and any number of events and faults
(assuming `WritersHaveHomes`, `FiniteWriters`, `Bounds` and `NilIsNoEvent`):

- `WellTyped`: `Spec => []TypeOK`;
- `HubsSeeOrder`: `Spec => []EventsInOrder`;
- `EventsArrive`: `Spec => []EventsReachHubs`;
- `FeederIsHeard`: `Spec => []UnheardOnlyIf`.

Order in a hub's channel is not inductive by itself. `OrderInv` states it for the whole
way of an event, inbox, listener's hand and channel; two listeners cannot mix it up
because all events of a writer that are on their way are in one broker, the one its
server still uses (`RouteInv`), and what is left to the fallback has failed
(`EmittedInv`). `ReachInv` is `EventsReachHubs` for every event there is. The feeder
emits only while `main` has not come past stopping it, and until then the connections
are as they were made (`ShutdownInv`).

Model-checked only: the liveness properties, since fairness and `ENABLED` are out of the
proof system's reach.

## 6 Where code and documentation disagree

Four runs are expected to violate a property that states what the documentation says.

1. `PricePriority`. `README.md:130` names "Price-time priority matching". The listing is
   sorted by `CreatedAt` alone (`order_repository.go:85`), so an older, worse priced order
   trades before a better priced one. (`README.md:199` says FIFO, which holds.)
2. `NoDoubleFill`. `README.md:632` says the per-stock mutex prevents a double fill. With
   Postgres a request matches with the order object it built before it waited for the
   mutex; a fill by the request that held it meanwhile is not in that object, is traded
   again and overwritten.
3. `AcceptedOrdersStored`. `README.md:774` recommends Postgres for persistent data. The
   order counter restarts at 0, and the upsert assigns only the fill columns, so the
   order with a reused ID is not stored and the old row's fill is reset.
4. `WelcomeSent`. `README.md:507` says the server sends a welcome after connecting to `/ws`.
   `NewRouter` runs every route behind `loggingMiddleware`, whose `statusRecorder`
   (`router.go:17-25,47`) embeds `http.ResponseWriter` and has no `Hijack`;
   `gorilla/websocket` v1.5.3 needs one, answers 500 and the handler returns
   (`handler.go:42-46`). With `Wrapped = {}`, the handler behind a writer that can be
   hijacked, TLC finds `WelcomeSent` violated as well, by a race: the pumps start first, and
   if the connection fails and the client has been unregistered by then, the welcome goes to
   a closed channel and panics in the handler. `NoFatalPanic` shows that the handler, where
   `net/http` recovers, is the only goroutine that can.

## 7 What is not modelled

- Rejected requests, `GetOrders`, tickers and listings: read-only. `GetAll` tests the status
  of an order and copies it under two locks, so a listing by status may show another
  status; nothing depends on it.
- `UpdatedAt`, `Change`, `ChangePct`: derived or never read by the logic.
- Metrics, log lines, JSON: no property is about them.
- `CANCELLED`: no code assigns it.
- The token check before the upgrade and in the middleware, CORS: stateless. Tokens
  expire; the models keep them. After a restart in memory the IDs that old tokens name are
  given out again; nothing reads them but a WebSocket label, and no property speaks of it.
- The Redis cache: `SetTicker` is called and nothing reads what it wrote; `SetOrderBook` and
  `AddRecentTrade` are never called.
- Rounding in the limiter's `float64`.
- An `int64` overflow of volumes and quantities, which needs volumes beyond any use.
- A reconnect of the Finnhub feed that fails ends `readLoop`, and nothing feeds prices from
  then on: `PriceFeed` has this (`DialFails`), and that `Stop` still returns; a connection
  that a reconnect replaces is never closed.
- Configuration, logging and metrics.

## 8 Plan

Done, in this order: `Orders`, `MarketData`, `MatchingEngine`, `Exchange`, their proofs,
`PostgresExchange`, `Hub`, `PriceFeed` and its proofs, `RateLimiter` with `TokenBucket` and its
proofs, `EventBus`, `Accounts`, the proofs about them, and the proof that `MatchingEngine` implements
`Exchange`. Left: the read side, `GetAll` and `GetOrderBook` against concurrent saves and
fills.
