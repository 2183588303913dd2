# A formal model of ai-trader-btc

This directory specifies ai-trader-btc where state can go wrong unnoticed: what
the server believes it holds at Binance and what it does about it, what its
strategies decide and its back-tests compute, and what its desks and pages keep
of a world that goes on without them. The system is a NestJS server
(`src/apps/server`), a React front end (`src/apps/web`) and a shared package
(`src/packages/shared`). The server is one Node process over one PostgreSQL
database. Every handler is an `async` function, so two handlers interleave at
every `await`, and `repository.save(entity)` writes every column in which the
entity differs from the row, although the entity may have been read several
awaits earlier. There are no transactions and no locks on the tables modelled
here; a few in-memory sets and flags (`starting`, `ticking`) stand for them. That
makes awaits, crashes and lost responses the interesting events.

The modules are plain TLA+. TLC checks them on small instances, and TLAPS proves
the types and most safety invariants for every value of the constants.
`PROJECT.json` maps each definition to the lines it models and lists the
components, the runs, the mutants, the hazards and the theorems.

## Inventory

| Component | State | Operations | What is hard | What makes it correct |
|---|---|---|---|---|
| Futures order ledger `futures/futures-trading.service.ts` | `orders`, `trade_fills` | `placeOrder`, `syncPendingFills`, `repairMissingLots`, `listPendingCloseLotIds` | three writers of the same rows, lost responses, asynchronous fills, rounds nobody awaits | nothing recorded that did not happen; nothing that happened is lost |
| Position lots `account/lot.service.ts` | `position_lots` | `createFromOpenFill`, `settleFromCloseFill`, `reconcileOrphanLots`, `claimUnassigned` | check and insert in two awaits, saves of entities read earlier | one lot per opening order, settled by its own close |
| Stop orders and cancellation (same file, 918-1055) | `orders` with a trigger price | `placeStopOrder`, `cancelOrder`, `listOpenOrders` | cancelling an order whose response is awaited, or that has filled | a final status is true; a live order is open here |
| Protective stops (same file, 1070-1300) | `protectionOrderId` of a lot | `attachProtection`, `detachProtection`, `reconcileProtections` | attached by four callers, repaired from stale reads | a lot names only its own fuse; an open lot is protected in the end |
| Baskets `account/basket.service.ts` | `baskets`, `basketId` of a lot | `resolveOpenBasket`, `attachLot`, `onLotSettled`, `recompute` | find-then-create, totals computed from stale reads | totals are those of the lots; a closing is announced once |
| Circuit breaker `strategy/protection.service.ts` | closed baskets | `evaluate` | judged after the basket is saved, in another task | an instance that lost too much is stopped |
| Strategy runner `strategy/strategy-runner.service.ts` | map of instances, `shouldRun` | `startInstance`, `stopInstance`, resumption | chains of awaits over one map and one column | a stop lasts; a started instance comes back |
| Martingale grids `strategy/martingale-grid*.strategy.ts` | plan, layers, peak, cooldown per instance | `onTick` | decisions from a context that has moved on | bounded layers, cooldown after a stop loss |
| Signal strategies `strategy/{donchian-breakout,trend-following,mean-reversion}.strategy.ts` | trailing stops and times per lot | `onTick`, `onStart`, `onStop` | one object for all instances | stops only tighten; old lots are closed |
| Simulated and event broker, back-tests `backtest/` | lots, orders, rounds, balance | `beginBar`, `applyEvent`, `openLot`, `closeLot`, settlement | order of fills within a bar or event | equity is explained by fills and funding |
| Netting `packages/shared` `position.ts`, `metrics.ts` | position, open round | `applyFuturesFill`, `computeFuturesRoundTrips` | a fill that turns the position | both agree with the sum of the fills |
| Exchange adapter and registry `exchanges/` | account row, cached adapters, position mode | registry `get`, `getPositionMode`, `setPositionMode`, `placeOrder`, `withRetry` | stale cache, retried requests, guessed mode | one fill per order, never on the wrong side |
| Candle store, market data `market/` | buffer, pending candles, table, streams | `load`, `onKline`, `flush`, `bootstrap`, heartbeat | overlapping writes, failing flush, silent sockets | candles in order, none lost but by a known failure |
| History pull `backtest/pull`, `backtest/*feed.ts` | tables of history | paged pulls, archive files, readers | page boundaries, missing files | what is reported complete is complete |
| Back-test research `backtest/research` | none | walk-forward, cross-validation, sweep, regimes, bootstrap | index arithmetic that may look ahead | each result is what its definition says |
| Strategy hub and gate `strategy/strategy-hub.service.ts`, `backtest.service.ts` | manifest file and memory, runs | `setEnabled`, `reload`, `persist`, `deleteRun` | verdict and write in different awaits | what is listed was judged |
| Chat desk `feishu/`, `agent/llm-chat.service.ts` | queue, history, pending actions | messages, tool loop, confirm, cancel | repeated and late messages, restarts | a write is executed once, as confirmed |
| Futures configuration `futures/futures-config.service.ts` | one row | `getOrCreate`, `update`, `markRun` | created by several callers, read-modify-write by several tasks | the row stays usable |
| News room `news/`, `agent/ai-market.service.ts` | news table, calendar and analysis caches | rounds over feeds, refresh, prune | overlapping rounds, failing feeds | announced as often as stored; a calendar is not emptied |
| Income book `account/income.service.ts`, `overview/` | `exchange_incomes` | `sync`, daily sums | overlapping syncs, late rows | the calendar is what the wallet gained |
| Trade archive `strategy/trade-record.service.ts`, `analysis/` | files of event lines | `append`, `analyze` | lost and late lines | the parts of an analysis add up to its result |
| Web queries, forms, chart `apps/web` | query cache, drafts, dialogs, candles | hooks, pages, socket | answers that overtake changes, other users | own changes show, but for an answer that was on its way; going live and overriding the gate are what the user agreed to; no hole in the chart |
| Scheduler `scheduler/scheduler.service.ts` | timers | starts the rounds of the others | nothing is awaited | modelled as the start actions of those rounds |
| Not modelled | | | | margin and leverage arithmetic (floating point), futures positions, spot trading, event bus and gateway, authentication, database schema, indicators and types, journals, notifications, descriptions of model tools, drawing of pages; `PROJECT.json` gives the reasons |

How they interact: the scheduler ticks every 5 s and drives the runner; in that
loop it starts, without awaiting them, `syncPendingFills` and `repairMissingLots`
every minute and, every 5 minutes, `reconcileProtections` and the income sync.
The runner hands each strategy a snapshot, and the strategies place orders
through `StrategyExecutor`, which calls `FuturesTradingService`; that asks the
registry for the adapter, calls the exchange, then `LotService`, which calls
`BasketService`. Settled baskets are announced on the event bus, where the runner
listens to evaluate the circuit breaker. HTTP controllers and the chat desk call
the same services directly and run concurrently with all of it. A strategy may be
listed when the hub finds a passing sweep and research run among the results of
the back-tests, which replay what the history pulls stored.

## Modules

A module models one component; where a component is large, its pure rules have
a module of their own (`GridRules`, `SignalRules`, `SimBooks`).
`MarketDesk` and `Offices` compose the parts that only share the process. A name
in the code is kept where TLA+ allows it. Definitions that begin with
`mutant:` in their comment are mistakes the code avoids; `PROJECT.json` pairs
each property with one.

### FuturesLedger

The order ledger and the lots, in one direction of one symbol. State and code:

| Variable | Code |
|---|---|
| `orders`, `fills`, `lots` | the tables `orders`, `trade_fills`, `position_lots`; the row of a lot is named by its opening order and the task that inserted it, so two inserts for one order are two rows |
| `exch`, `pos` | what Binance knows of each order, and the position of the direction; external |
| `task` | the control point and the local variables of each task |
| `crashes` | counter that bounds `Crash` |

A task is one run of an asynchronous function. It is cut at every await after
which another task can have changed something it uses; what a function does
between two such awaits is one action, trailing saves included. `Engine` tasks
are `placeOrder` called by the strategy tick, which has first asked
`listPendingCloseLotIds` (`Decide`); `Manual` tasks are HTTP requests, which do
not ask (`Request`). Both go through `CheckLot`, `PlaceClose` or `PlaceOpen`,
then `SendAccepted`/`SendRefused`, then `RecordResponse`, `ConfirmFound`,
`ConfirmNothing`, `SaveOrder`, `SaveFill`, `SaveFailed`. The order of the rows
differs on purpose: `placeOrder` saves the order before its fill, and
`syncPendingFills` the fill before the order. `Syncers` are rounds of
`syncPendingFills` (`SyncBegin`, `SyncReadFills`, `SyncFound`, `SyncSkip`,
`RoundDone`) and `Repairers` rounds of `repairMissingLots` (`RepairBegin`,
`RepairCheck`); both end in the same calls of `LotService` (`LotFind`,
`LotInsert`, `LotAttach`, `LotGet`, `LotClose`). `Starters` are the first half of
`startInstance`: archive the lots the exchange does not hold, adopt those no
instance owns (`ReadPositions`, `ArchiveRead`, `ArchiveSave`, `ClaimRead`,
`ClaimSave`). `-2022` sends a placer through the same archiving.

`save` writes every column in which the entity differs from the row. That is
why `LotAttach` and `ClaimSave` reopen a lot that was closed since they read it
(`AsOpened`). A response may say that the order has ended unfilled: `EXPIRED` stands for
all such statuses (`ResponseStatus`).

Left out: prices, fees, margins and the numeric profit; failing database
calls; the 60 s window of `listPendingCloseLotIds` in which a FAILED close still
counts (a tick after the window is modelled, which is the weaker guard);
protective stops; the basket of a lot, of which only the stale save remains.

### LotLifecycle

The abstract promise: an opening order is held never, then open, then closed
for good. `FuturesLedger!HeldOnce` is its specification under the mapping
`held[o] = Held(o)`. A lot that a task is about to save as open counts as open,
which is what makes the mapping hold in spite of the stale saves, and where the
rows alone do not hold it (`ClosedForGood`).

### StopOrders

The stop orders a grid leaves at Binance: `placeStopOrder`, `cancelOrder`, the
runner's `cancelOpenOrdersSafely`, and the one step of `syncPendingFills` that
records a triggered order. It is a module apart from the ledger because its
orders are not sent and awaited but lie at the exchange, and because only here
two writers disagree about the row of an order that is still on its way.

| Variable | Code |
|---|---|
| `orders` | table `orders`: `status`, and whether `exchangeOrderId` is set (`known`) |
| `recorded` | orders with a row in `trade_fills` |
| `exch` | Binance's order; external |
| `task` | control point, current order, and the orders still to cancel |

`Ticker` is the strategy tick; the runner's `ticking` flag admits one. It cancels
any of the orders in its context (`TickBegin`, `CancelRead` ...) and then places
any number of new ones (`PlaceStop`, `SendStop`, `RecordStop`, `FailStop`): what a
strategy chooses is left open, so the module covers every strategy. `Requests`
cancel everything open, as stopping an instance, closing all baskets and the
circuit breaker do. `Syncers` are rounds. One `cancelOrder` is four actions:
read, call, and save after success or after failure, with the local branch for
orders without an id (`CancelLocal`).

Left out: several instances (each call filters by instance), partial fills,
trigger prices, protective stops, and failing database calls.

### RunnerLifecycle

Which instances run and which are to run again. `map` is the in-memory map of
`StrategyRunner`, `shouldRun` the column; `task` the control point of each
request (`Users`), evaluation of the circuit breaker (`Breakers`) and of the
resumption (`Booter`, one per process). `StartRequest`, `Enter`, `MarkRunning` are
`startInstance` cut at the awaits between looking at the map, entering it, and
saving the intent; `StopBegin`, `Leave`, `MarkStopped` are `stopInstance`; `Resume`,
`ResumeNext` are `resumeIfShould`; `Evaluate`, `Trip` are the breaker's. `Crash`
clears the map and all tasks and boots again.

`acked` and `alone` are history variables: what the last command that returned
promised, if no opposite command overlapped it. They guard nothing.

Left out: what a start does to lots (FuturesLedger) and a stop to orders
(StopOrders), building contexts, ticks.

### ProtectionFuse

The reduce-only stop that protects an open lot. `lots` holds status and
`protectionOrderId`, `orders` the rows with source PROTECTION, `exch` what Binance
knows of each fuse, `recorded` the fuses with a fill. `Workers` open and close lots
(`Create`, `CloseFill`, `Settle`), record triggered fuses and cancel them with the
orders of a stopped instance; `Rounds` are runs of `reconcileProtections`. One
`attachProtection` is `AttachSkip`/`AttachThrows`, `Send`, `Record` or `Fail`, `Register`;
one `detachProtection` is `Detach`, the `Cancel...` actions and `Clear`. What is left to
do after a call returns is the task's field `rest`.

### Baskets

`lots` and `baskets` are the tables, `task` the await at which each `placeOrder`,
sync round, archiving or adoption stands, `running` and `evals` the runner's map and the
breaker. `Resolve`, `Code`, `Create`, `Attach`, `Origin` are `attachLot`; `SettleRead`,
`CloseSave` close a lot, two of them the same one if they meet; `ClaimRead`, `ClaimSave` are
`claimUnassigned`, which changes the owner of lots, saves them open as they were read and
leaves them in their baskets; `RecomputeLots`, `Funding`, `Save` are `recompute`; an
announcement makes the breaker judge. A lot has an owner, `inst`, and an opener, which is in
its opening order. `announced`, `mixed` and `unjudged` are history: `mixed` are the
baskets on which two tasks were at work at once, or one twice, or whose lots an adoption
saved back, of which the code promises less (see Observations). Prices are left out: a lot
has a net result.

### GridRules, GridV1, GridV2, GridRounds

The martingale grids. `GridRules` holds what is computed from one context snapshot: profit
of a set of lots, exit chain, sizing, sticky direction, pending discipline, fuse of the
extreme market. `GridV1` and `GridV2` give one tick as a set of outcomes, because the
executor's answers (an order refused, a cancellation failed) are part of it. `GridRounds`
runs an instance against its account: `Observe` reads the context, `Act` applies one
outcome, `Move` moves the price, `Trigger` fills a stop order, `Book` books a market
order, `NewBar` advances the bar; between `Observe` and `Act` the account may change.
`quit` is history: the last exit that every lot accepted with no market order under way.
`Orphaned` names the one way past the cooldown: an instance without the exit chain (the
first generation, and the second by default) that left a layer at the exchange.
Each switch of V2 is a field of `mode.sw`; with all off the tick must be the one of V1
(`OffIsV1`).

### SignalRules, SignalRounds

The three signal strategies. `SignalRules` says when an empty instance enters, what
size it takes and when a tick closes a lot; `SignalRounds` lets several instances
share the one strategy object (`mem`), with orders booked late, refused closes,
lots closed by others, and starts and stops in the middle of a tick. The
candle arithmetic (channels, averages, band) is an input.

### SimBooks, Backtest

`SimBooks` holds the accounts of both back-test brokers as a record, the fills of the bar
broker (`sim-broker.ts`) and of the event broker (`event-broker.ts`), and the two ways the
program nets fills, in exact fractions. `Backtest` replays a recording of bars or of
events with any strategy: within a tick it opens lots, closes lots, places and cancels
stop orders in any order (`AskOpen`, `AskClose`, `AskStop`, `AskCancel`, `EndTick`).

### MarketDesk and its parts

| Module | Code | State and actions |
|---|---|---|
| `Registry` | `exchange-registry`, `exchange-account` services | account row `saved`, `adapters` created so far, `cache`; `Create`, `SaveSettings`, `SettingsSaved` |
| `Venue` | `binance-futures.adapter.ts` | `order`: the call of each order (`PlaceOrder`, `OrderAdapter`, `OrderMode`, `SendOrder`); `ensure`: the switch to hedge mode (`EnsureHedgeMode` ... `PostMode`); external `dual`, `legs`, `executed` |
| `CandleStore` | `candle-store.service.ts` | buffer, pending and writes under way in `store`; table `rows` |
| `MarketData` | `market.service.ts`, `simulated-feed.ts`, the hourly recovery | `job`: bootstrap and recovery; `stream`: sockets with their heartbeat; `Restart` forgets the memory |
| `HistoryPull` | `backtest/pull`, `historical-feed.ts`, `events-feed.ts` | one action per page, archive file or failure, while time passes (`today`) and rows appear; `report` is what the call returns |
| `ChartFeed` | `useCandles`, `mergeLivePrice`, `ws/realtime.ts` | the server's candles `series`, the fetched `base`, the drawn `chart`, prices on the `wire` |
| `IncomeBook` | `income.service.ts`, calendar of `overview.service.ts` | rows of the exchange, the table `book`, the overlapping `sync`s; history `wallet` |
| `TradeArchive` | `trade-record.service.ts`, `trade-analyzer.ts` | `jobs`: openings and settlements, await by await, over `lots` and `openBaskets`; lines appended or lost, exit traces; the analysis is an operator over them |

### Offices and its parts

| Module | Code | State and actions |
|---|---|---|
| `Research` | `backtest/research/*.ts` | a `job` with input and result; one action per algorithm, compared with its definition in `ResultsHold` |
| `StrategyHub` | `strategy-hub.service.ts`, gate of `backtest.service.ts` | `runs`, the `file` and the manifest `shown`; `call`: each administrator's request, await by await; torn and failed writes |
| `ChatDesk` | `feishu-bot`, `feishu-agent`, `llm-chat` services, `confirmation.store.ts` | `queue`, `turn` with the writes a round holds back, `pending`, `session`, `receipts`; history `done`, `handled` |
| `WebCache` | `api/hooks.ts` on its pages, `client.ts`, `store/auth.ts` | `shelf`: each query's data and state; `topic`: versions on the server; `deed`: the mutation under way; react-query is external: an invalidation asks a query on screen anew, but joins its first load |
| `WebForms` | `AdminStrategy`, `MobileStrategy`, `AdminFutures`, `AdminStrategyGovernance` | dialogs `starting`, `question`, `gate`, `draft`; `posts` under way, the flag `submitting`; another admin |
| `ConfigRow` | `futures-config.service.ts` | `row`, and the copy each task in `works` read |
| `Newsroom` | `news`, `calendar`, `ai-market` services | `reading`: where each round is in each feed; `weeks` kept, `fetching` shared |

The parts of `MarketDesk` (apart from Registry, which market and venue share) and
of `Offices` do not touch each other's state, so a behaviour follows one of them:
`desk` says which. What is proved of a part's own specification holds in the whole.

### MC modules and proof modules

`MCFuturesLedger`, `MCBaskets`, `MCGridRounds`, `MCSignalRounds`, `MCBacktest`,
`MCMarketDesk` and `MCOffices` give values to constants that a configuration cannot
write (records, functions, symmetry). StopOrders, RunnerLifecycle and
ProtectionFuse are instantiated by their configurations as they are. A module
`...Proofs` holds the theorems of the module it is named after (`FuseProofs` those of
ProtectionFuse).

## What the runs check

| Run | Instance | Properties | What it shows |
|---|---|---|---|
| LedgerTasks | 2 orders, a request, a sync round, an instance start, lost responses, a position closed by hand, a crash | `BackedByExchange`, `HeldOnce` | tasks interleaved at every await never record what did not happen, and the ledger implements `LotLifecycle` although rows are saved from stale entities |
| LedgerRequests | 3 orders, two requests, a sync round, every response delivered | `NoUntrackedPosition`, `SettledByOwnClose` | what the exchange holds is in a lot or recoverable; a lot is settled by an order placed for it, even when two requests close one lot |
| LedgerLive | 2 orders, market or limit, the tick, a sync and a repair round | `OneLotPerOpenOrder`, `FilledOpenGetsLot`, `FilledCloseSettlesLot` | one lot per opening order, and every fill reaches its lot in the end |
| StopOrders | 2 orders, the tick, a request, a sync round, a crash | `RowsTellTruth`, `LiveIsOpen`, `TriggeredIsRecorded` | final statuses are true, the next cancellation finds a live order, a triggered one is recorded |
| RunnerCommands | 2 instances, a request, a breaker, the resumption, a crash | `AckedIntentKept`, `ComesBack` | a stop lasts, and a started instance comes back after a crash |
| FuseRounds | 1 lot, 2 fuses, a worker, a round, one fault | `NamedFuseIsReal`, `ProtectedInTheEnd` | a lot names its own fuses only, and an open lot is protected in the end |
| Baskets | 2 lots of an instance or of the user, a second instance that adopts, 2 tasks, a crash | `TotalsMatchLots`, `AnnouncedOnce`, `OwnBasket`, `LosersAreStopped` | on baskets where tasks did not meet, totals tell of the lots and a closing is announced once; what an instance opened stays its own and in its own baskets; a loser that was judged is stopped |
| GridRounds | 5 configurations of the second grid, 2 bars, 2 layers | `OffIsV1`, `LayersWithinCap`, `Cooled` | without its switches the second grid is the first; sides keep their cap; nothing is added in the bars after a stop loss, unless an orphaned layer is left (`Orphaned`) |
| SignalRounds | 2 instances of each strategy, 2 lots, prices 0..3 | `TrailOnlyTightens`, `AgedLotsClose` | the trailing stop only tightens while its lot lives; an old lot is closed even when its opening was forgotten |
| Backtest | both engines, any strategy of 2 orders, 3 bars, 2 events | `BooksAddUp`, `FillsAreReal`, `BreachEndsPosition` | equity, rounds and netted position are explained by fills and funding; no order fills twice, after its cancellation or outside its bar; a margin breach ends the position |
| MarketDesk | one desk at a time (below) | `FeedIsSound`, `OrderOnce`, `SidesAreRight`, `HistoryIsWhole`, `NoHoles`, `ArchiveTellsTruth`, `BookIsWhole` | what is kept of the exchange is what it said, through dying sockets, failing calls, lost answers and restarts |
| Offices | one desk at a time (below) | `ResultsHold`, `ListedWasJudged`, `ConfirmedOnce`, `OwnChangeShows`, `UsableRow`, `ConsentHolds`, `NewsIsSound` | research results are what they are defined to be; what is listed was judged, a write of the chat confirmed, going live agreed to; pages show the user's own changes, the configuration stays usable, news are announced as often as stored |

All runs pass. Every property is paired with a mutant, a definition the code could
plausibly have had (a row saved only with the response, the client order id not
sent, a lot inserted without looking for one, a gap in the chart jumped over ...), under
which TLC finds it violated with the same configuration.

### Bounds, and why they are enough

Each task starts again when it has ended, so one task stands for any number of
operations in sequence, and the number of tasks bounds only how many are in
progress at once.

- *Ledger.* Two orders are the least with which a lot can be opened and closed; three
  let two closes of one lot meet (LedgerRequests). `Qty` is 1: partial fills are in
  the model and covered by the proofs but one, with `Qty` any natural number. One crash
  between any two steps is enough for the run; the proofs cover any number.
  LedgerRequests has no crash, because `NoUntrackedPosition` fails with one (see
  Observations). `SyncLimit` and `RepairLimit` are the code's own 100 and 50.
- *StopOrders, RunnerCommands, FuseRounds.* The tick's orders are two, so that one can
  be on its way while the other is cancelled; two instances put the resumption in
  the middle of its list; two fuses are a fuse and its replacement.
- *Baskets.* Two lots of one owner make a basket of two, or one after another; two
  tasks are what can meet; two closings are a streak of the breaker. The second instance
  places nothing (`Placers`): it adopts what the user opened. `MaxCloses` bounds closings,
  adoptions and crashes together.
- *GridRounds.* `MaxLayers = 2` lets both sides reach their cap and try to pass it;
  `MaxBars = 2` is a stop loss, its cooldown of two bars, and after.
  `LateBooking = FALSE`: market orders are booked within their bar; with TRUE the cap
  may be exceeded (see Observations).
- *SignalRounds.* Two lots: one closed by its strategy, one by somebody else, or one
  per instance; ages and prices just past each threshold.
- *Backtest.* A capital that one lot can lose, candles with gaps both ways; two orders
  of two sizes are a lot that is closed, turned, or liquidated with a stop order open.
- *MarketDesk.* One event of the outside world in the market (a failure, a restart, a
  saved setting) and two at the venue (a lost answer and the retry that loses another,
  or a switch by hand); two requests per call and two rounds of the switch, where the
  code has 3 and 4; a page of two rows, a chunk of three instants and two pages of a chunk,
  so that five rows share an instant across a page or are more than the pages read, where
  the code has 1000 rows, a minute and 200 pages; a range that may end in the future; a check
  that asks for 80 of a hundred settlements, so that one of five may lack, where the code asks
  for 99; a chart of two candles over three periods; two overlapping
  income syncs over a window of one; in the archive a day of two hours, two settlements under
  way at once, of one lot or of two (`MaxJobs`, `MaxSettlements`), and one opening beside
  them. Its clock stands still while one is under way (`AtRest`); lines may wait.
- *Offices.* Nine bars give the research algorithms their smallest legal input and its
  neighbours; of more than four choices of held-out folds every other is kept
  (`MAX_COMBOS`, 200 in the code); two administrators, editors, feed rounds or readers are
  what overlaps; three messages are a question, another message and an answer, and two
  writes held back of one message (`MaxHeld`) may be the same one; the browser is at the
  lists of strategies and of accounts, or at the back-test page and its history.

The constants that only bound a model are named `Max...`; the outside events of the
desks are `MarketEvents` and `VenueEvents`. Baskets, GridRounds, Backtest, MarketDesk
and Offices use `CHECK_DEADLOCK FALSE`: their bounds (closings, bars, recordings,
events) can be used up, and then nothing is left to do. The other runs check that
there is always a next step.

## Fairness

Liveness is checked under the least that the process provides.

- FuturesLedger: weak fairness of each task that is in the middle of something (the
  event loop goes on and every promise settles, the adapters have timeouts), weak
  fairness of the start of rounds (the scheduler starts them every minute), and
  strong fairness of a round finding a filled order: `getOrder` may fail any number of
  times, not for ever. None for requests, ticks, the exchange, or crashes.
- StopOrders: weak fairness of a round's last save and strong fairness of its finding a
  triggered order; nothing for the tick and the requests, whose end
  `TriggeredIsRecorded` does not need.
- RunnerLifecycle: weak fairness of what has begun, and of the resumption (a timer of
  8 s). `ComesBack` is checked with `ResumeMayFail = FALSE`: the code logs a start that
  fails during the resumption and does not try again, so with TRUE it does not hold.
- ProtectionFuse: weak fairness of what has begun and of the start of rounds, strong
  fairness of the exchange accepting a fuse and of a round recording a triggered one.
- The other modules claim safety only and have no fairness.

## What is proved

| Theorem | Statement | Under |
|---|---|---|
| `FuturesLedgerProofs!TypeCorrect`, `!LedgerBacked`, `!SettledByOwn` | `TypeOK`, `BackedByExchange`, `SettledByOwnClose` always hold | |
| `FuturesLedgerProofs!OneLot`, `!ImplementsLifecycle` | `OneLotPerOpenOrder` always holds; `HeldOnce`, the refinement of `LotLifecycle` | `UniqueOpenOrder` |
| `FuturesLedgerProofs!NothingUntracked` | `NoUntrackedPosition` always holds | `NothingFails` |
| `StopOrdersProofs!TypeCorrect`, `!TruthKept` | `TypeOK`, `RowsTellTruth` always hold | |
| `StopOrdersProofs!LiveStaysOpen` | `LiveIsOpen` always holds | `~ResponsesMayBeLost` |
| `RunnerLifecycleProofs!TypeCorrect`, `!PromiseKept` | `TypeOK`, `AckedIntentKept` always hold | |
| `FuseProofs!TypeCorrect`, `!FuseIsReal` | `TypeOK`, `NamedFuseIsReal` always hold | |
| `BasketsProofs!TypeCorrect`, `!OwnBasketKept`, `!AnnouncedJustOnce`, `!TotalsMatch`, `!LosersStop` | `TypeOK`, `OwnBasket`, `AnnouncedOnce`, `TotalsMatchLots`, `LosersAreStopped` always hold | |
| `GridRoundsProofs!LayersKeepCap` | `LayersWithinCap` always holds | `~LateBooking` |
| `GridRoundsProofs!CooldownKept`, `!OffIsFirst` | `Cooled`; `OffIsV1` always holds | |
| `OfficesProofs!RowStaysUsable`, `!NewsStaySound`, `!ListingWasJudged`, `!DoneAsConfirmed`, `!ConsentKept` | `UsableRow`, `ListedWasJudged`, `ConfirmedOnce` always hold; `NewsIsSound`, `ConsentHolds` | |
| `OfficesProofs!OwnWorkShows` | `OwnChangeShows` always holds | |
| `MarketDeskProofs!OrderFilledOnce` | `OrderOnce` always holds | `KeepsIds` |
| `MarketDeskProofs!RightSides`, `!ChartIsWhole` | `SidesAreRight`, `NoHoles` always hold | |
| `MarketDeskProofs!FeedKeepsItsWord` | `FeedIsSound` always holds | |
| `MarketDeskProofs!PullsAndReaders` | two of the three parts of `HistoryIsWhole`, `WholeOrNamed` and `ReadersMissNothing`, always hold | |
| `MarketDeskProofs!NothingIsMissing` | `HistoryIsWhole` always holds | |
| `MarketDeskProofs!BooksAreWhole` | `BookIsWhole` holds | |
| `MarketDeskProofs!FilesKeepOrder` | `FilesInOrder`, one of the three parts of `ArchiveTellsTruth`, always holds | |

Each holds for every value of the constants that satisfies the named assumptions of its
module: bounds are natural numbers, kinds of task are disjoint, switches are Booleans, and
what the code fixes is fixed (a ratio and a leverage that is stored is one the validation
lets through). Crashes, failures and lost responses are allowed or not. No theorem uses
fairness. `UniqueOpenOrder` is the index the migration creates; `KeepsIds` says that the
exchange refuses a client order id it has filled, which the code relies on when it sends a
request again. `NothingFails` is the case `NoUntrackedPosition` is about: no response
lost, no crash, an order filled as a whole (`Qty = 1`), and finitely many tasks; any
number of orders, requests, ticks, rounds and starts, closes by hand, market and limit
orders, and either index remain. Without it the property is false (see Observations).
`~LateBooking` says that a market order
is booked within the bar it was sent in, as it is unless its answer is lost or late; with
late bookings the cap may be exceeded by more than one (see Observations).
`GridAssumption` has the parameters as `normalizeParams` clamps them and the first
generation without switches. That a data version is not the mark for no data, that the
sessions of the web client are not the server, and that at least one timeframe is kept are
what the constants stand for.

*Ledger.* `BackedByExchange` alone is not inductive: an answer is written some
steps after it was given. The invariant adds `TaskFine`, what the local variables
of each task still have backing for (an amount to be written was filled by then,
an order to be closed exists, a lot in hand exists), `OrderFine` (an order without
a row is unknown to the exchange, no order is filled beyond its size) and
`SendsOwn` (no two tasks are about to send the same order). The lemma `TaskFrame`
says that all this survives what other tasks do, because tables and exchange
only ever gain (`Grows`); each action is then proved by what its own task
learns. `OneLot` adds that the index refuses the second insert, and
`ImplementsLifecycle` maps every step to a step of `LotLifecycle` or a stutter; a
lot reopened by a stale save is a stutter because the mapping counts a lot as open
while some task is still to save it.

`NothingUntracked` compares a number with two sums. `Kept` says it by counting
(`PositionBacked`: the position and the filled closing orders are at most the filled
opening ones), by what becomes of an order (`NeverGivenUp`: one that reached the
exchange is not FAILED; `OwnOrder`: from sending to recording it belongs to one task)
and by what follows a fill row (`FillsLead`: its lot exists, or a task is on its way to
insert it). `KeptIsTracked` gets from there to the property by injections: a filled
opening order is still looked at, or has a lot that is tracked, or one that was
settled, by a closing order of its own (`SettledByOwnClose`). That a sum of ones is a
count is the lemma `SumCounts`, by induction on the size of the set, which `WFMin`
allows where the induction theorems with an operator parameter cannot be used.

*Stop orders.* A task that saves CANCELED or FILLED knows it from the exchange, and
both are final there; `Fine` and `Steady` say this, and that only the tick's own
step moves the order it is sending. The lemmas `TaskOnly` and `SavesRow` reduce an
action to what it sets. `LiveIsOpen` needs `TickKnows` beside it: an order the tick has
sent and not recorded is NEW in its row, and nobody but the tick has its answer.

*Runner.* `Promised`: while a promise holds, nobody works on the opposite.
`Alone`: a command that met no opposite still has none, and a stop that has left
the map finds it left. `StartBegins` and `StopBegins` are the steps where a promise
is given up; every other step keeps to its own instance.

*Fuses.* A lot gets the name of a fuse three steps after the row was saved. The
invariant says what the task that places a fuse relies on meanwhile (its row, its
lot, and after the answer that the exchange has it) and that nothing a task
returns to brings it into the middle of a placement.

*Baskets.* While a basket is `clean` one task at most is at work on it, from the opening
or closing of a lot to the saving of the totals computed after it. `AllFit` says what the
task's copies of rows still agree with, `AllApart` that two tasks at work are on two
baskets, `AllOwned` that a lot of an instance, its basket and the entities to be saved
agree on its opener, `AllKept` that it is owned by him, since an adoption reads lots that
nobody owns and an opener never changes, `Counted` and `AllClean` that the row is true
whenever nobody is at work, `Unannounced` that a basket about to be closed was not
announced, and `AllJudged` that an instance whose last basket lost too much is judged,
about to be, or stopped. The breaker takes the last baskets from a sorted list; that the
least of a nonempty set of numbers exists comes from well-founded induction (`WFMin`), in
the lemma `Least`.

*Grids.* `TickFine` says what one tick may do in whatever context, of either generation
and with whatever switches: of a side it adds nothing, or one layer below the cap that its
context shows; a first layer at the market takes the lock of the bar, and the lock is not
given away; a stop loss that no lot refused withdraws every order and adds nothing. It is
proved bottom up, one lemma per rule of `GridV1` and `GridV2` (`TickV1`, `TickV2`). What
the account makes of it needs counting: lots and orders of a side keep their number when
their states change (`OfPaired`, by the numbers that identify them), and the number given
to a new one is free (`FreeIdIsFree`, by the pigeonhole principle). `CapInv` then relates
account and context: what a side holds is what the context shows, plus the one market
order that the lock of the bar allows. `CoolInv` says that between a stop loss and the end
of its cooldown the account holds nothing but closes under way, or an orphaned layer, and
a context read meanwhile shows nothing else, so that every tick without such a layer rests
(`RestingTick`). `OffIsFirst` compares the two relations rule by rule: the sides are equal
(`OffSide`, `OffGrid`), and memories that agree on peak, lock and stop give outcomes that
do (`Matched`).

*Offices.* `PartsInit` and `PartsStep` reduce a behaviour of `Offices` to one of its
parts; each part has an invariant of its own. `RowInv`: every copy a task read is
usable, and the second insert is refused and read again. `NewsInv`: announcements of an
item are its prunings plus one if it is stored, and whoever is about to insert has
not announced. `HubInv`: a verdict in the hand of a request refers to runs that were
fresh when it was judged, whatever became of them since. `ChatInv`: pending, queued
and executed actions are of messages that were handled before, and each is in one
place. `FormInv`: a question on screen, a request under way and a reason typed
agree on the strategy and on what the user saw. `WebInv` follows the user's own last change
through the client: what each query holds, what a request under way for it was
answered with or still may be, what the socket has announced and the deed under
way still has to invalidate. A query that shows less than the change is due to be read
again, or a request that was sent after it is under way (`Told`), or it is marked `late`:
its answer was on its way and was not asked anew; the tables of which
deed touches which query (`HookTable`, `DeedTable`) are lemmas of their own.

*Market desk.* `FillsInv` says which leg every fill moved and, with `KeepsIds`, that
there is at most one. `EffectIsRight` is the heart: for whatever mode the adapter
believes in, the exchange either refuses the parameters or what it does with them
is on the right side. `HedgeInv` says that an adapter remembers `hedge` only of an
account that is in hedge mode or was switched by hand, and that the switch holds an
adapter that exists; `Stays` is what every step keeps of that, and one lemma per way
of touching an adapter (`CreateOK`, `RememberOK`, `ReadModeOK`, `AdaptersStay`) does the rest.
`ChartInv` says that the server's candles, an answer under way, what the page
fetched and what it draws are each a `Chain` of consecutive periods; `SliceChain`,
`AppendChain` and `RedrawnChain` are the three things that ever happen to a chain.

*Feed.* `FeedIsSound` says what became of a closed candle. `Kept` says it of the
shortest interval, which is the one whose flush nothing precedes: its closed candle is
in the table, in the write that is under way, or dropped by a flush that failed, and
between two steps it is not pending. `StoreFine`, `RowsFinite` and `JobsFine` say what a
flush carries; `BeatInv` that a silent socket is judged by the time of its last
message. `Load` takes rows by their rank in time; that the ranks of a finite set are
1 up to its size (`EveryRank`), and so what a load returns (`LoadIs`), is by
induction on the set with `WFMin`.

*History.* `PullInv` is `Source`, what the source holds, and `UnderWay`, what a call has
behind it when it asks for the next page or file: everything up to the cursor is stored
or named as missing. A page holds the rows of lowest rank from the cursor on, so the
next cursor skips nothing (`PageCovers`), unless the slice has had its pages (`Crowded`);
`CheckStep` gets from the count of a check to the settlements that may lack.

*Income book and archive.* `AccountFine` relates the calendar to the account while rows
still arise: where the exchange reports profits, the rows of a day are what the account
gained that day; where it does not, the lots and the funding exceed it, over all
days, by the opening fee of every lot that is still open (`Gap`, whose sum is `holding`).
`SyncsFine` says that what a sync is about to insert is what the table lacked of its
page. The sums are the library's, recursive along an arbitrary choice of
members: `SumAddsUp` shows that such a function exists, `SumTake` that any member may be
taken out first, both by induction on the set with `WFMin`, and `SumChanged` what one
changed term does. `OrderFine` says that a line waiting in the archive's queue is no older than
any line that is written.

Only model-checked: everything under fairness (`FilledOpenGetsLot`,
`FilledCloseSettlesLot`, `TriggeredIsRecorded`, `ComesBack`, `ProtectedInTheEnd`), which
is out of the prover's reach; `ResultsHold`, which compares algorithms with their
definitions on every small input; the other two parts of `ArchiveTellsTruth`, whose
analysis is written with operators that take a test as a parameter; and, not yet
attempted, `BooksAddUp`, `FillsAreReal`, `BreachEndsPosition`, and the properties of the
signal strategies.

## Observations

What was seen of the code while it was modelled, on these models or by changing a
constant or a property. They explain the exceptions in the properties. No run is
kept for them; line numbers are those of the file named first.

*Ledger (`futures-trading.service.ts`)*

- A closing order becomes FILLED (354) before its lot is CLOSED; in between, the check
  against double closing sees neither a pending order nor a closed lot, and a second
  close may take from another lot.
- A round takes the oldest 200 orders in an open or filled status (271) and only then
  drops the recorded ones, which never leave the window.
- An order whose response is lost is FAILED after 2.8 s of polling, a limit order at
  once; the sync does not query FAILED, so a later fill is a position without a lot
  (811): `NoUntrackedPosition` fails with `ResponsesMayBeLost`.
- A crash between the fill row and the order row of the sync (332, 354) leaves an
  order neither the sync nor the repair looks at.
- `attachLot` (`basket.service.ts` 120) and `claimUnassigned` (`lot.service.ts` 221) save
  lots they read before an await and reopen a lot closed meanwhile.
- Without the unique index on `openOrderId` (the migration creates it,
  `position-lot.entity.ts` 27 does not, and `DB_SYNCHRONIZE` decides which schema is in
  force) two tasks build two lots.
- A position read before the lots are (820) archives a lot opened in between. An
  order dropped by the exchange without a fill stays NEW here (308). A partially filled
  close settles the whole lot (`lot.service.ts` 118), although the entity's comment speaks
  of partial closes (20); `closeOrderId` is written by nobody.

*Stop orders and fuses*

- `cancelOrder` takes any order without an `exchangeOrderId` for a local one (1030) and
  saves CANCELED without a call; an order whose response is awaited has none either.
  This is the exception of `LiveIsOpen`. A cancellation that fails saves the stale entity
  (1047), and so NEW over FILLED or CANCELED.
- With lost responses, a stop order that reached the exchange is FAILED here (1008) and
  lies there live.
- The cancellations of a stop filter by instance and not by source, so they also
  cancel the fuses of the lots it leaves open (`strategy-runner.service.ts` 427-440); the
  row stays NEW when a fuse is cancelled outside, and the lot is bare.
- A fuse counts as a pending close (1328-1351, and 60 s after it FAILED), so a protected
  lot always has `hasPendingClose` and a signal strategy never closes it.
- Two attachers leave a fuse no lot names; a clear may wipe the name of a
  replacement; after a failed cancellation the cleared fuse stays live; a dead fuse is
  replaced only in the next round, because the lot read before is passed on (1251). An
  explicit `null` (`types.ts` 153-154) is not respected by `reconcileProtections`, and its
  sweep of unknown `pt_` orders finds none, since rows precede orders.

*Baskets and breaker (`basket.service.ts`)*

- Every basket of a strategy ends up with origin `mixed` (125). A filter with
  `strategyInstanceId ?? null` is dropped by TypeORM, so a manual lot joins the newest
  open basket of any instance; adopted by another instance (`lot.service.ts` 215-223)
  it stays in that basket, so `OwnBasket` speaks of what an instance opened and not of what
  it owns. The code of a basket is a count with a unique index, and
  two openings may race for it; two open baskets of one instance are possible (275).
- Overlapping `recompute`s lose updates, reopen a closed row or announce it twice, and so
  may an adoption that saves a closed lot back: this is why `TotalsMatchLots` and
  `AnnouncedOnce` speak of baskets on which tasks did not meet.
- Nothing keeps two closing fills of one lot from settling it twice (`lot.service.ts`
  87-100): both read it open before either saves.
- The breaker judges before a late `fundingFee` is known; overlapping baskets both count
  it; an archive writes 0 over a result after the judgement. A crash between closing
  and judging leaves a loser running. The drawdown is taken over the whole curve and
  never recovers, so a restarted instance trips again.

*Runner and strategies*

- The resumption reads the intents once; an instance stopped while it is under way is
  started by it (405). A start that enters the map while a stop clears the intent runs
  without one. A stopped instance may still open (547).
- Grids: the check for orders in flight (V1 485-491, V2 1372-1379) is reached only while
  the exit reason holds, so a layer may be placed while lots are closing, survive as an
  orphan, and pass by the cooldown: while it rests the side is not empty, so the cooldown
  is not asked and further layers are placed (V1 485-491, 630-635), although the comment
  at V1 82-91 calls the cooldown a hard one. The second generation does the same by
  default; its exit chain closes the gap. `Cooled` holds with the exception `Orphaned`.
  The comment at V1 109 says that stop orders of the other side are withdrawn; they never
  are. The direction of the basket trail in V2 is the sign of the account's net quantity,
  so its fixed stop loss (1301) is out of reach when another instance holds the opposite
  side. The trails of the exit chain ignore failed cancellations. The first layer, sent at
  market, is invisible until it is booked, so the cap may be exceeded by one, and by more
  when it is booked after its bar (`LateBooking = TRUE`). One that was sent before a stop
  loss and is booked after it opens the basket again; when its lot is then closed by
  somebody else while its layer order stays, a first layer is opened within the cooldown.
  That is why `Cooled` speaks of exits with no market order under way. A lot closed by its
  own fuse between context and exit makes a close fail, and then the cooldown is not set.
- Signals: starting or stopping one instance forgets the memory of all
  (`donchian-breakout.strategy.ts` 139, although `strategy-runner.service.ts` 343 says others
  are unaffected), and the pause after a close of one delays the others. There is no
  check for an opening in flight. A band taken lazily, below the entry, lets mean
  reversion take its profit at a loss.

*Back-tests, netting and research*

- `position.ts` 374-375 books the whole fee of a turning fill to one side. `PerfRound`'s
  comment says that funding paid by a long is positive; in the code it is negative.
  `feeRate > 0 ? ... : default` takes a fee of zero for the default. `event-broker.ts` 171
  fills in the order of asking where the comment says closes come first. A lot that is
  closing is skipped by a liquidation; an id is returned before the lot exists, and
  closing it then fails. Trades of one millisecond are dropped between two pages.
- `plateau.ts` 8 says that the drop to the best neighbour decides; the code takes the worst
  one (58-67), and so do the property `PeakIsRejected` and the sweep's gate: a champion with
  one good and one bad neighbour is rejected. Cross-validation reports the number of all
  choices of folds (`cpcv.ts` 100), although it goes through a part of them above 200
  (74-78); some bars may then be in no path.
- The out-of-sample axis of the walk-forward is approximated, so the labels of
  regimes shift, while `regime.ts` 150 says misaligned bars are left out; the label of a
  day uses that day's close. Cross-validation with folds no longer than the warm-up
  yields an empty distribution with an infinite minimum. The look-ahead check is
  vacuous when its only cut is the last bar.
- The gate of the hub mixes the newest sweep and the newest research of any symbol; a
  best-effort `persist`, or the deletion of a failing run, opens it again; a failed write
  leaves the memory changed; of two overlapping loads the older list may win; a
  load that meets a half-written file drops the strategy. One shipped manifest is
  enabled without a back-test.

*Market, venue and history*

- A registry `get` that read the row before a save caches the stale adapter after the
  invalidation, for ever; two misses make two adapters. `seedFromEnv` overwrites the
  saved account at every start, although `exchange-account.service.ts` 54 says only
  without a record. The stream keeps the adapter it captured.
- `flush` empties the pending candles before the write, and a failed write is gone; a
  second close before the flush loses a derived candle; `load` takes the oldest rows.
  Real data and simulated prices mix, although `market.service.ts` 212 says they must not. The
  hourly recovery logs that the market is real again and never sets the source.
- `POST /order` is sent again with the same id: at most once depends on the exchange
  (`KeepsIds`).
- Pulls: the cursor `last + 1` drops trades of the same millisecond at a page boundary; a
  minute with more trades than 200 pages hold is cut without a word (`history-pull.ts`
  230), and a full page is followed by the next one where the comment says that the slice
  is halved (214-215); files the archive lacks are only logged; a partial range of the
  database is returned as whole; a range that ends in the future is cached as it is and
  stays so for ever (`historical-feed.ts` 143-161); the check of the data passes a range
  that lacks one settlement in a hundred (`data-quality.ts` 14, 98-101); the monotony
  check runs on an ordered query; the quality check is called by the command line only and
  blocks no run, although `data-quality.ts` 17-20 says so.

*Desks, pages and archive*

- Chat: actions of later rounds join the pending ones and restart their clock, while
  the card shows only this round's; a queued confirmation executes an action whose card
  was not seen; any member may confirm; an error of the receipt insert drops the
  message; `truncateParams` may drop the assistant message that made the tool calls.
- Web: `useFuturesPlaceOrder` invalidates a key no query has; an answer in flight when
  its query is invalidated off screen, or during its first load, clears the invalidation. So
  when a back-test is started, the history opened, and the list's first answer read before
  the run was stored, the run that has just succeeded is missing from the list until it is
  asked for again: the exception of `OwnChangeShows`. A draft copies all
  fields when it is edited, so saving overwrites a field changed meanwhile, although
  `AdminFutures.tsx` 137 says only changed ones are sent; the confirmation of live mode is
  skipped while the configuration is not loaded or old (`AdminStrategy.tsx` 61, 178-183);
  220 drops the symbol, so "接管并启动" starts on the platform's. The live price is drawn
  over the fetched candles, so highs and lows between fetches are lost and the chart
  stands still after more than one period (`hooks.ts` 62, 92-93).
- Configuration: `markRun` and `update` overwrite settings saved meanwhile. News: a lost
  race on a url gives up the rest of that source's round; items older than 30 days
  still in a feed are announced again after each prune; one failing calendar feed
  replaces the cache with half the weeks. Calendar of profits: opening commissions of
  days without realised profit are lost on an exchange that reports it
  (`overview.service.ts` 353-354); the limit of 1000 keeps the oldest rows.
- Archive: fees are matched by `openedAt` within 130 s of the settlement line
  (`trade-analyzer.ts` 240-249), so they are 0 for lots held longer; missed stop losses are
  decomposed with the gap of the take profit; a miss that was held back by a gate is put
  down to the gate and, a second time, to nothing known (192-195). Two settlements that
  recompute a basket at once announce it twice, and the analysis counts both lines
  (325-337), so the day's profit is that of the basket twice: `RoundsAddUp` counts its
  settlements as often as it was announced. A lot attached by a stale save may be open again
  and settled a second time, with a second line.

## Not modelled, and what is next

Left out of every module: prices and fees where no property is about them,
floating-point rounding, failing database calls except where the code handles
them (candle store, archive, hub, configuration), logging and layout. Components
without a module are the last row of the inventory. Parts left out of a modelled
component are in its module's header and in the notes of `PROJECT.json`.

Next, in this order:

1. Signal strategies: `TrailOnlyTightens` and `AgedLotsClose` from an invariant on the
   shared memory.
2. Back-test: `FillsAreReal` and `BreachEndsPosition`; `BooksAddUp` with the lemmas on sums
   of the income book.
