# A verification development of Babylon

Babylon trades cryptocurrencies: it watches candles and trades of a set of coins, keeps
*trades* (an entry order, an exit order and a stoploss), and talks to an exchange, either
Binance or a simulated one (the "playground"). This directory holds TLA+ models of it, the
TLC runs that check them and the theorems TLAPS proves about them. `PROJECT.json` maps
every definition to the lines it stands for and lists the hazards, each at its line, with
the properties that would catch it.

Paths below are relative to the repository; the Rust sources are in `src/src/`.

## The system: components, state, operations

| Component (source) | State | Operations | What makes it correct | Modelled in |
|---|---|---|---|---|
| Managed order (`order.rs`, `instruction.rs`, `countdown.rs`) | 16 states, a mode, flags, one instruction slot, retry countdown, filled quantity, sequence number | `compute`, `set_state` and its handlers, `arm`, `confirm_*`, `cancel_and_*`, `resume` | one instruction at a time; never revived once finished; never two orders on the book for one | `Order` |
| Trade (`trade.rs`) | state, status, three orders, the order whose instruction is pending | `compute`, `compute_lifecycle`, calls on the active order, `confirm_*` | exit and stoploss exclude one another; sells what was bought; closes only when quiet | `Trade` |
| Trader (`trader.rs`) | the list of trades and of orders, two cooldowns | `compute`, `handle_order_event`, `confirm_instruction_execution`, `can_create_order`, `create_order` | results and events reach the order they are about; limits kept by all threads together | `TradeExchange`, `TraderGate` |
| Playground client and coin worker (`playground_context.rs`, `exchange_client_worker.rs`, `context.rs`) | three threads and their channels | one request performed and answered; one event or result applied, then the trader computed | every request answered; slot and request agree | `TradeExchange` |
| Simulated exchange (`simulator.rs`, `simulator_order.rs`) | orders by internal id, client id map, current and previous price | create, create a pair (OCO), cancel, cancel-and-replace, tick | no order lost, doubled or executed twice; what happened is announced | `Simulator`, `OrderLives` |
| Candle generator (`simulator_generator.rs`) | a series and a drawing per frame, tick counter | `compute`, rotation, `generate_candles` | no candle is missed, out of order or fed while open; generating ends | `Generator` |
| Real exchange client (`exchange_client.rs`) | heap of jobs by priority, channel | push, pop, perform, answer | order of the jobs of one order; the worker lives | `ExchangeClient` |
| Rate limiter (`ratelimiter.rs`) | seven buckets behind one mutex | `wait_for_*` | no limit exceeded; all are granted | `RateLimiter` |
| Ids (`id.rs`) | clock and counter | pack, read, replace | what is packed is read back; a replacement finds its trade | `SmartId` |
| Orders on the wire (`order.rs`, `exchange_client.rs`, `playground_context.rs`, `context.rs`), symbol rules (`appraiser.rs`, `model.rs`) | one order in each of its forms | instruct, request, place, tell, look up; round and validate | the order means the same at both ends | `OrderWire`, `Appraiser` |
| Triggers (`trigger*.rs`) | anchors, timers, flags | `check`, `reset`, clone | fire for their cause only, and whenever they are due | `Triggers` |
| Cooldown (`cooldown.rs`) | uses left, start of the downtime | `use_cooldown`, `is_available` | number of uses | `TraderGate` |
| Position, balance sheet, user stream (`position.rs`, `balance.rs`, `context.rs`, `main.rs`) | average price and amounts, pending orders, free and locked amount | buy, sell, `set_free`, `set_locked`, the loop of `command_run` | totals consistent; no stale read | `Account` |
| Coins and their workers (`coin.rs`, `coin_worker.rs`) | series, order book, contexts | download, load, go live, apply a kline, a trade, a depth | no candle computed out of order | `CandleSeries`, `CandleStore`, `OrderBook` |
| Candles in memory (`candle_series.rs`, `candle.rs`) | closed candles, the working one, states of the indicators | push, aggregate, merge, compute | order, no overlap, indicators follow | `CandleSeries` |
| Candles on disk (`candle_manager.rs`, `database.rs`, commands of `main.rs`) | rows of each frame, metadata | fetch, update, fix gaps, roll back, reset | no gap, no half candle, current when loaded | `CandleStore` |
| Sliding window (`sliding_window.rs`, `series.rs`) | ring buffer | push, pop, iterators | readers never touch an empty slot | `SlidingWindow`, `BoundedLog` |
| Time frames (`timeframe.rs`, `timeset.rs`, `util.rs`) | a slot per frame | set, iterate, sort, configure | a coin's frames are loaded in one order, the longest first | `TimeSet`, used by `CandleStore` |
| Order book (`orderbook.rs`) | levels, last update id, summary | snapshot, suggestions | newest update shown; spread never crossed | `OrderBook` |
| Plot actions (`playground_app.rs`, `app.rs`, `plot_action*.rs`, templates of `trader.rs`, `TradeBuilder` of `trade.rs`) | one action, a trade awaiting confirmation | clicks, keys, Escape, confirm, templates | a trade's orders fit each other; nothing stays held | `PlotActions` |
| Semaphore (`semaphore.rs`) | permits left, waiting threads | `acquire`, `release` | bound kept, no lost wakeup, all served | `Semaphore` |
| Roundtrip, wait group, strategies, indicators, drawing, conversions | | | | see *Not modelled* |

How they interact, in the playground:

    plot actions / templates --create--> Trader --Instruction--> exchange client thread
                                           ^                       | request + response channel
       coin worker thread                  |                       v
       (events, results) ------------------+<--ExecutedInstruction-+     simulator thread
          ^                                ^                             | one request, one tick
          | klines, prices (generator)     +------- OrderEvent ---------+

With the real exchange (`main.rs command_run`, `context.rs`) the client posts to Binance,
the user stream brings order events and balances into one loop, and each coin has a worker
that downloads its frames, loads them and then takes klines, trades and depth. The coin
worker of the playground reads two channels that are independent of one another: results
come from the client, order events from the simulator. Nothing orders a result and the
event of the same order.

The hard behaviours: the order in which results and events are applied; an instruction
overridden while it runs; the hand-over from the stoploss to the exit; cancel-and-replace
as one instruction with two events; error paths that end a thread while the exchange goes
on; both legs of a pair ending in one tick; a check and its use on two sides of an unlock;
a sleep under a lock; a trade that overtakes the kline before it; downloads cut off
half-way; clicks, keys and dialogs interleaved with a moving market; rounding that makes
two neighbours differ.

## The modules

### Orders and trades

**`Order`** translates `struct Order` into operators on a record. A Rust method that
returns `Result` returns `[o, ok]`; an error keeps what had been changed before the `?`.
`compute`, `set_state` and the handlers call one another; since the calls only go forward
through the state machine they are unrolled (`Rest`, `HandleX`, `Compute`), so the
module has no recursion and can be proved about. Prices count trailing steps.
**`Trade`** does the same for `struct Trade`: `Lifecycle`, `ComputeTrade`, `Arbitrate`
between exit and stoploss, and each `confirm_*` an event or a result reaches.

**`TradeExchange`** is the state machine: one long trade, `requests` and `results` (sets:
each is matched by its instruction id), the orders `ex` of the exchange, the order events
`events` in the order they were emitted, `held` (bought less sold) and `up` (the coin
worker lives). Actions: `TraderCompute`, `StrategyCall`, `PerformRequest`, `ExchangeActs`
(fills, cancellations and expiries), `HandleEvent`, `HandleResult`, `PriceMoves`. Every
handler ends with the trader's own pass (`Settle`), as the worker loop does. The exchange
here is any exchange: it may fill or refuse at any time, and fill the orders of
`PartialFills` in parts. `Routers` says who applies events
(the trader's `handle_order_event` or the rejection path of `exchange_client_worker.rs`),
`ExitOnError` whether an error ends the coin worker (playground) or is logged (`context.rs`).

**`OrderWire`** follows one order through its forms, to either exchange and back: draft,
instruction, generic instruction, request, order at the exchange, event, normalized event,
and the lookup by the id the event carries. It uses **`SmartId`** (packing and reading ids,
with the widths as parameters) and **`Appraiser`** (filters, rounding, validation).

**`Simulator`** is the simulated exchange with its two kinds of ids. A request is served,
then there is a tick; a tick computes every order against the new price, takes the ended
ones out, opens their replacements, cancels the other legs and announces the events.
`feed`, `fate` and `root` are history variables. **`OrderLives`** is the abstract
specification: an order opens once, ends at most once, and what is announced of it is
what happened; `KeepsThePromise` says that `Simulator` implements it.

### Around the trader

**`TraderGate`**: threads that ask `can_create_order` under the read lock and enter the
order under the write lock, with the two cooldowns. **`Triggers`**: each kind of trigger
as a record, checked with a price now and then while time passes, reset, and cloned; what
the constructors refuse, such as a proximity of 0 or 1, is no trigger.
**`Account`**: the loop over the user stream; fills move the position (fractions, so that
the average is exact), balances are set in two lockings, and a reader may come between.
**`PlotActions`**: the action in progress, the clicks that set a trade's prices, the keys,
Escape and the dialog; `Confirm` and `CreateFromTemplate` lead to `create_trade`.
**`ExchangeClient`**, **`RateLimiter`** and **`Semaphore`** (a mutex and a condition
variable, with spurious wakeups and with later threads overtaking woken ones) are as
their names say. **`Generator`** ticks candles into series of `CandleSeries`.

### Market data

**`BoundedLog`** is what a window of the last values promises; **`SlidingWindow`** is the
ring buffer with head, size and index arithmetic, and implements it (`WindowIsLog`).
**`CandleSeries`** keeps its candles in such a log; the exchange's klines and trades arrive
each in order, but a trade may overtake the kline that closes the candle before it. A
series of the exchange's own frame first takes the candles of the database, `due` of them
one by one (`LoadCandle`). The values of the indicators are left out, but not which candles
they were made from: `ema_3` and `ema_21` start from the two oldest candles, all others from
the first alone, and the second of the two never comes to those (`fed.pair`, `fed.alone`).
**`CandleStore`** has one fetch automaton per thread (begin, answer or failure, mark the
newest, store row by row, finish), the worker's stages, restarts at any step and the
commands that roll back, reset and repair. The table of a frame is a function from the
numbers of its candles, and a row holds as many ticks of its candle as had passed. A fetch
is a list of jobs; the frames that have candles when `fetch_initial` counts them are
passed over (`"known"`). The roll-back runs a thread for each frame, and each of them rolls
back the whole coin (`RollbackCoin`, `ThreadRollsBack`) or fails: the newest time is read into
a type that takes neither an empty table's NULL nor, as the driver may have it, a time with a
zone, which panics (`RollbackFails`).
**`TimeSet`** has operators only: from the configured frames it makes those a worker loads,
and their order, which are the frames of `CandleStore`.
**`OrderBook`** takes a depth (`OrderBook::new`, which enters it with `update_diff`) and the
snapshots, in any order, and suggests prices.

### For TLC and for the proofs

`MCTradeExchange` and `MCSimulator` instantiate the large modules. `MCWorkers` (the
simulated exchange, the limits, the semaphore: what has liveness) and `MCParts` (all other
parts) put parts side by side that never write what another one reads. A variable `focus`,
chosen at the start from `Focuses`, says which part moves; the others stay as they begin.
The states of the run are so the sum, not the product, of those of the parts, and every
property is still about the composed specification. Between parts that do interact
there is no such cut: the orders, the trade, the channels and the exchange are one state
machine, and so are wire, ids and appraiser, or the store's threads, commands and database.

`OrderProofs`, `TradeProofs`, `TradeExchangeProofs` and `TradeBookProofs` (the orders, the
trade, the system, and what of it is on the exchange's book), `SimulatorProofs`,
`SemaphoreProofs`, `MarketProofs` (the window, the order book, the stored candles and the
series) and `AccountProofs` (the client, the gate, the limiter, the account, the triggers,
the plot, the generator and the ids) hold the proofs.

## The runs

| Run | Property | What it says |
|---|---|---|
| `trade_faults` | `InFlightMatchesSlot` | a Running instruction is exactly what is under way for it |
| | `BookAgreement` | once all is applied, the trader's view of the book is the exchange's |
| | `NoDoubleCreate` | never two orders on the book, or asked for, for one |
| | `ClosedIsQuiet` | a trade closes with nothing on the book or under way |
| | `FinishedIsFinal` | no step revives a finished order |
| | `RunningIsAnswered` (liveness) | each instruction is answered |
| `trade_trailing` | `TypeOK`, `StopNeverRetreats` | types; a trailing stop never falls |
| | `OneWayOut`, `OffersWhatItHolds` | exit and stoploss never stand together; they offer only what is held |
| `trade_resume` | `NeverOversold`, `TerminatedOpensNothing` | however often orders are idled and resumed |
| `workers` | `FoundByClientId` | every order kept is found under its client's id |
| | `KeepsThePromise` | refinement of `OrderLives` |
| | `CancelledIsAnnounced` (liveness) | a cancellation is announced in the end |
| | `GrantsBounded`, `AllGranted` (liveness) | no limit is exceeded in any stretch of time; each call returns |
| | `NeverTooMany`, `NoLostWakeup`, `AllServed` (liveness) | the semaphore for six threads and three permits |
| `sim_pairs` | `ExecutedOnce`, `OtherLegIsOut` | one leg of a pair is filled; what ends one leg takes the other out |
| `parts` | `CandlesInOrder`, `IndicatorsFollow` | the series stays in order whatever overtakes what; the indicators took closed candles only, each at most once, and missed none but the one they always miss |
| | `RowsAreSound`, `LoadedIsCurrent` | rows have no gap and no half candle, wherever a download stops; what is loaded is current |
| | `BookIsNewest`, `NeverCrosses` | the book shows its newest update; no suggestion crosses the spread |
| | `WindowIsLog` | refinement of `BoundedLog` |
| | `ExecutedInOrder` | instructions are served in the order they were sent |
| | `FiresForCause` | a trigger fires for its cause and never without it |
| | `OrdersWithinLimits` | how far several threads may pass the limits, and no further |
| | `BooksBalance`, `ReadsAreRecent` | the books balance to the last fraction; what may be read between two halves of an update |
| | `GeneratorKeepsUp` | the candles of each frame adjoin and are drawn in order |
| | `TradesStandInOrder` | the orders of a trade fit each other |
| | `ArrivesAsMeant` | trader and exchange mean the same order |
| `trade_standoff` | `StopMakesWay` | **violated**, see below |
| `sim_panic` | `ComputeNeverFails` | **violated** |
| `store_stale` | `LoadedIsCurrent` with `recent_candles_only` | **violated** |
| `plot_biased` | `PlotIsReleased` | **violated** |
| `trigger_due` | `FiresWhenDue` | **violated** |
| `generator_endless` | `GenerationEnds` (liveness) | **violated** |

The six violated ones are findings:

- *Standoff.* A stoploss that waits to be sent is "reverted to Idle", which at once asks
  to open it again (`order.rs:2056`); the exit waits for it for ever and the stoploss is
  never sent, where the comments say that it will not start at all.
- *Panic.* The two legs of a pair can end in one tick, and cancelling a leg that is gone
  makes `compute` fail (`simulator.rs:782`): the tick's events are lost and the simulator's
  thread ends. No instruction the trader builds today leads to a pair; pairs come through
  the request channel only. (With a plain StopLoss leg, which fills at any price, both legs
  may fill in that tick; `sim_pairs` has stop-limit legs only.)
- *Stale.* With `recent_candles_only`, the setting of `src/config.toml`, rows stored by an
  earlier run are never brought up to date (`candle_manager.rs:508`), and a coin worker
  starts on them.
- *Biased.* Escape ends a bias of the price and returns at once (`playground_app.rs:1207`);
  the arm that clears the bias of a cancelled action comes later and is never reached, and
  the simulated price goes on being drawn to the target. The comment at line 1230 wants the
  bias cleared.
- *Due.* A proximity trigger says nothing of the first price it sees
  (`trigger_proximity.rs:40`), where three tests of its own file assert that the first check
  fires (lines 92, 102, 113). `FiresWhenDue` asks for two more things that do not hold and
  would each violate it alone: a price that jumps far past the target fires (the code's test
  for a crossing notices the way back only); and a price that stays out of the normal zone
  for the delay fires (`trigger_delayed_zone.rs:94`, "start the clock if it's not running": a
  clock that was paused by an earlier return is never resumed).
- *Endless.* `generate_candles` waits for the base series to grow by what it was asked for
  (`simulator_generator.rs:683`), and a full series does not grow. The test of the same file
  asks the default generator, which keeps 1000 candles, for 10000 (line 897). The playground
  starts with just its capacity (`main.rs:621`), which is the most that ends, but its request
  channel takes any number (`playground_context.rs:497`).

One more disagreement was met and has no run of its own: `push_candle` returns for a candle
that opens no later than the working one before it comes to the branch that would merge the
two (`candle_series.rs:988`), so that a later snapshot of the working candle is dropped, where
the test expects it to be merged (`candle_series.rs:1452`). `TakeOwn` is modelled without
that branch.

### What the code does that a property had to allow for

Not findings, since nothing in the repository says otherwise, but a reader of the
properties should know:

- The result of an order whose trade was dropped, or that belongs to no trade, finds
  nothing; a fill of an order without a trade is ignored, under a FIXME in `trader.rs`.
- `set_state` accepts no step to Expired or Rejected from most states, nor one from
  PendingCancel to Filled. `Order` has the table as it is, and an expiry leaves the order
  as if it stood (`ArrivesAsMeant` says so).
- The priorities of the real client never take effect: its heap is empty between two
  steps, which `AccountProofs` proves. `compute` does not call the rate limiter.
- A cancellation sent to Binance names the order by its new client id, and
  cancel-and-replace is not supported there: the order waits for a replacement.
- Two threads can pass `max_orders` together, and a cooldown lets in one more order than
  it has uses. `OrdersWithinLimits` states the bound that does hold.
- A free amount may be read with the locked amount of the report before: `ReadsAreRecent`
  bounds the age of what is read and does not exclude that. `BooksBalance` holds until more
  is sold than is held, so a sale that is applied before its purchase is excepted.
- The exit and the stoploss offer what the entry bought and are never told what the other
  one has sold (`trade.rs:1385`, and the TODO at `trade.rs:1006`). Where a part of one was
  filled before the other takes its place, a trade offers, and may sell, more than it holds:
  `OffersWhatItHolds` and `NeverOversold` are for exchanges that fill these two whole.
- The sleep of a rate limit is under the mutex all limits share: they hold each other up,
  but none for ever.
- Klines are processed one push late, the trade that closes a candle is in neither
  candle, `get_candle(1)` passes over the newest closed one, and the true range takes each
  candle twice. The indicators other than `ema_3` and `ema_21` never take the second candle
  they could. The generator's rotating tick is in no candle, and its other frames stop
  rotating once the base series is full.
- The builder checks the market only at the entry's click, and puts the limit of a short
  trade's stop below it. Templates make no short trades, since their stop is always a sale.
- Two threads that download the same frame together may leave a gap (`shared` in
  `CandleStore` excludes that frame).

### Bounds, and why they are enough

- *One trade, three orders.* Trades of a trader share nothing but the list and the
  channels; results and events carry the trade's and the order's id, which `OrderWire`
  and the proofs about `SmartId` look at.
- `MaxRetries = 1`: one retry and its exhaustion. `MaxSeq` 1 or 2: a replacement, one of
  it, and the overflow at the bound (255 in `id.rs`), which fails in the same way.
- `IdPeriod` 2 or 3, where the code's ids never repeat: a slot whose instruction is not
  Running has nothing under way, which is proved for every period from 2 on.
- `Qty` 1 or 2, and `PartialFills`: in `trade_faults` two units filled in any parts of any
  order, in `trade_trailing` the entry in parts, in `trade_resume` and `trade_standoff` one
  unit. Prices 1 to 5 where the stop trails, so that it
  moves more than once and is overtaken.
- `events` is unbounded in the module but cannot grow. No state constraint is used.
- `Simulator`: three orders of any kind, so that a replacement is itself replaced; four for
  pairs, so that both legs are replaced or two pairs meet, and three prices, which put one
  between stop and limit. Client ids are symmetric in `sim_pairs` (no liveness there).
- `Capacity = 3`: the ring wraps at every slot; proved for every capacity.
- `SeriesCapacity = 4`, `MaxTicks = 11`, two ticks a candle: the series fills, forgets and
  starts to compute, with three trades a candle at most.
- `StoreFrames` has two frames of different length, `MaxClock = 5` and two ticks a candle:
  rows whole and open, downloads of several chunks. `MaxBreaks = 1`: a failed request,
  a crash or a command at every step of a download, one to a behaviour.
- `MaxUpdates = 2` snapshots of three levels (`MarketBooks`, in the cfg for `Books`) with
  walls on both sides and the best levels in every order.
- `TriggerPrices` of three values, `Delay = 1`, `MaxChecks = 3` between two resets and
  `MaxWait = 4`: a price leaves a zone, stays, comes back and leaves again, before and after
  the delay. Ratios inside the range, on its ends and beyond it are offered; only the
  first make a trigger.
- `MaxInstructions = 4` with two priorities, three callers of three limits whose demand
  exceeds a bucket, three orders above two uses by two threads, `MaxEvents = 4` reports,
  `MaxGenTicks = 28` (the frame of factor 2 rotates several times, that of factor 3 once, since
  the base series then is full; `GeneratorKeepsUp` is proved for all), `MaxTrades = 1`
  (a trade depends on no other), ids of four handles, three sequence numbers and halves
  of two, so that each field overflows.
- `generator_endless` counts times from the head of a full series (`FromHead`), which the code
  only compares with one another, and drops what was drawn: its loop has finitely many
  states, and the counterexample is a cycle of ticks that goes on for ever, no bound reached.
  Thirty candles in a series of three are the test's ten thousand in a thousand.
- `SomeConfigs`, `SomeDrafts` and `SomeFilters` in `MCParts` are the trades and orders
  the app, the templates and the tests make, short ones, and some that are refused;
  the filters have a coarse and a fine tick.
- `CHECK_DEADLOCK FALSE` where the system really may stop: all orders ended, all ids
  used, a worker ended, all threads done, the bound of the clock reached.

### Fairness

`trade_faults` and `trade_standoff` assume weak fairness of the trader's pass, of the
client's handling of a request and of the worker's handling of events and results. The
code justifies it: each is a loop on a thread of its own that takes whatever is in its
channel (`recv`, or `recv_timeout` of 100 microseconds on each of the coin worker's two),
and the coin worker computes the trader after each candle, event and result. The exchange
and the strategy are not assumed to do anything. `workers` assumes, of the part in focus:
that the simulator worker goes on ticking, which waits at most a millisecond for a request;
that time passes and a thread that has a limit's answer goes on (`LimiterFairness`; nothing
is asked of the mutex, which may pass a thread over); that each thread at the semaphore gets
to run and the work between acquire and release ends. `generator_endless` assumes that the
loop of `generate_candles`, which is one thread, goes on.

## What is proved

For every value of the constants that satisfies the named assumptions:

- `TradeExchangeProofs!TypeCorrect` and `SlotMatchesInFlight`. They rest on lemmas that
  each operator of `Order` and `Trade` takes well-formed orders and trades to such
  (`OrderProofs`, `TradeProofs`), one lemma per method. The inductive invariant is `IInv ==
  TypeOK /\ InFlightMatchesSlot`; types are needed because the next instruction id is
  `(id + 1) % IdPeriod`. The argument: no method changes or clears an instruction that is
  Running except the confirmation of its own result; only the trader's pass makes a New one
  Running, and puts the request on the channel in the same step; the client turns the
  request into one result of the same id. Events never touch a Running slot.
- `TradeExchangeProofs!FinishedStaysFinished` (`FinishedIsFinal`) and
  `TerminatedStaysQuiet` (`TerminatedOpensNothing`), action properties from the same lemmas:
  each operator leaves a finished order finished, and no operator gives an order that was
  terminated another instruction to open.
- `TradeBookProofs`: `OneLegOnTheBook` (`OneWayOut`), `NoSecondCreate` (`NoDoubleCreate`),
  `ClosedLeavesNothing` (`ClosedIsQuiet`) and the action property `TrailsUpwards`
  (`StopNeverRetreats`), whether or not an error ends the worker. The
  trade does not see the book; it has to know enough of it by the states of its own orders,
  while requests, events and results are under way. The invariant `Book` says so in three
  parts, and none is inductive without the others. `Pipe` is the exchange's side: in which
  order the events of an order can come, and that an open request finds neither an order
  nor an event of one. `OrderLedger` is what the order's own state, number and flags say of
  what is under way for it: who waits to be opened, who has a replacement in the middle of
  its two events, whose failure is still to be reported, and where its stop stands: a
  replacement that is asked for is not below the stop the order has, and that is the one on
  the book until the replacement is there. `TradeBook` is what the trade makes
  of it: while the exit is chosen or out, the stoploss is dormant and not out, and the
  reverse; a trade that is closing, or is over, has nothing out and nothing to send that
  would come out. Every method of an order keeps its part (`Stays`, second half of
  `OrderProofs`), every method of a trade its part (`Minds`, in `TradeProofs`), and each
  step of the system the whole (`NextBook`, which also cites `IInv`).
- `TradeBookProofs!BookAgreed`: `BookAgreement`, under the hypothesis `ExitOnError`, which
  the playground's worker meets and its run has too. The worker of `context.rs` logs an error
  and goes on, after which the record and the book may differ. `BookAgreement` speaks only of
  the states where every event was applied; `Agreed` strengthens `Book` with what holds in
  between: an order takes itself to be on the book exactly if the first event of it that is
  still on the way is one of an order that was there (a fill or an end), or, if there is
  none, the order is there. A handler that reports no error moves the order past that event
  (`Follows`); one that reports an error ends the worker.
- `TradeBookProofs!OffersOnlyHoldings` (`OffersWhatItHolds`) and `SellsNoMoreThanBought`
  (`NeverOversold`), under `ExitOnError` and `PartialFills \subseteq {"entry"}`. Without the
  second they are false (see above); without the first the record and the book may differ,
  and only TLC checks `NeverOversold`, in `trade_resume`. The invariant `Held` extends
  `Agreed` with amounts. `Backed` is the exchange's part: at least as much is held as the
  entry bought less what was sold, and an exit is asked for, on the book or filled only for
  what was bought, and only one of the two ways out. `Holding` is the trade's part: an entry
  that is finished otherwise than by a cancellation has bought what the exits are for; the
  exits take their quantity from fills that were told; and the trade knows of a leg that was
  filled, or is still to be told.
- `SimulatorProofs`: `FoundAlways` (`FoundByClientId`), `NoFamilyFilledTwice`
  (`ExecutedOnce`), `OtherLegGoes` (`OtherLegIsOut`) and `PromiseKept`, that `Simulator`
  implements `OrderLives`. The inductive invariant has a part for each way the proof of the
  others fails without it: `Numbered` (what is not there yet has no history), `Found` (the
  map of the clients' ids and the book are inverse), `AllTold` (what was announced of an
  order and what its `news` still holds is what has become of it; the refinement rests on
  it), `Embeds` (a replacement waits in one order only, from the request to the tick, and
  its numbers are in no other use), `Rests` (between a tick and the next request only other
  legs are cancelled), `Pairs` (a leg that is open has its other leg beside it, and the two
  prices exclude each other) and `Families` (two orders of one family may both still be
  filled only as the legs of a pair, and none once one was). Where the tick finds its errors
  the thread ends, so all but the types and `ExecutedOnce` is claimed of a living worker.
  `NoFamilyFilledTwice` has the hypothesis `OcoStops \subseteq {"StopLossLimit"}`, which the
  run has too: a plain StopLoss leg fills at any price, and both legs of a pair may be filled
  in the tick that ends the thread. `NoFamilyFilledTwiceAlive` needs no hypothesis.
- `AccountProofs`. `InstructionsInOrder` and `WorkerNeverPanics` of the client: served and
  waiting instructions together are those sent, in order, and the heap is empty between two
  steps; that is why priorities change nothing. `LimitsHold` (`GrantsBounded`): what a limit
  let through in a stretch of time is still in its bucket, less what has dripped out since,
  for stretches of every length at once (`LimiterIInv`). `GateHoldsLimits`
  (`OrdersWithinLimits`): orders and threads let through together stay below the limit and
  the number of threads, and a door that is open has let in no more than its uses taken, and
  the one that opened it (`DoorIsKept`). `ReadsRecent`: the sheet is the last report or,
  between the two lockings, one half of it and one of the report before.
  `BooksAlwaysBalance` (`BooksBalance`): the equation is inductive with the types of the
  position; the model keeps fractions in lowest terms, and lemmas about each operation on
  them (`Reduces`, `PlusRatio`, `TimesRatio`, ...) turn it into one about integers over a
  common denominator. `TriggersFireForCause`: for each kind of trigger, what its fields say
  of the prices it has seen and of their ages; a zone's clock, that the price left the normal
  zone so long ago and, if it is reset, has not come back. That what should fire does fire is
  part of it where it is true; where not, see `trigger_due`. `TradesMadeInOrder`: the prices
  clicked so far stand in order, and rounding to a tick keeps order (`TicksInOrder`).
- `AccountProofs!GeneratorStaysUp` (`GeneratorKeepsUp`). A push takes the candle of the push
  before, so a candle of the generator is in one of three states between two ticks
  (`Between`): it is open and waits to be pushed once more (`Waits`), it is closed at the
  head and its successor waits (`Turns`), or it was pushed and its successor still waits
  (`Turned`, in the base frame only, where a candle opens after its predecessor closes; in
  the others it opens as it closes, and replaces it at once). Each rotation leads from one to
  the next whenever it comes, so nothing depends on which ticks rotate a frame; the
  drawing repeats a candle once for each state (`Drawn`). `compute` leaves the candles as
  they are (`GenComputeIs`).
- `SemaphoreProofs`: `SemaphoreTypeCorrect`, `SemaphoreBounds`, `SemaphoreWakes`. Neither
  property is inductive alone; `PermitsConserved` (permits left plus threads inside are
  all the permits) is added. A step is counted by the one thread it moves.
- `MarketProofs`, of the window: `WindowTyped`, `WindowIsFilled` (what the `unwrap_unchecked` of
  the iterators rests on) from `WindowIInv`, that the slots in use are exactly the `size`
  ones from `head`; `ReadersOfWindowAgree`, that forward, backward, indexed and end reads
  are of one sequence; and the refinement `WindowImplementsLog`: a push that overwrites,
  one that does not, and a pop map to the steps of `BoundedLog`.
- `MarketProofs`, of the order book: `BookShowsNewest` (`BookIsNewest`) and `SuggestionsRest`
  (`NeverCrosses`), for books of any depth. `BookIInv`: once a snapshot came after the depth
  that was asked for, the book is that snapshot level by level. `BookAssumption` says what a
  snapshot is: `BookSize` levels a side, in order, and the sides apart. That there is a
  largest level (`LargestIsThere`) is by induction over positions; a wall is a level, a price
  before a level is no better than the next one, and so none passes the best.
- `MarketProofs`, of the store: `RowsStaySound` (`RowsAreSound`). The inductive invariant
  `StoreInv` says that a fetcher between the begin and the end of a job is the only one that
  writes to the job's frame, unless two download it at once (`Alone`); that its batch is in
  order and goes on where the rows end, with the newest of them again or, when that one is
  whole, after it (`AtItsJob`); that a frame a job downloads for the first time is empty until
  then and comes before its update (`JobsInOrder`), which needs that `fetch_initial` counts
  the rows before it starts; and that no row lies in the future (`InThePast`). Failures and stops
  may come between any two rows; a roll-back cuts a frame at a time, which leaves no gap.
- `MarketProofs!LoadsUpToDate` (`LoadedIsCurrent`), under `~RecentOnly`; `store_stale` shows
  that it is false otherwise. `LoadedInv`: the worker's own fetch ends with the update of
  the frame it loads next, a full batch is followed by a request from its newest candle, and
  one that is not full reaches the moment the worker asked (`Updates`, `Reaches`). It rests
  on `StoreInv`, and on nobody deleting rows while a worker loads.
- `MarketProofs`, of the series: `CandlesStayInOrder` (`CandlesInOrder`) and
  `IndicatorsStayWithCandles` (`IndicatorsFollow`). Candles open at multiples of `BaseTicks`
  (`Starts`), so that one that opens no earlier than another closes opens after it
  (`SpanIs`): the test `c.open < LastFinalized(s).close`, with which `push_candle` turns away
  what is old, is enough although it compares an opening with a closing. `SeriesIInv` has
  three parts. `Shape`: the candles are in line, the working one comes after them, the copy
  of it that aggregation keeps has its times, and the candle that waits in `next` is one the
  exchange has sent by now; in the frame of the exchange no closed candle ends after the one
  that is open there begins. `Following`: what the indicators took is in order, holds every
  closed candle kept but, for those that start from one, the second, and nothing later.
  `compute` comes at the end of a push, so between the two a series is `Behind`: the newest closed candle is not taken yet. The
  argument is that every branch of `push_candle` and `apply_trade` that changes the candles
  leaves it `Behind`, and that `compute` takes `Behind` to `Following` (`ComputeFollows`).
  That two candles are kept at least is needed: the indicators start from the two oldest.
- `AccountProofs`, about ids: `NewIdsAreRead` and `ReplacementsAreFound`, about the
  operators: packing is division with remainder, and unique for any widths.

Assumptions: those named in the modules. TLC evaluates them, and those of the modules
without proofs, in every run that extends them.

Model-checked only, on the instances above:

- Liveness (`RunningIsAnswered`, `CancelledIsAnnounced`, `AllServed`, `AllGranted`): fairness
  and ENABLED are out of the prover's reach.
- `ArrivesAsMeant`: quotients and remainders of products of two variables, beyond the
  solver.
- `NeverOversold` where errors are logged (`trade_resume`), as said above.

The library's induction theorems have an operator as parameter and cannot be used. Where a
proof needs the least number of a set, or counts a finite set, it goes through the
well-foundedness of the numbers (`LeastNumber`) and an induction stated over sets of numbers
(`SetInduction`), which take no operator.

## What is not modelled

- *Commented out in the source:* `roundtrip.rs` (the older trade machine, replaced by
  `trade.rs`), `orderbook_ext.rs`, `plot_action_limit_order.rs`, most of
  `plot_action_roundtrip.rs`, and the jobs of `command_update_all`, the only user of the
  semaphore.
- *Unimplemented or called by nothing:* special instructions, OCO variants and the timeout
  of `order.rs`, the deltas of the order book, the three ways to index a set of frames (two of
  which read the month's slot for the week, `timeset.rs:76` and `105`), the notify methods of
  the client, several accumulators of `position.rs`, `expire` and `reject` of the simulator, the wait group
  (private, used by its own test). `process_balance_update` is a panic and modelled as one.
- *Numeric, without state that decides on orders in this version:* the values of the
  indicators and patterns (`state_*.rs`, `pattern.rs`, ...), the random walk of the
  generator, openers and closers, profit figures. When indicators take a candle is modelled.
- *Input and output:* drawing, formatting, progress bars, parsing of the command line,
  SQL, HTTP and websockets. The records of `model.rs` are declarations.
- *Abstracted:* several trades at once, quantities in the simulator (orders fill whole),
  the manager's wiring of channels, rounding errors of binary fractions.

The component list in `PROJECT.json` says for each part what of it is left out.

## Plan

1. *(done)* `Order`, `Trade`, `TradeExchange`; `Simulator` with `OrderLives`; `Semaphore`;
   their runs and the first theorems.
2. *(done)* The real client, the limits, the account, the gate, triggers, ids and wire,
   the generator, the plot; market data in memory and on disk; the proofs about the
   window, the ids and the real client.
3. *(done)* `SimulatorProofs` with the refinement of `OrderLives`; the proofs about gate,
   account, triggers and plot; `TerminatedStaysQuiet`; `TradeBookProofs`.
4. *(done)* `StopNeverRetreats` and `BookAgreement`, from a stronger `Book`; from them, with
   amounts, `NeverOversold` and `OffersWhatItHolds`; the limits, the books of the account,
   the order book, the store (`RowsAreSound`, `LoadedIsCurrent`) and the series
   (`CandlesInOrder`, `IndicatorsFollow`), and the generator (`GeneratorKeepsUp`).
5. `PlaygroundExchange`: `TradeExchange` composed with `Simulator` in place of its free
   exchange, and the free exchange as its abstraction.
