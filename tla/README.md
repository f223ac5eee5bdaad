# A formal model of StratForge

StratForge is a header-only C++23 engine for backtesting and running trading
strategies. This directory holds TLA+ models of the parts of it that carry state
from one bar to the next, the TLC configurations that check them on small
instances, and theorems about them proved with TLAPS. Paths below are relative to
`include/stratforge/` unless they begin with `src/`, `tests/` or `examples/`.

## 1. The system

### Parts, state and operations

| Part | State it keeps | Operations | Modelled in |
|---|---|---|---|
| `BackBroker`, orders (`broker/broker.hpp`, `broker/order.hpp`) | every order twice (`pending_orders_`, `all_orders_`), a third copy during a bar (`still_pending`), OCO group counter, bar index | `buy`, `sell`, `buy_ext`, `sell_ext`, `buy_bracket`, `sell_bracket`, `cancel_order`, `close`, `next_oco_group`, `process_orders` | `Orders`, `Broker` |
| fill rules (same file) | `trail_stop_price` of an order | `try_fill_order` (pricing), `apply_slippage`, `update_trail_stop` | `FillRules` |
| ledger (`broker.hpp`, `position.hpp`, `trade.hpp`, `commission.hpp`) | `cash_` per currency, `positions_`, `open_trades_`, `closed_trades_` | `try_fill_order` (settlement), `Position::update`, `Trade::update`, `update_trades` | `Ledger`, `LedgerFills` |
| bar loop (`engine/cerebro.hpp`) | context cursors, delivered counts, advanced flags, warmup | `Cerebro::run` | `Cerebro` |
| calendar and aggregation (`data/interval.hpp`, `data/resampled_feed.hpp`) | none | `period_start`, `period_end`, `finer_than`, `ResampledFeed::preload` | `Interval` |
| strategy interface (`strategy/strategy.hpp`) | what the engine told it: delivered bars, flags, warmup requirements | `prenext`, `nextstart`, `next`, the order calls, `advance_indicators_for_bar` | free choices in `Broker` and `Cerebro` |
| signal evaluation (`evaluation/signal_evaluator.hpp`) | a second driver of the same strategies | `evaluate`, `evaluate_slice` | `SignalEvaluation` |
| aggregation (`data/resampler.hpp`, `data/replay.hpp`, `data/resampled_feed.hpp`) | an accumulator and the number of its bucket | the three `preload`s | `Aggregation` |
| live broker (`broker.hpp`, live half) | `live_trade_snapshots_`, the same orders and ledger | `submit_live_order`, `cancel_order`, `record_live_fill`, `apply_live_execution` | `LiveBroker` |
| live engine (`live/live_engine.hpp`) | gate, kill switch, rate window, peak value, reconnection count, `nextstart_fired_` | `start`, `stop`, the destructor, connector callbacks, `check_heartbeat`, `replace_strategy` | `LiveEngine` |
| corrective layer (`corrective/`) | candidates, outcomes, shadow positions | `on_pre_order`, `on_trade_closed`, `on_bar`, `on_stop`, drains | `CandidateCollector`, `Session` |
| increment streaming (`observers/increment_batcher.hpp`) | pending bars, trades, equity points, sequence number | `next`, `notify_trade`, `stop` | `IncrementBatcher`, `Session` |
| optimizer (`engine/optimizer.hpp`) | next grid index under a mutex, results | `generate_param_grid`, `run`, its workers | `ParamGrid`, `Optimizer` |
| backtest runner, indicators, statistics, SIMD, analyzers, feature builder, inference, CSV and JSON | numbers | pure computation or I/O | not modelled, see section 6 |

`PROJECT.json` lists every component with its files and the reason for its status.

### How the parts interact

A backtest runs on one thread. `Cerebro::run` loads the feeds, starts the
strategies, and for every bar of feed 0, the master feed,

1. delivers the context bars whose period has ended by the close of the master bar,
2. tells the strategies which feeds advanced and how many bars each delivered,
3. calls `process_orders`, which fills pending orders on the bar under each feed's
   cursor and calls `notify_order` and `notify_trade` from the middle of its loop,
4. calls each strategy, which reads the feeds and submits or cancels orders,
5. lets analyzers, observers and the corrective collector look at the bar.

The callbacks of step 3 run strategy code that may call straight back into the
broker. That is where the concurrency of a single-threaded engine comes from:
`process_orders` holds a reference into `pending_orders_`, has copied some orders to
`still_pending`, and reads one of two copies of each order.

In live mode the same broker sends orders to a connector and is driven by fills,
market data and connector states. They arrive on the connector's threads, one at a
time through a gate mutex, which `stop` holds too. The application starts, stops and
replaces the strategy; a timer thread calls `check_heartbeat`
(`live/live_engine.hpp:190`). `replace_strategy` and `check_heartbeat` do not take the
gate, so their steps fall between those of a callback, and those of the timer also
between those of `stop` and after it.

The corrective collector hangs on `pre_order_hook_` and on the trade notification, the
batcher is an observer, and both share the outcomes of a run: the batcher drains the
collector when it emits, and the collector's `on_stop` comes before the observers'.

The optimizer is the only part with worker threads of its own: each takes grid points
from a counter under a mutex and runs a whole `Cerebro` on clones of the feeds.

### Behaviours that are hard to test

`PROJECT.json` lists each at its line under "hazards". In short:

* **re-entrancy**: cancel or submit from inside a notification;
* **copies**: the two or three copies of an order drifting apart;
* **order within a bar**: OCO siblings and bracket legs triggered by one bar, the
  parent failing after its legs were looked at;
* **sequences of fills**: grow, shrink, close, reverse, on several currencies;
* **several clocks**: gaps, several context bars in one master bar or none in many,
  buckets of days, weeks and months, warmups over several feeds;
* **boundaries**: `valid_until_bar`, the trail level 0, slippage out of the bar,
  size 0, the last bar;
* **live**: reports that are cumulative, shared, repeated or given back, a fill after a
  cancel, a kill switch with orders in flight, threads outside the gate, a stop with
  callbacks under way;
* **streams**: batches cut by size, by time or by the end, a callback that throws, an
  outcome that comes long after its candidate;
* **workers**: a counter and results shared by threads that start late and end early.

### What makes each part correct

* Orders: a status moves along the state machine of `order.hpp`, once; the copies
  agree between bars; no fill is early, late or past its limit; a group closes
  behind its first fill; legs follow their main order; a bar always ends.
* Fill rules: a fill price lies in the bar; a limit is a limit; a trail only tightens.
* Ledger: one open trade for each open position, with its size and entry price;
  trade ids name one trade; money is conserved in every currency.
* Bar loop: strategies know of a context feed exactly the bars that have closed;
  they are called in order and when warm; their indicators have seen each bar once; an
  order fills on the next bar; the run ends.
* Signal evaluation: the signal of a bar is the one a backtest would have come to.
* Aggregation: three implementations make the same bars, and none is stamped early.
* Live: the account is what the reports say; the limits hold whenever no callback is
  inside; when the kill switch or `stop` has flattened, what is held has a closing order
  at the market; no callback gets through to a stopped engine.
* Corrective layer and stream: every bar, trade, candidate and outcome reaches the
  reader once and in order, a candidate before its outcome, and what became of an order
  that opened a trade or was rejected is told once.
* Optimizer: every point is run once, and `run` returns with all results.

## 2. Modules

```
Orders ── FillRules ──────────┐
   └───── Ledger ── LedgerFills ── MCLedger        Interval ── Cerebro ── SignalEvaluation ── MCCerebro
             │                │                        │           │
             ├──── Broker ────┘── MCBroker             │     AlignedClocks (abstract)
             │        │                                └── Aggregation ── MCAggregation
             │    OrderBook (abstract)
             └──── LiveBroker ── LiveEngine ── MCLive

CandidateCollector ── IncrementBatcher ── Session ── MCSession
ParamGrid ── Optimizer ── MCOptimizer
                 │
             GridSearch (abstract)

proofs:  FillProofs ─┬─ LedgerProofs     CerebroProofs (with SignalEvaluation)
                     ├─ BrokerProofs     AggregationProofs
                     └─ LiveProofs       SessionProofs    OptimizerProofs
```

A line in the picture is an EXTENDS; `Broker`, `Cerebro` and `Optimizer` take the
abstract modules with INSTANCE.

**Orders** is the order record and its status machine. `Move` is any of `submit`,
`accept`, `cancel`, `reject`, `expire`, `margin`, each a no-op on an order that is no
longer alive; `Execute` is `execute`.

**FillRules** is the switch of `try_fill_order` as operators: is the order triggered,
at what price, how slippage changes it, how a trailing level follows a bar.

**Ledger** is what a fill does to the account. `ApplyFill` moves cash and position and
takes one of the four branches of `update_trades`, one operator each: `OpenTrade`,
`GrowTrade`, `ShrinkTrade`, `ReverseTrade`. `LedgerFills` is the account alone under
any sequence of fills.

**Broker** is the order lifecycle. `orders` is `all_orders_`, `pending` is
`pending_orders_`, `still` is `still_pending`; `phase` and `cursor` say where
`process_orders` is. Between two steps of the model the code is between two bars, or
between two orders of the loop, or inside a notification, which are the only places
where anybody else can act. The branches of the loop body are one action each:

| Code (`broker.hpp`) | Action |
|---|---|
| 364 dead order | `SkipDead` |
| 366-370 held leg | `HoldChild` |
| 374-379 no such feed | `RejectFeed` |
| 381-385 feed without bars | `KeepUntilData` |
| 387-392 expiry | `Expire` |
| 394-397, 398-401 submit, accept | `Admit`, `AcceptOrder` |
| 762-767 stop without a price | `RejectUnpriced` |
| no fill, 407-409, 426 | `KeepUnfilled` (with the trail update) |
| 875-898 margin | `MarginCall` |
| 900-915 fill | `FillOrder` |
| 410-424 after a fill | `SettleOrder`, `CancelChild`, `ChildrenDone` |
| 430-442 OCO sweep | `LoopEnds`, `SweepCancel` |
| 443-447 end | `FinishBar` |
| a notification | `CallbackReturn`, `CallbackCancel`, `CallbackSubmit`, `CallbackReallocates` |

**OrderBook** is the abstract promise: orders by id move along the state machine, and
a position moves with an order if and when the order completes. `Broker` implements it
(`ImplementsOrderBook`) as long as nobody calls back into the broker.

**Interval** is the calendar: periods of minutes and days are floors, weeks begin on
Mondays, months where a constant says. `Buckets` is `ResampledFeed::preload`, reduced
to which base bars form a bucket.

**Cerebro** is `run`. `cursor`, `delivered` and `advanced` are its local vectors,
`index` is where each `DataFeed` stands, `known` what the strategies were told.
`DeliverContext` is one turn of the `while` of lines 340-357 and `NextFeed` its exit;
`CallNext`, `CallNextStart` and `CallPrenext` are the three branches of lines 374-404.

`BeginBar` clears the flags and counts a bar; `AdvanceIndicators` is
`advance_indicators_for_bar`, which the ready-made strategies call first thing in all
three methods.

**AlignedClocks** is the abstract promise of a multi-clock run: a whole master bar at a
time, and with it exactly the context bars that have ended by its close.

**SignalEvaluation** is the second driver, `SignalEvaluator`. A signal is what a strategy
can base it on, how often its indicators were advanced and which bar the cursor shows,
so two signals are equal when no strategy could tell them apart. It advances indicators
with `update_indicators()` where the engine calls `update_indicators(feed_index)`, whose
default forwards feed 0 to the former; `hook` says which of the two a strategy overrides,
and `UpdateIndicators` what the evaluator's call then does.

**Aggregation** runs the accumulator of `Resampler` and `DataReplay` over a source that
grows by a bar in every step. The third implementation, `ResampledFeed`, is `Buckets` of
`Interval`. `get_bucket` numbers the periods itself, from the weekday arithmetic and the
first of the month, where the calendar of `interval.hpp` asks `period_start`.

**LiveBroker** is the live half of the broker over the same `Ledger`: `Place` is
`submit_live_order`, `CancelLive` is `cancel_order`, `RecordFill` is `record_live_fill`
with `apply_live_execution`. The market is external: `MarketExecutes`, `MarketReports`,
`MarketUnwinds`. `DropFill` is a report that comes to a stopped engine.

**LiveEngine** puts it behind the gate. `gate` says what the callback inside does next, so
a callback is several steps: `HandleMarketData`, what the strategy does
(`StrategySubmits`, `StrategyCancels`), `Returns`, `EvaluateRisk`; or `HandleFill` and
`EvaluateRisk`; or it is "stop" while `stop` holds the gate. `app` and `timer` say what
the application and the timer thread are in the middle of, and `walk` which feed their
`flatten_positions` comes to next:

| Code (`live/live_engine.hpp`) | Action |
|---|---|
| `start` | `Start`, `Connected` |
| `stop` | `StopBegins`, `StopCloses` (one feed each), `StopReturns` |
| destructor | `Destroy` |
| `replace_strategy` | `ReplaceStrategy`, `ResetNextstart` |
| `check_heartbeat` | `HeartbeatStale`, `HeartbeatKills`, `HeartbeatCloses` (one feed each), `HeartbeatReturns` |
| `submit_order` of the wrapper, `check_order_rate` | `Sends`, `CheckOrderRate`; `WindowPasses` empties the window |
| one turn of `flatten_positions`, on the timer and in `stop` | `FlattensNext` |
| `trigger_kill_switch` with `flatten_positions`, in a callback | `TriggerKillSwitch`, within the step that trips it |
| `handle_connector_state`, `try_reconnect` | `HandleDisconnect` |
| a callback that finds the gate inactive | `DropReport`; market data then changes nothing |

**CandidateCollector** and **IncrementBatcher** are operators on their own variables;
**Session** composes them with a run of the engine on one feed: `process_orders` order by
order (`KeepOrder`, `DropOrder`, `FillOrder`), then the strategy through the hook
(`Propose`), then `Observers` and `CollectorBar`, and at the end `CollectorStop`,
`Strategy::stop`, which may still propose, and `ObserversStop`.

**ParamGrid** is `generate_param_grid` and, beside it, what the grid has to be said
without loops. **Optimizer** is `run`: the calling thread starts workers and joins them,
a worker locks, looks, bumps and unlocks, clones, runs its point and stores, one step
each. **GridSearch** is what a search promises whoever runs it, and `Optimizer`
implements it with `out` as `results` and `over` as having returned.

Definitions named `Op_Bug` are not part of any model. Each is `Op` with one plausible
mistake (a forgotten erase, a swapped comparison), kept beside it to show that the
property paired with it in `PROJECT.json` notices the mistake.

### Abstractions

* Prices, sizes and money are integers; the code computes in `double` with an epsilon
  of 1e-10. The weighted entry price and the split of a commission round down in the
  model. `MCLedger` uses prices that are multiples of 5040, so that every mean in its
  runs is exact and `CashIdentity` can be an equation, which `MoneyIsConserved` proves
  wherever means are exact. `MCBroker` does not check it.
* The broker's bar is `data_bar_index_ + 1`, with 0 before the first bar.
* `born` and `execBar` are history variables of an order, `called` one of a strategy.
  In `Cerebro`, an order remembers in `known` how many bars its strategy had seen.
* An order's symbol, candidate id and commission field, and wall-clock times of
  trades, are left out of `Broker`: nothing checked there depends on them. `Session` has
  the candidate ids.
* A notification allows one call into the broker; a cancel from inside a cancel's own
  notification is not nested further. `notify_trade`, which comes right before the
  `notify_order` of the same fill, is not a separate interleaving point.
* `pre_order_hook_` is a choice of sizes (or rejection) per leg for brackets. For a
  single order it only changes the size, or the order never exists, which is the same
  as a different choice of the strategy.
* `close` and the searches by data index assume one `Position` per feed, as
  `get_position` makes them.
* Venue schedules and the legacy commission are one `Fees` table; margin rules of the
  instruments are a per-unit part and a percentage.
* In `Cerebro` orders are market orders, and strategies submit from their lifecycle
  calls. Limit orders and submissions from notifications are the business of `Broker`,
  whose `StartBar` lets the feeds show anything.
* `TimeFrames` leaves out ticks, seconds and years, and the plans of `Cerebro` take from
  it `PeriodFrames`, without several weeks or months at a time: for all of these
  `period_start` and `period_end` throw.
* Releasing a leg happens in two places of the code, line 371 and
  `activate_bracket_children`; the model keeps both, although the second one is made
  redundant by the first.
* `LiveEngine` has `flatten_on_breach` set, as it is by default. A rate window is a count
  that `WindowPasses` empties. The executed price and the commission of a live order are
  not kept, for nothing reads them. A traded feed has a minimum period of at least one
  bar, because `portfolio_value` is `noexcept` and reads `close()[0]` of every feed with
  a position. A strategy submits in `nextstart` and `next` and may cancel its order from
  the Submitted or the Accepted notification. Symbols that come up during a session
  (`ensure_feed`) are left out. The application calls `replace_strategy` in a running
  session, but not while a call of the old strategy is running.
* The fields the timer thread shares with the others (`started_`, the kill switch,
  `flattening_`, positions, the order vectors) are plain, so every overlap of theirs is a
  data race in C++. The model reads and writes them one step at a time, which is the best
  case: one submission is a step, and so is the flattening of a callback. The timer's
  flattening and that of `stop` are a step for each feed, with everybody else's steps in
  between. `start` replaces the wrapper a heartbeat sends through, and the destructor the
  engine itself: the application is assumed to call neither with a heartbeat under way.
* The gate is a recursive mutex, so a connector could call back from inside its own
  `submit_order` or `connect`, in the middle of a callback. The market of the model does
  not; its reports come later, as from an exchange.
* The market reports cumulatively and in order. Executions may share a report and a
  report may be repeated, but the one that completes an order is sent once; an unwinding
  is reported by itself, once per order. A report that comes to a stopped engine is
  dropped, and `lost` remembers when that was an unwinding, which no later report makes
  up for.
* `Session` leaves open when an order fills or fails, which `Broker` decides, and takes
  proposals from the strategy's calls and `Strategy::stop`, not from `notify_order`.
  A throwing callback ends the run. Features, probabilities and money are left out: an
  outcome is whose it is, of which kind, after how many bars.
* `Aggregation` counts time in half minutes, with days of 12 and months of 96. Sources
  are in order of time and not older than 1970.
* The run of a grid point is one step whose result is its parameters; what strategies
  share between threads is their own affair. Results of a run that throws do not exist:
  the program has ended.

## 3. What is checked

All runs are full explorations of finite instances. `CHECK_DEADLOCK FALSE` is set
because runs end: the bounds are used up, `Cerebro` has stopped or refused the plan,
`Broker` has reached "undefined", or `run` of the optimizer has returned.

### Runs that hold

**ledger** (`MCLedger.cfg`, 18 777 states). Four fills of one or two lots at two
prices, on a legacy feed with a percentage commission with a minimum and on a margined
instrument in another currency with a fee per share. Four fills are enough to open, grow,
shrink, reverse and close on one feed while another is open. `TradesMatchPositions`,
`TradeIdsUnique`, `CashIdentity`.

**broker** (`MCBroker.cfg`, 1 802 148 states). Three orders out of a limit and a stop
that form an OCO pair, a limit valid for one bar, a trailing stop, a market order, a stop
without a price, or a bracket on either side with a main order within or beyond the cash,
whose legs the hook may resize or reject one by one; two bars out of a falling, a rising
and a high one, or none yet; slippage of one tick on market types. Two bars suffice for an
order to be kept, expire, be swept or trail; three orders for an OCO fill with a third
order in between and for a whole bracket. `TypeOK`, `CopiesAgree`, `OcoGroupClosed`,
`LimitsRespected`, `MarketOrdersDecided`, `TrailFollowsBar`, `LegsAfterMain`,
`NoOrphanAfterMargin`, `PositionIsCompletedOrders`, `ImplementsOrderBook`.

**reentrant** (`MCReentrant.cfg`, 126 500 states). Every notification may cancel any
order or submit another: a limit valid for one bar, a stop, or a market order on a feed
that does not exist. What survives: `FillsInTime`, also the expiry, `CompletedIsFinal`, and
`process_orders` returns (`BarEnds`; the undefined behaviour after a reallocation counts as
an end).

**multi_clock** (`MCCerebro.cfg`, 11 143 states). Days of 6 minutes and months of two
days; a master feed of 2-minute bars with every choice of gaps out of five bars; feed 1
aggregated from it into days, weeks or months; feed 2 a second instrument in lockstep or
with daily bars; two strategies with different warmups; also a plan with too fine a feed
and warmups beyond the data. The bars include two context bars that close within one
master bar, context bars that never close, and a week that ends inside the data.
`NoLookahead`, `IndicatorsKeepUp`, `EvaluatorAgrees`, `WarmupRespected`, `CallsInOrder`,
`LockstepFillsOnNextBar`, `RunEnds`, `ImplementsAlignedClocks`. `EvaluatorAgrees` takes
every slice around the current bar, for strategies that ask for the master feed only; its
part about indicators is for those that override `update_indicators()`.

**live** (`MCLive.cfg`, 1 012 731 states). Two feeds, the first of them traded; a position
limit of two lots, a drawdown of 20 %, one order per window, one reconnection; prices 12
and 24, whose means are whole numbers. Four sessions, each bounded by a record of
`Bounds` that `Init` chooses: one order of three lots that fills in parts at either price,
gives back and is canceled; two orders of both sides on one bar, and two on two bars, each
against the timer of `check_heartbeat`, with a stop at any moment of it; a session that is
stopped, started again and given another strategy.
One session with all of this at once is out of reach, and they meet only in what is
common to them: the gate, the kill switch and the closing orders, which each of them has.
An order of three lots passes the limit of two with its last part. One report is under way
at a time; as reports are cumulative, executions meanwhile are in the next one.
`BookFollowsReports`, `StatusFollowsReports`, `RiskLimitsHold`, `FlatteningIsComplete`,
`CleanNextstart`, `StoppedIsSilent`. `FlatteningIsComplete` is about the line that lets
closing orders pass the rate check while `flattening_` is set, although the closing orders
may themselves trip the switch, the switch may come on in the middle of a submission, and
the timer and `stop` clear each other's flag. A run without a rate limit would be the
easier case; the theorem has both.

**session** (`MCSession.cfg`, 187 604 states). Four bars, three proposals of one lot long
or two short, so that trades open, grow, shrink, close and reverse; rejected orders become
shadows that close after two bars or at the end; batches of two bars, cut early by the
clock, lost when the callback throws. `StreamIsComplete`, `SequenceIsClosed`,
`CandidateBeforeOutcome`, `DecidedHaveOneOutcome`.

**optimizer** (`MCOptimizer.cfg`, 97 821 states). Three threads, so that two may be at
the counter while a third runs a point, over grids of no, one, four and six points, one
with a name given twice, one with an empty range and one with a point that throws, with
feeds that can and cannot be cloned. `PointsAreOwned`, `ReturnsWholeProduct`,
`RunReturns`, `ImplementsGridSearch`.

**aggregation** (`MCAggregation.cfg`, 599 184 states). Every source of up to five bars
with gaps within an hour, over a night, a week and a month, of a rising and a falling
body, to each of eight targets. Two of them the calendar does not know, minutes that do
not divide the day (10 of 12) and two weeks; for these only `Resampler` and `DataReplay`
are compared. `AggregatorsAgree`, `StampsNeverEarly`.

### Runs that find a disagreement

Each checks one statement that a comment, document or test makes, and TLC shows a run
of the code that breaks it. The quotations are in `PROJECT.json` under "findings".

| Run | Statement | What the code does |
|---|---|---|
| resurrection | a terminal status is final | an order canceled from `notify_order` after it was copied to `still_pending` is alive again on the next bar |
| oco_both_fill | one cancels the other | a bar that reaches both orders of a group fills both |
| every_candidate | every candidate has exactly one outcome | a candidate whose order never fills, joins or closes another trade, or is placed in `Strategy::stop` has none |
| context_lookahead | a context bar is visible only after it has closed | before the first delivery the cursor is on bar 0, which is readable and fillable |

### Fairness

`Broker`: weak fairness of `ProcessOrders \/ CallbackReturn`. Once called,
`process_orders` and the callbacks run to their end on the engine's thread, so some step
of theirs is always taken; nothing forces the strategy to act or another bar to come.
`BarEnds` needs it.

`Cerebro`: weak fairness of `Next`. `run` is one loop on the caller's thread and
strategies return from their calls. `RunEnds` needs it.

`Optimizer`: weak fairness of the calling thread (`Launch \/ Join`) and of each worker's
`Step`: the operating system schedules every thread, and a backtest ends. The mutex need
not be fair, for a worker that is never let in finds the grid exhausted by the others.
`RunReturns` needs it.

`LiveEngine`, `Session` and `Aggregation` state no fairness: nothing obliges a market, a
data source or an application to go on.

## 4. What is proved

Every theorem is for all values of the constants: any feeds, fees, currencies, bars,
requests, plans, threads, limits and bounds. Where one has a hypothesis it is in its
statement and explained here. Eight modules hold the proofs, and what three of them need is
proved once, in `FillProofs`.

### What a fill is (`FillProofs`, `LedgerProofs`)

`FillsInsideBar` (without `slip_out`, a fill price is in the bar), `LimitIsALimit` (with
`slip_limit` off) and `TrailOnlyTightens` are case analyses over order types, sides and
flags.

`LedgerConsistent` and `LedgerIdsUnique` (`ASSUME 0 \notin Sizes`): `TradesMatchPositions`
and `TradeIdsUnique`. The inductive invariant `LedgerInv` adds nothing but the
conjunction with the types: `TradesMatchPositions` is what makes `FirstOn(d)`, a CHOOSE,
the one open trade of the feed, so that each branch of `update_trades` computes the same
size and price as `Position::update`. There is a lemma for each branch;
`FillKeepsLedger` puts them together for a fill at any commission, and the backtest and
the live broker both rest on it. The assumption is needed: a fill of size 0 opens a trade
that no later fill closes (see section 5).

The last part of the module is about sums. `SumFunctionOnSet` of the community modules is
a fold, a CHOOSE of the function that satisfies its recursion. `SumExists` shows that
there is one, by induction over the number of elements: the library's induction theorems
take an operator and cannot be cited, but a set of bad numbers has a least one
(`LeastNumber`, from `WFMin`), which is as good. `SumTake` then says that the order of
the elements does not matter, `SumGrows` and `SumMoves` what a new and a changed entry do.

`MoneyIsConserved` (`CashIdentity`) takes besides that there are finitely many feeds and
that `NoMeanRounds`: a fill that grows a position has a whole mean entry price. The code
has no such condition, since it computes the mean in floating point; the model rounds it
down, and a rounded mean is money that neither cash nor cost accounts for. The invariant is
`LedgerInv`, the identity itself and that there are finitely many trades. With `TotalCost`
and `TotalNet` for its two sums, each branch of `update_trades` must move the cost of the
position by what is paid and what the trades earn: to open, shrink, close and reverse is
exact at any price, to grow is `WholeMeanKeepsCost`. A reversal splits the commission by a
rounded share, but between them the two trades pay all of it. That currencies do not mix is
`MoneyMoves`: of all sums, only those of the feed's settlement currency change.

### The broker, whatever a callback does (`BrokerProofs`)

All of `ASSUME NoEmptyOrders`: no request and no hook gives an order of size 0.

`BrokerTyped`, `BrokerKeepsLedger`, `BrokerFillsInTime`, `BrokerRespectsLimits`: `TypeOK`,
`TradesMatchPositions`, `FillsInTime` and `LimitsRespected`, with any callbacks. None is
inductive. The invariant `IInv` says that all three vectors hold good orders (typed, in
time, within their limit), that each pending or still-pending order is a copy of the order
with its id (same birth, feed and expiry), that the cursor is on an order where the loop
holds a reference, that an order is only priced after the checks that precede pricing, and
`LedgerInv`. One lemma per action; `LoopStep` carries what the loop's actions share.

`FillsAreFinal`, `LegsFillAfterMain`, `TrailsFollowBars`: `CompletedIsFinal`,
`LegsAfterMain`, `TrailFollowsBar`, again with any callbacks. `BInv` adds to `IInv` that
the lists are in the order of submission (`Ordered`), that what is kept lies behind the
cursor (`Behind`), that the copies agree at least about fills (`FillsAgree`), that a leg is
transmitted only once its main order has filled (`LinksOK`), and that a trailing level was
brought up to the bar (`TrailsOK`). The broker has some 25 actions, but a step does one of
a few things to the lists: it touches one order, withdraws it, decides it, keeps it,
quietens it or pushes new ones. One set of lemmas shows of which kind each action is,
another what each kind keeps.

### The broker without calls from callbacks (`BrokerProofs`, part 2)

With `Callbacks = {}` besides. The properties are false otherwise: the run
`resurrection` and section 5 show what a call from `notify_order` does to the copies.

* `BothCopiesAgree` (`CopiesAgree`), `MarketOrdersAreDecided` (`MarketOrdersDecided`) and
  `GroupsClose` (`OcoGroupClosed`). `AInv` adds to `BInv` that the copies differ in
  `transmit` at most (`SameCopies`), that an order alive is still to be visited or has been
  kept (`Accounted`), where the order at the cursor is in its life (`StatusOK`), that
  market orders are decided (`MarketsOK`), and that `filledOco` holds the groups of this
  bar's fills (`GroupsOK`).
* `NoOrphanIsLeft` (`NoOrphanAfterMargin`), if brackets name feeds of the run
  (`BracketsOnFeeds`): the rejection of an unknown feed does not cancel the legs
  (`broker.hpp:289`, a hazard of its own). It watches the failed main order, which stays at
  the cursor until its legs are canceled.
* `BrokerIsAnOrderBook`: `ImplementsOrderBook`. Each step turns at most one order, along
  the status machine (`Advances`) or not at all (`Calm`), or pushes new ones (`Pushes`), and
  these are steps or stutters of `OrderBook`; `FillOrder` is its `Complete`.
* `PositionsAreFills` (`PositionIsCompletedOrders`): at every moment, also in the middle
  of a bar, a position is the sum of the orders that say Completed. The same
  classification of steps shows that only `FillOrder` moves either side, and `SumGrows`
  that it moves both by the order's size.

### The bar loop (`CerebroProofs`)

Of hypotheses, `FeedsSorted` says that every feed is in order of time, as one loaded from
a file in that order is (`Cerebro::run` does not check it), and `MonthsGoOn` that every
month has a successor. No finite set of months satisfies the latter, so the runs do not
either; their plans end before their months do.

* `NeverLooksAhead` (`TypeOK` and `NoLookahead`), for which the master feed alone need be
  sorted. The invariant ties the three cursors of a context feed together (`cursor =
  delivered`, `index` one behind it or both at 0) and says that the last delivered bar has
  ended by the close of the current master bar. That it still has one master bar later is
  `ClosedStaysClosed`, which rests on `CalendarGrows`: `PeriodEnd` is monotone, for weeks
  by arithmetic modulo 7 and for months by minimality.
* `ClocksAreAligned` (`ImplementsAlignedClocks`) is the converse, that nothing is held
  back: `DeliveryOK` says, for each moment of the loop, up to which close each feed has
  delivered all it has, and `KnownOK` what of that the strategies were told.
* `WarmupIsRespected` (`WarmupRespected`) with `WarmupOK`, and `IndicatorsKeepPace`
  (`IndicatorsKeepUp`) with `UpdatesOK`, which counts the master bars that brought
  something new of a feed.
* `LockstepFillsNext` (`LockstepFillsOnNextBar`) with `OrdersOK`. It needs `MasterApart`,
  that a master bar closes after its predecessor has: two that close together would let an
  order fill on the bar its strategy had seen. The plans of the runs satisfy it.
* `CallsOrdered` (`CallsInOrder`), without hypotheses: `CallsInv` says that `entered`
  tells whether a strategy has had its `nextstart`.

### The live engine (`LiveProofs`)

Without hypotheses, but for `BookFollows`: for any market as section 2 describes it, any
limits, requests and timing of the connector, the application and the timer thread.

* `StopSilences` (`StoppedIsSilent`), from `ControlInv`: somebody is inside the gate, or
  the application in the middle of an operation, only while the gate is active. The timer
  is not so bound; `LateClosing` shows that all it can still do is to place a closing
  order, at its turn of `flatten_positions`.
* `RiskIsLimited` (`RiskLimitsHold`): all that `RiskInv` adds is that the gate is free or
  held by `stop`, since every callback that moves the account leaves through `EvaluateRisk`
  and no other step moves it.
* `FlatteningCovers` (`FlatteningIsComplete`). `CoverInv` says of each flattening under way
  that the feeds it has passed are covered: `KilledCover` of the one behind the kill switch,
  wherever it was tripped, `StopCover` of that of `stop`, and `StoppedCover` of what a
  stopped engine holds. A feed stays covered because its position is still and orders at the
  market stay there, and `moved` takes out those that have moved. It needs that a closing
  order is let through, for which either `flattening_` is still set or the switch is still
  off; `crossed` marks the one case where the timer has cleared the flag under `stop`.
* `EveryStartIsClean` (`CleanNextstart`): `CallsInv` ties `nextstart_fired_` to the calls
  the strategy has had, and allows for the replacement in between.
* `StatusFollows` (`StatusFollowsReports`), also of a stopped engine that drops reports.
  `ReportsInv` says that a snapshot is the last report until that is terminal, and that the
  market has then no more to say: it neither has a report of the order under way nor will
  send one (`told`, `Finished`). That is where the model's market is kinder than a real one
  may be: a duplicate of a terminal report would be applied in full (section 5).
* `PositionsFollow` and `TradesFollow`: every position is the sum of the last reports of
  its orders, however these were split, repeated or dropped (`PositionsFollowReports`, the
  first half of `BookFollowsReports`), and `TradesMatchPositions` holds of the live account
  too. `BookSteps` says that a step books a report, cancels, places, or leaves the account
  alone; for a report, `ReportsInv` gives that the difference `record_live_fill` takes is
  the one to the last report of that order, and `SumMoves` and `FillKeepsLedger` do the
  rest.
* `BookFollows` (`BookFollowsReports`): so is the cash what the last reports cost, if prices
  are positive (`record_live_fill` takes an exit price of 0 for none) and `NoReportRounds`:
  the mean price of what a report adds to a growing order is whole. The price of a
  difference is worked out from two reports, in one of four ways, so the proof has to know
  how a report comes out of the one before it. `TrackInv` says that, from what was last
  heard of an order to the report under way and from there to what the market has, the order
  has grown (`Grew`) or given lots back once, by itself (`Unwound`). Growth is transitive
  (`GrewOn`), which is why reports of it may be dropped; an unwinding is not, which is why
  `lost` remembers one. `GrowthPays`, `UnwindingPays` and `FirstPays` then show that the
  price, times the difference, is the difference of what the reports cost, for an unwinding
  without any condition on its price.

### The signal evaluator (`CerebroProofs`)

`EvaluatorIsCerebro` (`EvaluatorAgrees`), with `FeedsSorted` and `MonthsGoOn`. The signals of
`evaluate_slice` are the last value of a recursive function over all bars. `SliceIsHeard`
gives its closed form: after `i` bars there have been `i` updates, the cursor is on the
next bar, and bar `i` of the slice has the signal of `i` updates or the neutral one; for a
strategy that overrides the overload with a feed index there have been none, and the
theorem then speaks of the bar only. On
the engine's side `IndicatorsKeepPace` and `WarmupIsRespected` say what the strategy has
just come to on that bar, once it has been called (`CalledOK`).

### Aggregation (`AggregationProofs`)

`AggregatorsDoAgree` (`AggregatorsAgree`) and, with `MonthsGoOn`, `StampsAreNeverEarly`
(`StampsNeverEarly`), for any targets, bodies, gaps of whole minutes and number of bars.

* `SameBucket`: two bars are in one bucket of `get_bucket`, by day and part of the day, if
  and only if they are in one period of the calendar, by absolute time. For minutes this
  takes that a day has whole periods (`Canonical`), which the calendar and `ResampledFeed`
  ask for; for days that dividing twice is dividing by the product.
* `StampAfter` and `StampBefore`: a stamp is after the last source bar of its period and
  not after the first one of the next. That the end of a day is after its last bar takes
  that bars are on whole minutes, since it stands for 23:59:59. With `CalendarGrows` the
  rest of `StampsNeverEarly` follows.
* `BucketsMore` and `BodyMore`: with one source bar more, the buckets of `ResampledFeed`
  change by one step of its loop, and the body of the last one by one `Merge`. Both are
  about recursive functions, `Buckets` and the volume in `BodyOf`: that the function
  exists, and that it depends only on the bars it has come past.
* The invariant `AInv`: after every source bar, the bars made are the states `DataReplay`
  has shown at the breaks between periods (`EndsOK`), and the bodies of all buckets but
  the last, whose body is the accumulator (`BodiesOK`); the buckets cover the source
  (`CoverOK`), and the stamps are in order and not ahead of the source (`StampsOK`).

### Optimizer (`OptimizerProofs`)

`PointsOwned` (`PointsAreOwned`) and `SearchesGrid` (`ImplementsGridSearch`): no grid
point is run twice, and `Optimizer` implements `GridSearch`. In the invariant, `MutexOK`
and `ClaimOK` say that who moves `next_index` holds the mutex and that what a worker has
taken lies below it; `OwnersDiffer`, `Unclaimed` and `Claimed` that every point below it is
with one worker or has its result. From there a `Store` is a `Fill`, `Join`'s last turn a
`Return`, and all other steps stutter.

`WholeProduct` (`ReturnsWholeProduct`): what comes back is the product of the ranges, each
combination as often as they give it. `Enumerates` says of the grid of the first k ranges
that its places correspond one to one to the choices of a value from each; crossing it with
w values puts value v of map j at place (j - 1) * w + v, and every place is one of these
(`PlaceJoins`, `PlaceSplits`). A name given twice makes two choices into one map, which is
why the theorem counts places and not maps. That `results` equals the grid at the end is
`SearchOK` with the claims above.

### Stream (`SessionProofs`)

* `StreamIsNumbered` (`SequenceIsClosed`): `NumberingInv` adds that `seq` counts the
  batches taken, until one is lost, and that fewer bars are pending than fill a batch.
* `NothingIsLost` (`StreamIsComplete`): for each of the four kinds, what was sent, one
  batch after the other, and then what is pending, is all there was. `StreamInv` adds which
  bar the observers have not been told of yet (`BarsOK`) and types. `FlattenSeq`, a recursion
  of the community modules, is shown to take one batch after the other by induction.
* `OutcomesAreAnnounced` (`CandidateBeforeOutcome`): every candidate was sent or goes with
  the next batch (`ToldOK`), and every outcome, order and trade has one of these
  (`GivenOK`).
* `OneOutcomeEach` (`DecidedHaveOneOutcome`): in `FatesOK`, the candidates whose order
  opened a trade or that were rejected are those with an outcome, with a shadow or with the
  open trade, each in one of these places only (`Accounted`), and no order that waits has
  one of them (`Waiting`).

### Recursion in the proofs

Sums, `FlattenSeq`, the grid, the buckets, the volume of a bucket and the evaluator's signals
are recursive functions, each a CHOOSE of the function that satisfies its equation. The
library's induction theorems take an operator and cannot be cited; a set of natural numbers
with 0 that is closed under successor can (`Induction`, from `WFMin`). With it one shows
that the function exists, which gives its equation, and whatever else is needed of it.

### What the theorems assume of the constants

The constants' own assumptions are named in the modules (`LedgerAssumption`,
`BrokerAssumption`, `CerebroAssumption`, `LiveAssumption`, `ReportAssumption`,
`SessionAssumption`, ...), and TLC evaluates them in the runs. Most are types. Those that
say more delimit what is modelled: `MinimumPeriod[r.feed] >= 1` and instruments without
margin in `LiveAssumption`; whole minutes, sources in order of time and months that begin
at midnight in `AggregationAssumption`; parameter values that are numbers in
`OptimizerAssumption`.

Two theorems assume that no mean is rounded, as an action property of the behaviour. The
prices of `MCLedger` and `MCLive` are chosen so that none ever is, so both speak of the
behaviours these runs check.

### Model-checked only

* `BarEnds`, `RunEnds` and `RunReturns`: TLAPS does not prove liveness under fairness.

## 5. Observations

Behaviours met while modelling that no run shows. The models contain them unless this says
otherwise. Those that contradict a document come first.

Against a document:

* `SignalEvaluator` promises "bit-for-bit the same signal Cerebro's per-bar loop sees"
  (`signal_evaluator.hpp:31`) and calls `update_indicators()` only. A strategy that
  overrides `update_indicators(feed_index)`, as generated multi-feed strategies do, is
  evaluated with indicators that never advance. `EvaluateBar` has the case (`hook`), and
  `EvaluatorAgrees` promises nothing of the indicators there.
* Market data between the two halves of `replace_strategy` calls the new strategy's
  `next` first; `live_engine.hpp:185` promises "a clean nextstart". `CleanNextstart` leaves
  this out by `raced`.
* Two exit strategies that close on the same bar reverse the position, although
  `exit_strategy.hpp:13` says "Does not open positions". No module has these strategies.
* `unrealized_pnl` is value minus cash, the value of the open position, which the comment
  at `increment_batcher.hpp:220` calls its profit. Money in a batch is not modelled.

Orders (`broker/broker.hpp`):

* An order canceled from its own Submitted or Accepted notification still moves cash and
  position; only its status stays Canceled.
* A main order that the hook rejects leaves legs with parent id 0, which nothing holds.
* Only buys are checked against the cash, and the margin of the instrument against the
  full value of the account (875).
* `apply_live_execution` holds a reference into `all_orders_` across `order_notify_`
  (559), and a submission from there may move the vector.
* A size of 0, which `AllInSizer` and a sizing policy can produce, opens a trade without
  size that stays beside a flat position.
* `portfolio_value` is `noexcept` and reads `close()[0]`: a position in a feed without
  bars ends the program (449).
* `Strategy::sell` with `OrderType::Stop` has no argument for the stop price, and the
  order is rejected.

Bar loop:

* An order on a context feed that shows nothing new fills on the bar its strategy had
  already seen (`engine/cerebro.hpp:368`).
* The warmup check counts loaded bars (207): a plan is accepted in which a required
  context bar never closes and `next()` never comes.
* Several context bars that close within one master bar advance the indicators once, so
  the warmup a strategy declared, which counts delivered bars, can be over before an
  indicator has had that many updates.

Aggregation:

* `get_bucket` rounds toward zero, so weeks and days before 1970 are cut wrongly; a week
  there begins on a Tuesday.
* For weeks and months `Resampler` and `DataReplay` ignore the compression, where
  `ResampledFeed` throws.
* A resampled bar of minutes is stamped with the end of its bucket. As a context feed of
  `Cerebro`, which takes a stamp for a start, it is delivered one period late.

Live:

* A duplicate of the report that completes an order finds no snapshot and is applied in
  full; the market of the model does not send one.
* Without a rate limit, which is the default, `check_order_rate` returns before it looks
  at the kill switch (322): the strategy's orders go out after it as before. So nothing
  here says that only closing orders follow the switch.
* With one, the strategy's orders still pass while `check_heartbeat` is flattening.
* `check_heartbeat` takes no gate, and one that found the data stale before `stop` may
  place closing orders after `stop` has returned, to a connector that has been told to
  disconnect. The comment at line 190 invites a timer thread.
* The timer and `stop` share `flattening_`. If the timer clears it while `stop` is
  flattening under a rate limit and the kill switch, the remaining closing orders are held
  back (`crossed`).
* A rate limit that `stop` exhausts while flattening closes positions twice, and so does
  `stop` after a kill switch whose closing orders have not filled yet.
* Reports that arrive after `stop` are dropped, and positions stay as they were.
* `Strategy::notify_order` and `notify_trade` are never called in live mode.

Corrective layer, stream, optimizer:

* A callback that throws loses its batch: everything pending has been moved out before.
* An exception out of a worker's run ends the program.

## 6. Not modelled

The map covers the control of the engine, not its bulk. Of 63 876 lines, 18 452 are one
generated table of indicator histories, some 14 000 the formulas of the alpha101 and
alpha191 collections, and most others single floating-point recurrences, statistics and
SIMD kernels. They have no control that a model could check, and integers would not be
those formulas.

* **Indicators, statistics and SIMD, corrective inference**: numerical. What a strategy
  may know of the bars when it computes them is in `Cerebro`.
* **Backtest runner**: parsing, loading and writing around one call of `Cerebro::run`.
* **Observers and analyzers** other than the batcher: accumulators no other part reads.
* **Ready-made strategies**: their decisions are among the free choices of the strategy
  in `Broker`; what they do to the indicators is modelled.
* **Ledger**: `portfolio_value` and venue fee schedules. `LiveEngine` has its own
  portfolio value, in one currency.
* **Exchange rates** by date: rates are constants.
* **Live engine**: `flatten_on_breach = false`, symbols that come up during a session,
  connectors that reject orders, which the interface cannot express, and connectors that
  call back from inside `submit_order`.
* **Calendar**: ticks, seconds, years and several weeks or months at a time, for which it
  throws.

## 7. Plan

Done: the models of all parts listed as modelled; every safety property that a passing run
checks proved; the refinements of `OrderBook`, `AlignedClocks` and
`GridSearch` proved.

Left, in order of importance:

1. The exact cash for all prices, with entry prices kept as cost over size, so that no mean
   is rounded.
2. Several ready-made strategies on one position: which of their closings go through.
3. The evaluator's promise as a run of its own, for strategies that override
   `update_indicators(feed_index)`.
4. The trade analyzer, which adds up results of several currencies.
