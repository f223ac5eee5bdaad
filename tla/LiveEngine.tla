----------------------------- MODULE LiveEngine -----------------------------
(***************************************************************************)
(* LiveEngine: market data, fills and state events come in on connector    *)
(* threads, one at a time through the callback gate, the application       *)
(* thread starts, stops and replaces the strategy, and a timer thread      *)
(* calls check_heartbeat.  replace_strategy and check_heartbeat do not     *)
(* take the gate: their steps fall between those of a callback, and those  *)
(* of the timer also between those of stop and after it.                   *)
(*                                                                         *)
(* A callback is the steps HandleMarketData, what the strategy does,       *)
(* Returns and EvaluateRisk; gate says which of them comes next.           *)
(***************************************************************************)
EXTENDS LiveBroker

CONSTANTS
  MinimumPeriod,   \* feed -> bars the strategy needs
  MaxAbsPosition,  \* limits_.max_abs_position
  MaxDrawdown,     \* limits_.max_drawdown_percent
  RateLimit,       \* limits_.max_orders_per_second, or None
  MaxReconnects,   \* limits_.max_reconnect_attempts; None without auto_reconnect
  DataPrices,      \* of market data
  Prices, Lots,    \* of the market's executions
  Bounds           \* bounds: [bars, requests, parted, submits, starts, strategies, timer]

ASSUME LiveAssumption ==
  /\ Cardinality(Feeds) \in Nat /\ Feeds = 0 .. Cardinality(Feeds) - 1
  /\ MaxAbsPosition \in Nat
  /\ MinimumPeriod \in [Feeds -> Nat]
  /\ RateLimit \in Nat \union {None}
  /\ \A d \in Feeds : Instrument[d] = None
  /\ Lots \subseteq Nat \ {0} /\ Prices \subseteq Int
  /\ \A b \in Bounds : \A r \in b.requests : r.feed \in Feeds /\ r.lots \in Int
  \* portfolio_value ends the program on a position in a feed without bars.
  /\ \A b \in Bounds : \A r \in b.requests : MinimumPeriod[r.feed] >= 1

VARIABLES
  started, active, alive,  \* started_, gate->active, gate->owner is set
  gate,          \* "free", or what the callback inside it does next, or "stop"
  app, timer,    \* what the application and the timer thread are in the middle of
  walk,          \* data_index of flatten_positions on the timer and in stop
  killed, flattening,  \* kill_switch_triggered_, flattening_
  stamps,        \* order_timestamps_ within the window
  attempts,      \* reconnect_attempts_
  peak,          \* peak_portfolio_value_
  bars, close,   \* of each LiveDataFeed: bars pushed, last price
  fired,         \* nextstart_fired_
  strategy,      \* the strategy instance, numbered
  starts,        \* how often start() was called
  bound,         \* the element of Bounds this behaviour keeps to
\* History, which no action looks at.
  calls,         \* business calls the strategy instance has had
  raced,         \* a callback ran in the middle of replace_strategy
  crossed,       \* a heartbeat ended its flattening in the middle of the last stop
  moved          \* feeds whose position has changed since the kill switch came on

controlVars == <<started, active, alive, starts, app, timer, walk, crossed>>
limitVars   == <<killed, flattening, stamps, attempts, peak, moved>>
strategyVars == <<bars, close, fired, strategy, calls, raced>>
vars == <<liveBrokerVars, controlVars, limitVars, strategyVars, gate, bound>>

Open == active /\ alive
-----------------------------------------------------------------------------
(* Orders through RateLimitWrapper *)

Unlimited == RateLimit = None

Submission(d, lots, flatten, status, sent) ==
  [feed |-> d, lots |-> lots, flatten |-> flatten, status |-> status, sent |-> sent]

\* flatten_positions: a closing order for each position, in feed order.
InFeedOrder(S) ==
  [i \in 1 .. Cardinality(S) |-> CHOOSE d \in S : Cardinality({e \in S : e <= d}) = i]

NonFlat == InFeedOrder({d \in Feeds : position[d].size # 0})
AllClosings ==
  [i \in 1 .. Len(NonFlat) |->
     Submission(NonFlat[i], -position[NonFlat[i]].size, TRUE, "Accepted", TRUE)]

CheckOrderRate_LimitFirst == Unlimited \/ stamps < RateLimit
\* check_order_rate; after the kill switch an order passes only while some
\* thread is flattening.
CheckOrderRate == Unlimited \/ IF killed THEN flattening ELSE stamps < RateLimit

\* submit_order of the wrapper.  Over the rate the order is not sent, and the
\* kill switch flattens before submit_order returns.
Sends(d, lots, flatten, status) ==
  LET tripped == ~Unlimited /\ ~killed /\ stamps >= RateLimit
  IN  /\ Place(<<Submission(d, lots, flatten, status, CheckOrderRate)>>
                  \o IF tripped THEN AllClosings ELSE <<>>)
      /\ killed' = (killed \/ tripped)
      /\ flattening' = (flattening /\ ~tripped)
      /\ stamps' = IF CheckOrderRate /\ ~Unlimited /\ ~killed THEN stamps + 1 ELSE stamps

\* buy() or sell() of the running strategy.
StrategySubmits(r, status) ==
  /\ gate \in {"nextstart", "next"}
  /\ Cardinality({id \in DOMAIN orders : ~orders[id].flatten}) < bound.submits
  /\ Sends(r.feed, r.lots, FALSE, status)
  /\ UNCHANGED <<attempts, peak, moved, controlVars, strategyVars, gate>>

\* cancel_order by the running strategy.
StrategyCancels(id) ==
  /\ gate \in {"nextstart", "next"}
  /\ id \in DOMAIN orders /\ orders[id].status \in AliveStatuses
  /\ CancelLive(id)
  /\ UNCHANGED <<controlVars, limitVars, strategyVars, gate>>

\* trigger_kill_switch with flatten_on_breach, where the switch is not on yet.
TriggerKillSwitch ==
  /\ killed' = TRUE
  /\ flattening' = FALSE
  /\ Place(AllClosings)
-----------------------------------------------------------------------------
(* Connector callbacks: they wait for the gate and do nothing once it is   *)
(* not active                                                              *)

Enters_Registered == gate = "free" /\ alive
Enters == gate = "free" /\ Open

AllReady(b) == \A d \in Feeds : b[d] >= MinimumPeriod[d]

\* handle_market_data up to the call into the strategy.
HandleMarketData(d, p) ==
  /\ Enters /\ bars[d] < bound.bars[d]
  /\ attempts' = 0
  /\ bars' = [bars EXCEPT ![d] = @ + 1]
  /\ close' = [close EXCEPT ![d] = p]
  /\ gate' = IF d # 0 \/ ~AllReady(bars') THEN "prenext"
             ELSE IF fired THEN "next" ELSE "nextstart"
  /\ calls' = IF gate' = "prenext" THEN calls ELSE Append(calls, gate')
  /\ raced' = (raced \/ app = "replacing")
  /\ UNCHANGED <<liveBrokerVars, controlVars, killed, flattening, stamps, peak, moved, fired,
                 strategy>>

Returns ==
  /\ gate \in {"prenext", "nextstart", "next"}
  /\ gate' = "risk"
  /\ fired' = (fired \/ gate = "nextstart")
  /\ UNCHANGED <<liveBrokerVars, controlVars, limitVars, bars, close, strategy, calls, raced>>

AfterFill_NoRisk == "free"
AfterFill == "risk"

\* handle_fill
HandleFill ==
  /\ Enters /\ reports # <<>>
  /\ RecordFill(Head(reports))
  /\ reports' = Tail(reports)
  /\ moved' = IF killed THEN moved \union {d \in Feeds : position'[d] # position[d]} ELSE moved
  /\ gate' = AfterFill
  /\ UNCHANGED <<market, told, lost, controlVars, killed, flattening, stamps, attempts, peak,
                 strategyVars>>

\* A callback of a stopped engine, also one that waited while stop() held
\* the gate, finds it inactive.
DropReport ==
  /\ gate = "free" /\ ~Open /\ reports # <<>>
  /\ DropFill(Head(reports))
  /\ reports' = Tail(reports)
  /\ UNCHANGED <<ledgerVars, orders, pending, snapshots, heard, market, controlVars, limitVars,
                 strategyVars, gate>>

ValueOf(money, held, prices) ==
  money[BaseCcy] + MapThenSumSet(LAMBDA d : held[d].size * prices[d], Feeds)

PortfolioValue == ValueOf(cash, position, close)

HighWater == IF PortfolioValue > peak THEN PortfolioValue ELSE peak

DrawdownBreached(top) ==
  top > 0 /\ 100 * (top - PortfolioValue) >= MaxDrawdown * top

PositionBreached == \E d \in Feeds : Abs(position[d].size) > MaxAbsPosition

EvaluateRisk ==
  /\ gate = "risk"
  /\ gate' = "free"
  /\ peak' = IF killed THEN peak ELSE HighWater
  /\ IF ~killed /\ (DrawdownBreached(HighWater) \/ PositionBreached)
     THEN TriggerKillSwitch
     ELSE UNCHANGED <<liveBrokerVars, killed, flattening>>
  /\ UNCHANGED <<stamps, attempts, moved, controlVars, strategyVars>>

CanReconnect == attempts < MaxReconnects

\* handle_connector_state(Disconnected): reconnect while attempts are left.
HandleDisconnect ==
  /\ Enters
  /\ IF ~started \/ killed THEN UNCHANGED <<liveBrokerVars, killed, flattening, attempts>>
     ELSE IF MaxReconnects # None /\ CanReconnect
     THEN attempts' = attempts + 1 /\ UNCHANGED <<liveBrokerVars, killed, flattening>>
     ELSE TriggerKillSwitch /\ UNCHANGED attempts
  /\ UNCHANGED <<stamps, peak, moved, controlVars, strategyVars, gate>>
-----------------------------------------------------------------------------
(* The application thread *)

\* start(): the gate opens before the connector is asked to connect and
\* before started_ is set.  It replaces what a heartbeat sends through, and
\* the application lets that return first.
Start ==
  /\ app = "idle" /\ gate = "free" /\ alive /\ ~started /\ starts < bound.starts
  /\ timer = "idle"
  /\ app' = "starting" /\ active' = TRUE /\ starts' = starts + 1
  /\ UNCHANGED <<liveBrokerVars, started, alive, timer, walk, crossed, limitVars, strategyVars,
                 gate>>

Connected ==
  /\ app = "starting"
  /\ app' = "idle" /\ started' = TRUE
  /\ UNCHANGED <<liveBrokerVars, active, alive, starts, timer, walk, crossed, limitVars,
                 strategyVars, gate>>

\* One turn of the loop of flatten_positions on thread t.
FlattensNext(t) ==
  /\ walk[t] \in Feeds
  /\ walk' = [walk EXCEPT ![t] = @ + 1]
  /\ IF position[walk[t]].size = 0
     THEN UNCHANGED <<liveBrokerVars, killed, flattening, stamps>>
     ELSE Sends(walk[t], -position[walk[t]].size, TRUE, "Accepted")

\* stop() waits for the gate and holds it to its end.  Its closing orders
\* count against the rate, and the first that does not fit trips the kill
\* switch.
StopBegins ==
  /\ app = "idle" /\ gate = "free" /\ started
  /\ app' = "stopping" /\ gate' = "stop" /\ flattening' = TRUE
  /\ walk' = [walk EXCEPT !["stop"] = 0] /\ crossed' = FALSE
  /\ UNCHANGED <<liveBrokerVars, started, active, alive, starts, timer, killed, stamps,
                 attempts, peak, moved, strategyVars>>

StopCloses ==
  /\ app = "stopping" /\ FlattensNext("stop")
  /\ UNCHANGED <<started, active, alive, starts, app, timer, crossed, attempts, peak, moved,
                 strategyVars, gate>>

StopReturns ==
  /\ app = "stopping" /\ walk["stop"] \notin Feeds
  /\ app' = "idle" /\ gate' = "free" /\ flattening' = FALSE
  /\ started' = FALSE /\ active' = FALSE
  /\ UNCHANGED <<liveBrokerVars, alive, starts, timer, walk, crossed, killed, stamps, attempts,
                 peak, moved, strategyVars>>

\* The destructor, of an engine that has been stopped and has no heartbeat
\* under way: a callback the connector has kept finds no owner.
Destroy ==
  /\ app = "idle" /\ gate = "free" /\ alive /\ ~started /\ timer = "idle"
  /\ active' = FALSE /\ alive' = FALSE
  /\ UNCHANGED <<liveBrokerVars, started, starts, app, timer, walk, crossed, limitVars,
                 strategyVars, gate>>

\* replace_strategy installs the new strategy, and then resets the flag.
\* The application does not call it while the old strategy is running.
ReplaceStrategy ==
  /\ app = "idle" /\ gate = "free" /\ started /\ strategy < bound.strategies
  /\ app' = "replacing" /\ strategy' = strategy + 1 /\ calls' = <<>>
  /\ UNCHANGED <<liveBrokerVars, started, active, alive, starts, timer, walk, crossed,
                 limitVars, bars, close, fired, raced, gate>>

ResetNextstart_Forgotten ==
  /\ app = "replacing"
  /\ app' = "idle"
  /\ UNCHANGED <<liveBrokerVars, started, active, alive, starts, timer, walk, crossed,
                 limitVars, strategyVars, gate>>

ResetNextstart ==
  /\ app = "replacing"
  /\ app' = "idle" /\ fired' = FALSE
  /\ UNCHANGED <<liveBrokerVars, started, active, alive, starts, timer, walk, crossed,
                 limitVars, bars, close, strategy, calls, raced, gate>>
-----------------------------------------------------------------------------
(* The timer thread: check_heartbeat, whose trigger_kill_switch has looked *)
(* at the switch before HeartbeatKills sets it                             *)

HeartbeatStale ==
  /\ bound.timer
  /\ timer = "idle" /\ started /\ ~killed
  /\ timer' = "tripping"
  /\ UNCHANGED <<liveBrokerVars, started, active, alive, starts, app, walk, crossed, limitVars,
                 strategyVars, gate>>

HeartbeatKills ==
  /\ timer = "tripping"
  /\ timer' = "flattening" /\ killed' = TRUE /\ flattening' = TRUE
  /\ walk' = [walk EXCEPT !["timer"] = 0]
  /\ UNCHANGED <<liveBrokerVars, started, active, alive, starts, app, crossed, stamps, attempts,
                 peak, moved, strategyVars, gate>>

HeartbeatCloses ==
  /\ timer = "flattening" /\ FlattensNext("timer")
  /\ UNCHANGED <<started, active, alive, starts, app, timer, crossed, attempts, peak, moved,
                 strategyVars, gate>>

HeartbeatReturns ==
  /\ timer = "flattening" /\ walk["timer"] \notin Feeds
  /\ timer' = "idle" /\ flattening' = FALSE
  /\ crossed' = (crossed \/ app = "stopping")
  /\ UNCHANGED <<liveBrokerVars, started, active, alive, starts, app, walk, killed, stamps,
                 attempts, peak, moved, strategyVars, gate>>

\* A second passes: check_order_rate will purge the older timestamps.
WindowPasses ==
  /\ stamps > 0
  /\ stamps' = 0
  /\ UNCHANGED <<liveBrokerVars, killed, flattening, attempts, peak, moved, controlVars,
                 strategyVars, gate>>
-----------------------------------------------------------------------------
MarketSteps ==
  /\ \E id \in DOMAIN market :
       \/ \E k \in Lots, p \in Prices :
            /\ id > bound.parted => k = Abs(orders[id].lots) /\ p = close[orders[id].feed]
            /\ MarketExecutes(id, k, p)
       \/ /\ reports = <<>>
          /\ \/ MarketReports(id)
             \/ \E k \in Lots, p \in Prices : MarketUnwinds(id, k, p)
  /\ UNCHANGED <<controlVars, limitVars, strategyVars, gate>>

Data == \E d \in Feeds, p \in DataPrices : HandleMarketData(d, p)

Callback ==
  \/ Data
  \/ \E r \in bound.requests, status \in {"Accepted", "Canceled"} : StrategySubmits(r, status)
  \/ \E id \in DOMAIN orders : StrategyCancels(id)
  \/ Returns
  \/ HandleFill
  \/ DropReport
  \/ EvaluateRisk
  \/ HandleDisconnect

Application ==
  \/ Start \/ Connected
  \/ StopBegins \/ StopCloses \/ StopReturns \/ Destroy
  \/ ReplaceStrategy \/ ResetNextstart

Heartbeat == HeartbeatStale \/ HeartbeatKills \/ HeartbeatCloses \/ HeartbeatReturns

Init ==
  /\ LiveBrokerInit
  /\ started = FALSE /\ active = FALSE /\ alive = TRUE
  /\ gate = "free" /\ app = "idle" /\ timer = "idle"
  /\ walk = [t \in {"timer", "stop"} |-> 0] /\ crossed = FALSE /\ moved = {}
  /\ killed = FALSE /\ flattening = FALSE /\ stamps = 0 /\ attempts = 0 /\ peak = 0
  /\ bars = [d \in Feeds |-> 0] /\ close = [d \in Feeds |-> 0]
  /\ fired = FALSE /\ strategy = 1 /\ calls = <<>> /\ raced = FALSE
  /\ starts = 0 /\ bound \in Bounds

Next ==
  (MarketSteps \/ Callback \/ Application \/ Heartbeat \/ WindowPasses) /\ UNCHANGED bound

Spec == Init /\ [][Next]_vars
-----------------------------------------------------------------------------
(* What the live engine promises *)

\* Whenever no callback is inside the gate and the kill switch is off, every
\* position is within its limit and the portfolio within the drawdown from
\* its peak: no callback leaves without having looked.
RiskLimitsHold ==
  gate = "free" /\ ~killed => ~PositionBreached /\ ~DrawdownBreached(peak)

\* The market has been asked to close all that is held on a feed.
ClosingSent(d) ==
  \E id \in DOMAIN market :
    orders[id].flatten /\ orders[id].feed = d /\ orders[id].lots = -position[d].size

Covered(d) == position[d].size = 0 \/ ClosingSent(d)

Stopped == ~started /\ app = "idle" /\ starts > 0

\* flatten_positions leaves nothing out, whatever the rate limit, the kill
\* switch it may trip itself and the other thread that clears flattening_ do
\* to its orders.  When the kill switch has come on and the heartbeat is not
\* in the middle of it, every position that has not changed since has a
\* closing order for all of it at the market.  So has every position a
\* stopped engine holds, unless there is a rate limit and a heartbeat ended
\* its own flattening while stop() was at it.
FlatteningIsComplete ==
  /\ killed /\ timer # "flattening" => \A d \in Feeds \ moved : Covered(d)
  /\ Stopped /\ (Unlimited \/ ~crossed) => \A d \in Feeds : Covered(d)

\* Every strategy instance is called nextstart first and once, also across
\* stop() and start(), unless market data came in the middle of
\* replace_strategy, between the new strategy and the reset flag.
CleanNextstart ==
  ~raced => \A i \in DOMAIN calls : calls[i] = "nextstart" <=> i = 1

\* Once stop() has returned, or the engine is gone, no callback, however late
\* and by whichever thread, moves the account, a feed, an order or the
\* strategy.  What still comes are closing orders of a check_heartbeat that
\* found the data stale before: it takes no gate, and stop() does not wait.
StoppedIsSilent ==
  [][~Open /\ ~Open' =>
       /\ UNCHANGED <<ledgerVars, bars, close, calls>>
       /\ orders' # orders =>
            /\ timer = "flattening"
            /\ \E o \in Range(orders') : o.flatten /\ orders' = Append(orders, o)]_vars
=============================================================================
