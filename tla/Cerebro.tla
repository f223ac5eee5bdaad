------------------------------ MODULE Cerebro -------------------------------
(***************************************************************************)
(* Cerebro::run, the engine's bar loop.  Feed 0 is the master feed and     *)
(* drives it; the other feeds are context feeds, whose bars are delivered  *)
(* once their period has ended by the close of the master bar.  On every   *)
(* master bar the pending orders are processed against the bar each feed's *)
(* cursor is on, and then each strategy is called: prenext while it warms  *)
(* up, nextstart once, next ever after.                                    *)
(*                                                                         *)
(* An order here is a market order (module Broker has all of an order's    *)
(* life): the next process_orders fills it on the bar of its feed's cursor.*)
(* Bars are numbered from 1, so the cursor index[k] is on bar index[k] + 1.*)
(***************************************************************************)
EXTENDS Interval

CONSTANTS
  NumFeeds,       \* data_feeds_.size()
  NumStrategies,  \* strategies_.size()
  Plans,          \* what is loaded: [tf, times: feed -> ..., min: strategy -> feed -> Nat]
  MaxOrders       \* bound: orders in the run

Strategies == 1..NumStrategies
Feeds      == 0..(NumFeeds - 1)
Contexts   == 1..(NumFeeds - 1)

ASSUME CerebroAssumption ==
  /\ NumFeeds \in Nat \ {0} /\ NumStrategies \in Nat /\ MaxOrders \in Nat
  /\ \A p \in Plans :
       /\ p.tf \in [Feeds -> PeriodFrames] /\ p.times \in [Feeds -> Seq(Int)]
       /\ p.min \in [Strategies -> [Feeds -> Nat]]

VARIABLES
  plan,       \* the feeds and what the strategies require of them
  phase,      \* where run() is
  bar,        \* bar; the current master bar is bar + 1
  feedAt,     \* k, the context feed being advanced
  cursor,     \* context_cursor
  delivered,  \* bars_delivered
  advanced,   \* feed_advanced_flags
  index,      \* DataFeed::index(), the bar a strategy and the broker read
  known,      \* Strategy::bars_delivered_
  strategyAt, \* si, the strategy being called
  entered,    \* strat_entered_next
  called,     \* the lifecycle method each strategy was called with last
  warmupEnd,  \* warmup_end_timestamp_ms_, 0 when not set
  updates,    \* strategy -> feed -> calls of update_indicators(feed)
  orders,     \* pending orders: [feed, known], known = what its strategy knew
  sent        \* orders submitted so far

clockVars    == <<feedAt, cursor, delivered, advanced, index>>
strategyVars == <<strategyAt, entered, called, warmupEnd, updates>>
orderVars    == <<orders, sent>>
vars == <<plan, phase, bar, known, clockVars, strategyVars, orderVars>>

Length(k)  == Len(plan.times[k])
BarTime(k, i) == plan.times[k][i]

\* compute_exec_close, for master bar b.
ExecClose(b) ==
  LET open == BarTime(0, b)
  IN  CASE NumFeeds = 1           -> open
        [] IsCalendar(plan.tf[0]) -> PeriodEnd(open, plan.tf[0])
        [] OTHER                  -> open + DurationOf(plan.tf[0])

ClosedBy(k, i, b) == PeriodEnd(BarTime(k, i), plan.tf[k]) <= ExecClose(b)

HasFiner    == \E k \in Contexts : FinerThan(plan.tf[k], plan.tf[0])
Infeasible  == \E s \in Strategies, k \in Feeds : plan.min[s][k] > Length(k)
AllReady_ByIndex(s) == \A k \in Feeds : index[k] + 1 >= plan.min[s][k]

AllReady(s) == \A k \in Feeds : delivered[k] >= plan.min[s][k]

Init ==
  /\ plan \in Plans
  /\ phase = "loaded" /\ bar = 0 /\ feedAt = 1
  /\ cursor = [k \in Feeds |-> 0] /\ delivered = [k \in Feeds |-> 0]
  /\ advanced = [k \in Feeds |-> FALSE] /\ index = [k \in Feeds |-> 0]
  /\ known = [k \in Feeds |-> 0]
  /\ strategyAt = 1 /\ entered = [s \in Strategies |-> FALSE]
  /\ called = [s \in Strategies |-> "none"] /\ warmupEnd = 0
  /\ updates = [s \in Strategies |-> [k \in Feeds |-> 0]]
  /\ orders = {} /\ sent = 0
-----------------------------------------------------------------------------
\* Up to the loop: nothing to run on, a plan in the wrong order, or strategies
\* that are started and then found to ask for more bars than there are.
StartRun ==
  /\ phase = "loaded"
  /\ phase' = CASE Length(0) = 0 -> "stopped"
                [] Length(0) > 0 /\ (HasFiner \/ Infeasible) -> "failed"
                [] OTHER -> "bar"
  /\ UNCHANGED <<plan, bar, known, clockVars, strategyVars, orderVars>>

BeginBar_FlagsKept ==
  /\ phase = "bar"
  /\ advanced' = [advanced EXCEPT ![0] = TRUE]
  /\ delivered' = [delivered EXCEPT ![0] = bar + 1]
  /\ phase' = "feeds" /\ feedAt' = 1
  /\ UNCHANGED <<plan, bar, known, cursor, index, strategyVars, orderVars>>

BeginBar_Uncounted ==
  /\ phase = "bar"
  /\ advanced' = [k \in Feeds |-> k = 0]
  /\ delivered' = [delivered EXCEPT ![0] = bar]
  /\ phase' = "feeds" /\ feedAt' = 1
  /\ UNCHANGED <<plan, bar, known, cursor, index, strategyVars, orderVars>>

BeginBar ==
  /\ phase = "bar"
  /\ advanced' = [k \in Feeds |-> k = 0]
  /\ delivered' = [delivered EXCEPT ![0] = bar + 1]
  /\ phase' = "feeds" /\ feedAt' = 1
  /\ UNCHANGED <<plan, bar, known, cursor, index, strategyVars, orderVars>>

Deliverable_OnePerBar(k) ==
  ~advanced[k] /\ cursor[k] < Length(k) /\ ClosedBy(k, cursor[k] + 1, bar + 1)

Deliverable(k) == cursor[k] < Length(k) /\ ClosedBy(k, cursor[k] + 1, bar + 1)

Advance_Always(k) == index' = [index EXCEPT ![k] = IF @ + 1 < Length(k) THEN @ + 1 ELSE @]

\* The cursor of a feed is on its first bar already when that is delivered.
Advance(k) ==
  index' = [index EXCEPT ![k] = IF delivered[k] > 0 /\ @ + 1 < Length(k) THEN @ + 1 ELSE @]

DeliverContext ==
  /\ phase = "feeds" /\ feedAt < NumFeeds
  /\ Deliverable(feedAt)
  /\ Advance(feedAt)
  /\ delivered' = [delivered EXCEPT ![feedAt] = @ + 1]
  /\ advanced' = [advanced EXCEPT ![feedAt] = TRUE]
  /\ cursor' = [cursor EXCEPT ![feedAt] = @ + 1]
  /\ UNCHANGED <<plan, phase, bar, known, feedAt, strategyVars, orderVars>>

NextFeed ==
  /\ phase = "feeds" /\ feedAt < NumFeeds
  /\ ~Deliverable(feedAt)
  /\ feedAt' = feedAt + 1
  /\ UNCHANGED <<plan, phase, bar, known, cursor, delivered, advanced, index,
                 strategyVars, orderVars>>

\* set_feed_advanced, set_bars_delivered
Publish ==
  /\ phase = "feeds" /\ feedAt = NumFeeds
  /\ known' = delivered
  /\ phase' = "orders"
  /\ UNCHANGED <<plan, bar, clockVars, strategyVars, orderVars>>

\* An order whose feed has no bars at all stays pending.
ProcessOrders ==
  /\ phase = "orders"
  /\ orders' = {o \in orders : Length(o.feed) = 0}
  /\ phase' = "strategies" /\ strategyAt' = 1
  /\ UNCHANGED <<plan, bar, known, clockVars, entered, called, warmupEnd, updates, sent>>

Calling(s) == phase = "strategies" /\ s = strategyAt

\* advance_generated_indicators, with which prenext and next of the ready-made
\* strategies begin, nextstart being next to them.
AdvanceIndicators(s) ==
  updates' = [updates EXCEPT ![s] =
                [k \in Feeds |-> updates[s][k] + IF advanced[k] THEN 1 ELSE 0]]

\* The strategy may submit an order on any feed before it returns.
Submit ==
  \/ UNCHANGED orderVars
  \/ \E k \in Feeds :
       /\ sent < MaxOrders
       /\ orders' = orders \union {[feed |-> k, known |-> known[k]]}
       /\ sent' = sent + 1

Returns(s) ==
  /\ strategyAt' = s + 1
  /\ Submit
  /\ UNCHANGED <<plan, phase, bar, known, clockVars>>

CallNext(s) ==
  /\ Calling(s) /\ entered[s]
  /\ called' = [called EXCEPT ![s] = "next"]
  /\ AdvanceIndicators(s)
  /\ Returns(s) /\ UNCHANGED <<entered, warmupEnd>>

CallNextStart_NotEntered(s) ==
  /\ Calling(s) /\ ~entered[s] /\ AllReady(s)
  /\ warmupEnd' = IF warmupEnd = 0 THEN BarTime(0, bar + 1) ELSE warmupEnd
  /\ called' = [called EXCEPT ![s] = "nextstart"]
  /\ AdvanceIndicators(s)
  /\ Returns(s) /\ UNCHANGED entered

CallNextStart(s) ==
  /\ Calling(s) /\ ~entered[s] /\ AllReady(s)
  /\ entered' = [entered EXCEPT ![s] = TRUE]
  /\ warmupEnd' = IF warmupEnd = 0 THEN BarTime(0, bar + 1) ELSE warmupEnd
  /\ called' = [called EXCEPT ![s] = "nextstart"]
  /\ AdvanceIndicators(s)
  /\ Returns(s)

CallPrenext(s) ==
  /\ Calling(s) /\ ~entered[s] /\ ~AllReady(s)
  /\ called' = [called EXCEPT ![s] = "prenext"]
  /\ AdvanceIndicators(s)
  /\ Returns(s) /\ UNCHANGED <<entered, warmupEnd>>

EndBar_SkipsLast ==
  /\ phase = "strategies" /\ strategyAt \notin Strategies
  /\ IF bar + 2 < Length(0)
     THEN /\ bar' = bar + 1 /\ phase' = "bar"
          /\ index' = [index EXCEPT ![0] = @ + 1]
     ELSE phase' = "stopped" /\ UNCHANGED <<bar, index>>
  /\ UNCHANGED <<plan, known, feedAt, cursor, delivered, advanced, strategyVars, orderVars>>

\* Analyzers, observers and the candidate collector look at the bar; then the
\* master feed goes on, or everything is stopped.
EndBar ==
  /\ phase = "strategies" /\ strategyAt \notin Strategies
  /\ IF bar + 1 < Length(0)
     THEN /\ bar' = bar + 1 /\ phase' = "bar"
          /\ index' = [index EXCEPT ![0] = @ + 1]
     ELSE phase' = "stopped" /\ UNCHANGED <<bar, index>>
  /\ UNCHANGED <<plan, known, feedAt, cursor, delivered, advanced, strategyVars, orderVars>>

Next ==
  \/ StartRun \/ BeginBar \/ DeliverContext \/ NextFeed \/ Publish \/ ProcessOrders
  \/ \E s \in Strategies : CallNext(s) \/ CallNextStart(s) \/ CallPrenext(s)
  \/ EndBar

\* run() is one loop on the caller's thread, and strategies return.
Spec == Init /\ [][Next]_vars /\ WF_vars(Next)
-----------------------------------------------------------------------------
(* What the engine promises *)

Phases  == {"loaded", "bar", "feeds", "orders", "strategies", "stopped", "failed"}
Methods == {"none", "prenext", "nextstart", "next"}

\* Every variable has its type, and every cursor is on a bar of its feed.
TypeOK ==
  /\ plan \in Plans /\ phase \in Phases /\ bar \in Nat
  /\ feedAt \in 1..NumFeeds /\ strategyAt \in Nat
  /\ cursor \in [Feeds -> Nat] /\ delivered \in [Feeds -> Nat]
  /\ advanced \in [Feeds -> BOOLEAN] /\ known \in [Feeds -> Nat]
  /\ index \in [Feeds -> Nat]
  /\ \A k \in Feeds : index[k] = 0 \/ index[k] < Length(k)
  /\ entered \in [Strategies -> BOOLEAN] /\ called \in [Strategies -> Methods]
  /\ warmupEnd \in Int /\ sent \in 0..MaxOrders
  /\ updates \in [Strategies -> [Feeds -> Nat]]
  /\ orders \subseteq [feed : Feeds, known : Nat]

\* The engine has told everybody what time it is.
OnTheClock == phase \in {"orders", "strategies"}

\* No lookahead: of a context feed that has delivered a bar, the bar that a
\* strategy and the broker can read has ended by the close of the master bar.
NoLookahead ==
  OnTheClock => \A k \in Contexts : delivered[k] > 0 => ClosedBy(k, index[k] + 1, bar + 1)

\* The same of every context feed, whether it has delivered a bar or not, as
\* the contract of run() says it.
OnlyClosedBarsVisible ==
  OnTheClock => \A k \in Contexts : Length(k) > 0 => ClosedBy(k, index[k] + 1, bar + 1)

\* The master bars by whose close something of feed k has newly closed.
FreshBars(k) ==
  {b \in 1..(bar + 1) :
     \E i \in 1..Length(k) : ClosedBy(k, i, b) /\ (b = 1 \/ ~ClosedBy(k, i, b - 1))}

\* When a strategy decides, its indicators on the master feed have seen every
\* bar so far once, and those on a context feed have been advanced exactly
\* once for each master bar that brought something new, however many bars
\* that was: none is counted twice, and none is missed in the warmup.
IndicatorsKeepUp ==
  phase = "strategies" => \A s \in Strategies : s < strategyAt =>
    /\ updates[s][0] = bar + 1
    /\ \A k \in Contexts : updates[s][k] = Cardinality(FreshBars(k))

\* By master bar b, each feed has given strategy s the bars it asked for.
ReadyBy(s, b) ==
  \A k \in Feeds :
    LET min == plan.min[s][k]
    IN  \/ min = 0
        \/ k = 0 /\ min <= b
        \/ k # 0 /\ min <= Length(k) /\ ClosedBy(k, min, b)

\* next and nextstart are called from the master bar on by which every feed
\* has closed the bars the strategy requires of it, and prenext before.
WarmupRespected ==
  phase = "strategies" => \A s \in Strategies :
    s < strategyAt => (called[s] \in {"nextstart", "next"} <=> ReadyBy(s, bar + 1))

\* A strategy's calls are prenext, then one nextstart, then next.
CallsInOrder ==
  [][\A s \in Strategies : (strategyAt = s /\ strategyAt' = s + 1) =>
       called'[s] \in IF called[s] \in {"none", "prenext"} THEN {"prenext", "nextstart"}
                                                         ELSE {"next"}]_vars

\* An order on the master feed, or on one with the same bars, fills on the bar
\* after the one its strategy saw last.  On a slower feed it may fill on the very
\* bar the strategy had seen: the cursor stays on it until a new bar closes.
LockstepFillsOnNextBar ==
  phase = "orders" => \A o \in orders :
    (plan.tf[o.feed] = plan.tf[0] /\ plan.times[o.feed] = plan.times[0])
      => index[o.feed] + 1 = o.known + 1

\* A run that was not refused comes to its end, having shown every master bar.
RunEnds == <>(phase = "failed" \/ (phase = "stopped" /\ delivered[0] = Length(0)))
-----------------------------------------------------------------------------
(* The engine implements the aligned clocks *)

Clocks == INSTANCE AlignedClocks WITH
  AllFeeds <- Feeds,
  ends     <- [k \in Feeds |-> [i \in 1..Length(k) |-> PeriodEnd(BarTime(k, i), plan.tf[k])]],
  closes   <- [b \in 1..Length(0) |-> ExecClose(b)],
  shown    <- known

\* What the strategies are told moves by whole master bars.
ImplementsAlignedClocks == Clocks!ClocksSpec
=============================================================================
