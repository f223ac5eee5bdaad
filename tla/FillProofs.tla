----------------------------- MODULE FillProofs -----------------------------
(***************************************************************************)
(* What one fill is, for every bar, order, slippage setting and fee        *)
(* schedule.  The fill rules first: a fill is at a price the bar traded    *)
(* at, a limit is a limit, and a trailing stop only tightens.  Then the    *)
(* account: a lemma for each way a fill changes the trades, and            *)
(* ApplyFillKeepsLedger, which puts them together.  Last the sums over a   *)
(* finite set of orders, which the theorems on positions take: SumFunction *)
(* is a recursion of the community modules, so that a sum exists, does not *)
(* depend on the order of its terms, and changes with one of them, is shown *)
(* here first.  The theorems about the account alone and about both brokers *)
(* rest on these.                                                          *)
(***************************************************************************)
EXTENDS FillRules, Ledger, FiniteSetTheorems, WellFoundedInduction, TLAPS

\* The fields of an order the fill rules read; a stop order has its price.
IsTriable(o) ==
  /\ o.type \in OrderTypes /\ o.side \in OrderSides
  /\ o.price \in Int /\ o.trailStop \in Int
  /\ o.type \in {"Stop", "StopLimit"} => o.stop \in Int

IsSlip(slip) ==
  /\ slip.perc \in Int /\ slip.fixed \in Int
  /\ slip.open \in BOOLEAN /\ slip.limit \in BOOLEAN
  /\ slip.match \in BOOLEAN /\ slip.out \in BOOLEAN

LimitTypes == {"Limit", "StopLimit", "StopTrailLimit"}

InBar(p, bar) == p \in Int /\ bar.low <= p /\ p <= bar.high

\* Before slippage, an order that triggers fills inside the bar's range: at
\* the open, at the limit or at the stop level (try_fill_order's switch).
LEMMA RawPriceInBar ==
  ASSUME NEW o, NEW bar, IsTriable(o), IsBar(bar), Triggered(o, bar)
  PROVE  InBar(RawPrice(o, bar), bar)
<1> USE DEF IsTriable, IsBar, InBar
<1>1. CASE o.type = "Market"
  BY <1>1 DEF RawPrice
<1>2. CASE o.type = "Stop"
  BY <1>2 DEF RawPrice, Triggered, StopReached, Worse, Min2, Max2
<1>3. CASE o.type = "StopTrail"
  BY <1>3 DEF RawPrice, Triggered, TrailReached, StopReached, Worse, Min2, Max2
<1>4. CASE o.type \in LimitTypes
  <2>1. LimitReached(o.side, o.price, bar)
    BY <1>4 DEF LimitTypes, Triggered
  <2>2. RawPrice(o, bar) = Better(o.side, o.price, bar.open)
    BY <1>4 DEF LimitTypes, RawPrice
  <2> QED  BY <2>1, <2>2 DEF LimitReached, Better, Min2, Max2
<1> QED  BY <1>1, <1>2, <1>3, <1>4 DEF OrderTypes, LimitTypes

\* Unless slip_out is set, slippage stays in the bar's range or cancels the
\* fill (apply_slippage).
LEMMA SlippageInBar ==
  ASSUME NEW slip, NEW bar, NEW p \in Int, NEW side \in OrderSides,
         IsSlip(slip), IsBar(bar), ~slip.out,
         ApplySlippage(slip, p, side, bar) # None
  PROVE  InBar(ApplySlippage(slip, p, side, bar), bar)
<1> DEFINE adjusted == Slipped(slip, p, side)
<1>1. adjusted \in Int
  <2>1. (p * slip.perc) \div 100 \in Int
    BY DEF IsSlip
  <2>2. slip.perc \in Int /\ slip.fixed \in Int
    BY DEF IsSlip
  <2> QED  BY <2>1, <2>2 DEF Slipped
<1>2. \/ ApplySlippage(slip, p, side, bar) = adjusted /\ bar.low <= adjusted /\ adjusted <= bar.high
      \/ ApplySlippage(slip, p, side, bar) = Clamp(adjusted, bar)
  BY DEF ApplySlippage
<1> HIDE DEF adjusted
<1>3. InBar(Clamp(adjusted, bar), bar)
  BY <1>1 DEF InBar, IsBar, Clamp, Min2, Max2
<1> QED  BY <1>1, <1>2, <1>3 DEF InBar

\* The backtest never invents a price: unless slip_out asks for it, every fill
\* is at a price between the low and the high of the bar it happens on.
THEOREM FillsInsideBar ==
  ASSUME NEW slip, NEW o, NEW bar, IsSlip(slip), IsTriable(o), IsBar(bar),
         ~slip.out, FillPrice(slip, o, bar) # None
  PROVE  InBar(FillPrice(slip, o, bar), bar)
<1>1. Triggered(o, bar)
  BY DEF FillPrice
<1>2. InBar(RawPrice(o, bar), bar)
  BY <1>1, RawPriceInBar
<1>3. CASE Slips(slip, o)
  <2>1. FillPrice(slip, o, bar) = ApplySlippage(slip, RawPrice(o, bar), o.side, bar)
    BY <1>1, <1>3 DEF FillPrice
  <2> QED  BY <1>2, <2>1, SlippageInBar DEF IsTriable, InBar
<1>4. CASE ~Slips(slip, o)
  BY <1>1, <1>2, <1>4 DEF FillPrice
<1> QED  BY <1>3, <1>4

\* With slippage off for limit orders, a buy never fills above its limit and a
\* sell never below it.  (With slip_limit on, the default, it may.)
THEOREM LimitIsALimit ==
  ASSUME NEW slip, NEW o, NEW bar, IsTriable(o), IsBar(bar),
         o.type \in LimitTypes, ~slip.limit, FillPrice(slip, o, bar) # None
  PROVE  IF o.side = "Buy" THEN FillPrice(slip, o, bar) <= o.price
                           ELSE FillPrice(slip, o, bar) >= o.price
<1>1. ~Slips(slip, o)
  BY DEF Slips, LimitTypes
<1>2. FillPrice(slip, o, bar) = Better(o.side, o.price, bar.open)
  BY <1>1 DEF FillPrice, RawPrice, LimitTypes
<1> QED  BY <1>2 DEF IsTriable, IsBar, Better, Min2, Max2

\* The level update_trail_stop aims at is a number, ...
LEMMA TrailTargetType ==
  ASSUME NEW o, NEW bar, IsBar(bar), o.trail.perc \in Int, o.trail.amount \in Int
  PROVE  TrailTarget(o, bar) \in Int
<1>1. \A n \in Int : TrailDistance(o, n) \in Int
  <2>1. \A n \in Int : (n * o.trail.perc) \div 100 \in Int
    OBVIOUS
  <2> QED  BY <2>1 DEF TrailDistance
<1> QED  BY <1>1 DEF IsBar, TrailTarget

\* ... and so is the price of a fill.
LEMMA FillPriceType ==
  ASSUME NEW slip, NEW o, NEW bar, IsSlip(slip), IsTriable(o), IsBar(bar),
         FillPrice(slip, o, bar) # None
  PROVE  FillPrice(slip, o, bar) \in Int
<1>1. Triggered(o, bar) /\ RawPrice(o, bar) \in Int
  BY RawPriceInBar DEF FillPrice, InBar
<1>2. CASE ~Slips(slip, o)
  BY <1>1, <1>2 DEF FillPrice
<1>3. CASE Slips(slip, o)
  <2> DEFINE p == RawPrice(o, bar)
  <2>1. (p * slip.perc) \div 100 \in Int
    BY <1>1 DEF IsSlip
  <2>2. Slipped(slip, p, o.side) \in Int
    BY <1>1, <2>1 DEF Slipped, IsSlip
  <2>3. FillPrice(slip, o, bar) = ApplySlippage(slip, p, o.side, bar)
    BY <1>1, <1>3 DEF FillPrice
  <2> HIDE DEF p
  <2> QED  BY <2>2, <2>3 DEF ApplySlippage, IsBar, Clamp, Min2, Max2
<1> QED  BY <1>2, <1>3

\* A trailing stop that is set never moves away from the market, and after a
\* bar it is at least as tight as the bar's extreme demands
\* (update_trail_stop).  A level of exactly 0 counts as not set.
THEOREM TrailOnlyTightens ==
  ASSUME NEW o, NEW bar, IsTriable(o), IsBar(bar), "trailStop" \in DOMAIN o,
         o.trail.perc \in Int, o.trail.amount \in Int
  PROVE  LET new == UpdateTrailStop(o, bar).trailStop
         IN  IF o.side = "Sell"
             THEN new >= TrailTarget(o, bar) /\ (o.trailStop # 0 => new >= o.trailStop)
             ELSE new <= TrailTarget(o, bar) /\ (o.trailStop # 0 => new <= o.trailStop)
<1> DEFINE target == TrailTarget(o, bar)
           new    == UpdateTrailStop(o, bar).trailStop
<1>1. o.trailStop \in Int /\ target \in Int
  BY TrailTargetType DEF IsTriable
<1>2. new = IF Tightens(o, target) THEN target ELSE o.trailStop
  BY DEF UpdateTrailStop
<1> HIDE DEF target, new
<1>3. IF o.side = "Sell" THEN new >= target /\ (o.trailStop # 0 => new >= o.trailStop)
                         ELSE new <= target /\ (o.trailStop # 0 => new <= o.trailStop)
  BY <1>1, <1>2 DEF Tightens
<1> QED  BY <1>3 DEF target, new
-----------------------------------------------------------------------------
(* The account *)

LedgerInv == LedgerTypeOK /\ TradesMatchPositions /\ TradeIdsUnique
-----------------------------------------------------------------------------
(* Types of the pure operators *)

LEMMA AbsType == \A n \in Int : Abs(n) \in Nat /\ (n # 0 => Abs(n) > 0)
BY DEF Abs

LEMMA DivType == \A a \in Int, b \in Int : b > 0 => a \div b \in Int
OBVIOUS

LEMMA CommissionType ==
  ASSUME NEW d \in Feeds, NEW n \in Int, NEW p \in Int
  PROVE  Commission(d, n, p) \in Int
<1> DEFINE fee == Fees[d]
<1>1. /\ fee.type \in {"Percentage", "Fixed", "PerShare"}
      /\ fee.rate \in Int /\ fee.min \in Int
  BY LedgerAssumption
<1>2. Abs(n) \in Int  BY AbsType
<1>3. Abs(n) * p * fee.rate \in Int /\ Abs(n) * fee.rate \in Int
  BY <1>1, <1>2
<1>4. (Abs(n) * p * fee.rate) \div 100 \in Int
  BY <1>3
<1> QED  BY <1>1, <1>3, <1>4 DEF Commission

LEMMA AvgPriceType ==
  ASSUME NEW m \in Int, NEW p \in Int, NEW n \in Int, NEW q \in Int, n # 0
  PROVE  AvgPrice(m, p, n, q) \in Int
<1>1. Abs(m) \in Int /\ Abs(n) \in Int /\ Abs(m) + Abs(n) > 0
  BY AbsType
<1>2. Abs(m) * p + Abs(n) * q \in Int
  BY <1>1
<1> QED  BY <1>1, <1>2, DivType DEF AvgPrice

LEMMA SameSideNonzero ==
  ASSUME NEW m \in Int, NEW n \in Int, SameSide(m, n)
  PROVE  m # 0 /\ n # 0
BY DEF SameSide

LEMMA PositionAfterType ==
  ASSUME NEW pos \in [size : Int, price : Int], NEW n \in Int, NEW p \in Int
  PROVE  PositionAfter(pos, n, p) \in [size : Int, price : Int]
<1>1. SameSide(pos.size, n) => AvgPrice(pos.size, pos.price, n, p) \in Int
  BY AvgPriceType, SameSideNonzero
<1> QED  BY <1>1 DEF PositionAfter

LEMMA TradeAfterType ==
  ASSUME NEW t \in Trades, NEW n \in Int, NEW p \in Int, NEW comm \in Int
  PROVE  /\ TradeAfter(t, n, p, comm) \in Trades
         /\ TradeAfter(t, n, p, comm).id = t.id
         /\ TradeAfter(t, n, p, comm).feed = t.feed
<1>1. /\ t.id \in Nat /\ t.feed \in Feeds
      /\ t.size \in Int /\ t.price \in Int /\ t.pnl \in Int /\ t.comm \in Int
  BY DEF Trades
<1>2. n # 0 => AvgPrice(t.size, t.price, n, p) \in Int
  BY <1>1, AvgPriceType
<1>3. t.pnl - n * (p - t.price) \in Int
  BY DEF Trades
<1> QED  BY <1>1, <1>2, <1>3 DEF TradeAfter, Trades

LEMMA NewTradeType ==
  ASSUME NEW id \in Nat, NEW d \in Feeds, NEW n \in Int, NEW p \in Int, NEW comm \in Int
  PROVE  /\ NewTrade(id, d, n, p, comm) \in Trades
         /\ NewTrade(id, d, n, p, comm).id = id
         /\ NewTrade(id, d, n, p, comm).feed = d
BY TradeAfterType DEF NewTrade, Trades

\* A trade opened by a nonzero fill has the size and the price of the fill.
LEMMA NewTradeSize ==
  ASSUME NEW id \in Nat, NEW d \in Feeds, NEW n \in Int, n # 0,
         NEW p \in Int, NEW comm \in Int
  PROVE  /\ NewTrade(id, d, n, p, comm).size = n
         /\ NewTrade(id, d, n, p, comm).price = p
BY DEF NewTrade, TradeAfter
-----------------------------------------------------------------------------
(* The trade update_trades works on, and the frame of a fill *)

\* While the position is not flat, the search finds the one trade that is open.
LEMMA FirstOnIsTheOne ==
  ASSUME LedgerInv, NEW d \in Feeds, position[d].size # 0
  PROVE  /\ OpenOn(d) = {FirstOn(d)}
         /\ FirstOn(d) \in openTrades /\ FirstOn(d) \in Trades
         /\ FirstOn(d).feed = d
         /\ FirstOn(d).size = position[d].size
         /\ FirstOn(d).price = position[d].price
<1>1. PICK t \in openTrades : /\ OpenOn(d) = {t}
                             /\ t.size = position[d].size
                             /\ t.price = position[d].price
  BY DEF LedgerInv, TradesMatchPositions
<1>2. t \in Trades /\ t.id \in Nat /\ t.feed = d
  BY <1>1 DEF LedgerInv, LedgerTypeOK, OpenOn, Trades
<1>3. FirstOn(d) = t
  BY <1>1, <1>2 DEF FirstOn
<1> QED  BY <1>1, <1>2, <1>3

\* When the trades of d are replaced by none or by u, in accordance with the
\* new position of d, everything still matches: no other feed is touched.
LEMMA Reassemble ==
  ASSUME LedgerInv, NEW d \in Feeds, NEW pos, NEW u,
         position' = [position EXCEPT ![d] = pos],
         \/ pos.size = 0 /\ openTrades' = openTrades \ OpenOn(d)
         \/ /\ pos.size # 0 /\ openTrades' = (openTrades \ OpenOn(d)) \union {u}
            /\ u.feed = d /\ u.size = pos.size /\ u.price = pos.price
  PROVE  TradesMatchPositions'
<1> SUFFICES ASSUME NEW e \in Feeds
             PROVE  /\ position'[e].size = 0 => OpenOn(e)' = {}
                    /\ position'[e].size # 0 =>
                         \E t \in openTrades' : /\ OpenOn(e)' = {t}
                                               /\ t.size = position'[e].size
                                               /\ t.price = position'[e].price
  BY DEF TradesMatchPositions, OpenOn
<1>1. OpenOn(e)' = {t \in openTrades' : t.feed = e}
  BY DEF OpenOn
<1>2. CASE e = d
  <2>1. OpenOn(e)' = IF pos.size = 0 THEN {} ELSE {u}
    BY <1>1, <1>2 DEF OpenOn
  <2>2. position'[e] = pos
    BY <1>2 DEF LedgerInv, LedgerTypeOK
  <2> QED  BY <2>1, <2>2, <1>1, <1>2
<1>3. CASE e # d
  <2>1. OpenOn(e)' = OpenOn(e)
    BY <1>1, <1>3 DEF OpenOn
  <2>2. position'[e] = position[e]
    BY <1>3 DEF LedgerInv, LedgerTypeOK
  <2>3. OpenOn(e)' \subseteq openTrades'
    BY <1>1
  <2> QED  BY <2>1, <2>2, <2>3 DEF LedgerInv, TradesMatchPositions
<1> QED  BY <1>2, <1>3
-----------------------------------------------------------------------------
(* One lemma per way a fill changes the trades.  Each shows the trades of  *)
(* the feed after the fill, that they match the position, and that ids     *)
(* stay fresh.                                                             *)

LEMMA OpenKeepsLedger ==
  ASSUME LedgerInv, NEW d \in Feeds, NEW n \in Int, n # 0,
         NEW p \in Int, NEW comm \in Int, OpenTrade(d, n, p, comm),
         position' = [position EXCEPT ![d] = PositionAfter(@, n, p)]
  PROVE  /\ TradesMatchPositions' /\ TradeIdsUnique'
         /\ openTrades' \subseteq Trades /\ closedTrades' \subseteq Trades
         /\ nextTradeId' \in Nat
<1> DEFINE u == NewTrade(nextTradeId, d, n, p, comm)
           pos == PositionAfter(position[d], n, p)
<1>1. /\ nextTradeId \in Nat /\ position[d] \in [size : Int, price : Int]
      /\ openTrades \subseteq Trades /\ closedTrades \subseteq Trades
  BY DEF LedgerInv, LedgerTypeOK
<1>2. u \in Trades /\ u.id = nextTradeId /\ u.feed = d /\ u.size = n /\ u.price = p
  BY <1>1, NewTradeType, NewTradeSize
<1>3. OpenOn(d) = {}
  BY DEF OpenTrade, LedgerInv, TradesMatchPositions
<1>4. pos.size = n /\ pos.price = p
  BY <1>1 DEF PositionAfter, SameSide, OpenTrade
<1>5. openTrades' = (openTrades \ OpenOn(d)) \union {u}
  BY <1>3 DEF OpenTrade
<1>6. TradesMatchPositions'
  <2>1. position' = [position EXCEPT ![d] = pos]
    OBVIOUS
  <2> HIDE DEF u, pos
  <2>2. /\ pos.size # 0 /\ openTrades' = (openTrades \ OpenOn(d)) \union {u}
        /\ u.feed = d /\ u.size = pos.size /\ u.price = pos.price
    BY <1>2, <1>4, <1>5
  <2> QED  BY <2>1, <2>2, Reassemble
<1>7. TradeIdsUnique'
  <2>1. \A t \in openTrades \union closedTrades : t.id \in Nat /\ t.id < nextTradeId
    BY <1>1 DEF LedgerInv, TradeIdsUnique, Trades
  <2>2. /\ openTrades' = openTrades \union {u} /\ closedTrades' = closedTrades
        /\ nextTradeId' = nextTradeId + 1
    BY DEF OpenTrade
  <2> HIDE DEF u
  <2> QED  BY <1>1, <1>2, <2>1, <2>2 DEF LedgerInv, TradeIdsUnique
<1> QED  BY <1>1, <1>2, <1>6, <1>7 DEF OpenTrade

LEMMA GrowKeepsLedger ==
  ASSUME LedgerInv, NEW d \in Feeds, NEW n \in Int, n # 0,
         NEW p \in Int, NEW comm \in Int, GrowTrade(d, n, p, comm),
         position' = [position EXCEPT ![d] = PositionAfter(@, n, p)]
  PROVE  /\ TradesMatchPositions' /\ TradeIdsUnique'
         /\ openTrades' \subseteq Trades /\ closedTrades' \subseteq Trades
         /\ nextTradeId' \in Nat
<1> DEFINE t == FirstOn(d)
           u == TradeAfter(t, n, p, comm)
           pos == PositionAfter(position[d], n, p)
<1>1. /\ nextTradeId \in Nat /\ position[d] \in [size : Int, price : Int]
      /\ openTrades \subseteq Trades /\ closedTrades \subseteq Trades
  BY DEF LedgerInv, LedgerTypeOK
<1>2. position[d].size \in Int /\ SameSide(position[d].size, n) /\ position[d].size # 0
  BY <1>1, SameSideNonzero DEF GrowTrade
<1>3. /\ OpenOn(d) = {t} /\ t \in openTrades /\ t \in Trades /\ t.feed = d
      /\ t.size = position[d].size /\ t.price = position[d].price
  BY <1>2, FirstOnIsTheOne
<1>4. u \in Trades /\ u.id = t.id /\ u.feed = d
  BY <1>3, TradeAfterType
<1>5. u.size = pos.size /\ u.price = pos.price /\ pos.size # 0
  BY <1>2, <1>3 DEF TradeAfter, PositionAfter, SameSide
<1>6. /\ openTrades' = (openTrades \ {t}) \union {u} /\ closedTrades' = closedTrades
      /\ nextTradeId' = nextTradeId
  BY <1>3 DEF GrowTrade, Replace
<1> HIDE DEF t, u, pos
<1>7. TradesMatchPositions'
  <2>1. position' = [position EXCEPT ![d] = pos]
    BY DEF pos
  <2>2. /\ pos.size # 0 /\ openTrades' = (openTrades \ OpenOn(d)) \union {u}
        /\ u.feed = d /\ u.size = pos.size /\ u.price = pos.price
    BY <1>3, <1>4, <1>5, <1>6
  <2> QED  BY <2>1, <2>2, Reassemble
<1>8. TradeIdsUnique'
  BY <1>3, <1>4, <1>6 DEF LedgerInv, TradeIdsUnique
<1> QED  BY <1>1, <1>4, <1>6, <1>7, <1>8

LEMMA ShrinkKeepsLedger ==
  ASSUME LedgerInv, NEW d \in Feeds, NEW n \in Int, n # 0,
         NEW p \in Int, NEW comm \in Int, ShrinkTrade(d, n, p, comm),
         position' = [position EXCEPT ![d] = PositionAfter(@, n, p)]
  PROVE  /\ TradesMatchPositions' /\ TradeIdsUnique'
         /\ openTrades' \subseteq Trades /\ closedTrades' \subseteq Trades
         /\ nextTradeId' \in Nat
<1> DEFINE t == FirstOn(d)
           u == TradeAfter(t, n, p, comm)
           pos == PositionAfter(position[d], n, p)
<1>1. /\ nextTradeId \in Nat /\ position[d] \in [size : Int, price : Int]
      /\ openTrades \subseteq Trades /\ closedTrades \subseteq Trades
  BY DEF LedgerInv, LedgerTypeOK
<1>2. position[d].size \in Int /\ ~SameSide(position[d].size, n) /\ position[d].size # 0
  BY <1>1 DEF ShrinkTrade
<1>3. /\ OpenOn(d) = {t} /\ t \in openTrades /\ t \in Trades /\ t.feed = d
      /\ t.size = position[d].size /\ t.price = position[d].price
  BY <1>2, FirstOnIsTheOne
<1>4. u \in Trades /\ u.id = t.id /\ u.feed = d /\ t.id \in Nat
  BY <1>3, TradeAfterType DEF Trades
<1>5. u.size = t.size + n /\ u.price = t.price /\ pos.size = t.size + n
  BY <1>2, <1>3 DEF TradeAfter, PositionAfter
<1>6. pos.size # 0 => pos.price = t.price
  <2>1. Abs(n) <= Abs(t.size)
    BY <1>3 DEF ShrinkTrade
  <2>2. t.size + n # 0 => SameSide(t.size, t.size + n)
    BY <2>1, <1>2, <1>3 DEF Abs, SameSide
  <2> QED  BY <2>2, <1>2, <1>3 DEF PositionAfter
<1>7. nextTradeId' = nextTradeId
  BY DEF ShrinkTrade
<1>8. CASE t.size + n = 0
  <2>1. openTrades' = openTrades \ {t} /\ closedTrades' = closedTrades \union {u}
    BY <1>2, <1>3, <1>5, <1>8 DEF ShrinkTrade
  <2> HIDE DEF t, u, pos
  <2>2. TradesMatchPositions'
    <3>1. position' = [position EXCEPT ![d] = pos]
      BY DEF pos
    <3>2. pos.size = 0 /\ openTrades' = openTrades \ OpenOn(d)
      BY <1>3, <1>5, <1>8, <2>1
    <3> QED  BY <3>1, <3>2, Reassemble
  <2>3. TradeIdsUnique'
    BY <1>3, <1>4, <1>7, <2>1 DEF LedgerInv, TradeIdsUnique
  <2> QED  BY <1>1, <1>4, <1>7, <2>1, <2>2, <2>3
<1>9. CASE t.size + n # 0
  <2>1. openTrades' = (openTrades \ {t}) \union {u} /\ closedTrades' = closedTrades
    BY <1>2, <1>3, <1>5, <1>9 DEF ShrinkTrade, Replace
  <2> HIDE DEF t, u, pos
  <2>2. TradesMatchPositions'
    <3>1. position' = [position EXCEPT ![d] = pos]
      BY DEF pos
    <3>2. /\ pos.size # 0 /\ openTrades' = (openTrades \ OpenOn(d)) \union {u}
          /\ u.feed = d /\ u.size = pos.size /\ u.price = pos.price
      BY <1>3, <1>4, <1>5, <1>6, <1>9, <2>1
    <3> QED  BY <3>1, <3>2, Reassemble
  <2>3. TradeIdsUnique'
    BY <1>3, <1>4, <1>7, <2>1 DEF LedgerInv, TradeIdsUnique
  <2> QED  BY <1>1, <1>4, <1>7, <2>1, <2>2, <2>3
<1> QED  BY <1>8, <1>9

LEMMA ReverseKeepsLedger ==
  ASSUME LedgerInv, NEW d \in Feeds, NEW n \in Int, n # 0,
         NEW p \in Int, NEW comm \in Int, ReverseTrade(d, n, p, comm),
         position' = [position EXCEPT ![d] = PositionAfter(@, n, p)]
  PROVE  /\ TradesMatchPositions' /\ TradeIdsUnique'
         /\ openTrades' \subseteq Trades /\ closedTrades' \subseteq Trades
         /\ nextTradeId' \in Nat
<1> DEFINE t == FirstOn(d)
           closeComm == (Abs(t.size) * comm) \div Abs(n)
           c == TradeAfter(t, -t.size, p, closeComm)
           u == NewTrade(nextTradeId, d, n + t.size, p, comm - closeComm)
           pos == PositionAfter(position[d], n, p)
<1>1. /\ nextTradeId \in Nat /\ position[d] \in [size : Int, price : Int]
      /\ openTrades \subseteq Trades /\ closedTrades \subseteq Trades
  BY DEF LedgerInv, LedgerTypeOK
<1>2. position[d].size \in Int /\ ~SameSide(position[d].size, n) /\ position[d].size # 0
  BY <1>1 DEF ReverseTrade
<1>3. /\ OpenOn(d) = {t} /\ t \in openTrades /\ t \in Trades /\ t.feed = d
      /\ t.size = position[d].size /\ t.price = position[d].price
  BY <1>2, FirstOnIsTheOne
<1>4. closeComm \in Int /\ comm - closeComm \in Int
  <2>1. Abs(t.size) \in Int /\ Abs(n) \in Int /\ Abs(n) > 0
    BY <1>2, <1>3, AbsType
  <2>2. Abs(t.size) * comm \in Int
    BY <2>1
  <2>3. closeComm \in Int
    BY <2>1, <2>2, DivType
  <2> QED  BY <2>3
<1>5. Abs(n) > Abs(t.size) /\ t.size \in Int /\ t.id \in Nat
  BY <1>3 DEF ReverseTrade, Trades
<1>6. n + t.size \in Int /\ n + t.size # 0 /\ ~SameSide(t.size, n + t.size)
  BY <1>5, <1>3, <1>2 DEF Abs, SameSide
<1>7. /\ openTrades' = (openTrades \ {t}) \union {u}
      /\ closedTrades' = closedTrades \union {c}
      /\ nextTradeId' = nextTradeId + 1
  BY DEF ReverseTrade, Replace
<1> HIDE DEF closeComm
<1>8. c \in Trades /\ c.id = t.id
  <2> DEFINE m == -t.size
  <2>1. m \in Int
    BY <1>5
  <2> HIDE DEF t, m
  <2>2. TradeAfter(t, m, p, closeComm) \in Trades /\ TradeAfter(t, m, p, closeComm).id = t.id
    BY <1>3, <1>4, <2>1, TradeAfterType
  <2> QED  BY <2>2 DEF m
<1>9. /\ u \in Trades /\ u.id = nextTradeId /\ u.feed = d
      /\ u.size = n + t.size /\ u.price = p
  BY <1>1, <1>4, <1>6, NewTradeType, NewTradeSize
<1>10. pos.size = n + t.size /\ pos.price = p
  <2>1. position[d].size + n = n + t.size
    BY <1>2, <1>3
  <2> QED  BY <2>1, <1>2, <1>3, <1>6 DEF PositionAfter
<1> HIDE DEF t, c, u, pos
<1>11. TradesMatchPositions'
  <2>1. position' = [position EXCEPT ![d] = pos]
    BY DEF pos
  <2>2. /\ pos.size # 0 /\ openTrades' = (openTrades \ OpenOn(d)) \union {u}
        /\ u.feed = d /\ u.size = pos.size /\ u.price = pos.price
    BY <1>3, <1>6, <1>7, <1>9, <1>10
  <2> QED  BY <2>1, <2>2, Reassemble
<1>12. TradeIdsUnique'
  <2>1. \A v \in openTrades \union closedTrades : v.id \in Nat /\ v.id < nextTradeId
    BY <1>1 DEF LedgerInv, TradeIdsUnique, Trades
  <2> QED  BY <1>1, <1>3, <1>5, <1>7, <1>8, <1>9, <2>1 DEF LedgerInv, TradeIdsUnique
<1> QED  BY <1>1, <1>7, <1>8, <1>9, <1>11, <1>12
-----------------------------------------------------------------------------
(* Any fill *)

\* Any fill of nonzero size keeps the account consistent, whatever it costs, ...
LEMMA FillKeepsLedger ==
  ASSUME LedgerInv, NEW d \in Feeds, NEW n \in Int, n # 0, NEW p \in Int, NEW comm \in Int,
         cash' = [cash EXCEPT ![Settle(d)] = @ - (n * p + comm)],
         position' = [position EXCEPT ![d] = PositionAfter(@, n, p)],
         \/ OpenTrade(d, n, p, comm) \/ GrowTrade(d, n, p, comm)
         \/ ShrinkTrade(d, n, p, comm) \/ ReverseTrade(d, n, p, comm)
  PROVE  LedgerInv'
<1>1. /\ TradesMatchPositions' /\ TradeIdsUnique'
      /\ openTrades' \subseteq Trades /\ closedTrades' \subseteq Trades
      /\ nextTradeId' \in Nat
  BY OpenKeepsLedger, GrowKeepsLedger, ShrinkKeepsLedger, ReverseKeepsLedger
<1>2. position' \in [Feeds -> [size : Int, price : Int]]
  <2>1. position \in [Feeds -> [size : Int, price : Int]]
    BY DEF LedgerInv, LedgerTypeOK
  <2>2. PositionAfter(position[d], n, p) \in [size : Int, price : Int]
    BY <2>1, PositionAfterType
  <2> QED  BY <2>1, <2>2
<1>3. cash' \in [Currencies -> Int]
  <2> DEFINE paid == n * p + comm
  <2>1. cash \in [Currencies -> Int] /\ paid \in Int
    BY DEF LedgerInv, LedgerTypeOK
  <2>2. cash' = [cash EXCEPT ![Settle(d)] = @ - paid]
    OBVIOUS
  <2>3. Settle(d) \in Currencies
    BY LedgerAssumption DEF Settle
  <2>4. cash[Settle(d)] - paid \in Int
    BY <2>1, <2>3
  <2> HIDE DEF paid
  <2> QED  BY <2>1, <2>2, <2>4
<1> QED  BY <1>1, <1>2, <1>3 DEF LedgerInv, LedgerTypeOK

\* ... and so with the commission of the fee schedule.
LEMMA ApplyFillKeepsLedger ==
  ASSUME LedgerInv, NEW d \in Feeds, NEW n \in Int, n # 0, NEW p \in Int,
         ApplyFill(d, n, p)
  PROVE  LedgerInv'
<1> DEFINE comm == Commission(d, n, p)
<1>1. comm \in Int
  BY CommissionType
<1>2. /\ cash' = [cash EXCEPT ![Settle(d)] = @ - (n * p + comm)]
      /\ position' = [position EXCEPT ![d] = PositionAfter(@, n, p)]
      /\ \/ OpenTrade(d, n, p, comm) \/ GrowTrade(d, n, p, comm)
         \/ ShrinkTrade(d, n, p, comm) \/ ReverseTrade(d, n, p, comm)
  BY DEF ApplyFill
<1> HIDE DEF comm
<1> QED  BY <1>1, <1>2, FillKeepsLedger

LEMMA LedgerInitInv == LedgerInit => LedgerInv
BY LedgerAssumption DEF LedgerInit, LedgerInv, LedgerTypeOK, TradesMatchPositions,
   TradeIdsUnique, OpenOn

LEMMA LedgerUnchanged == LedgerInv /\ UNCHANGED ledgerVars => LedgerInv'
BY DEF LedgerInv, ledgerVars, LedgerTypeOK, TradesMatchPositions, TradeIdsUnique, OpenOn
-----------------------------------------------------------------------------
(* Sums over a finite set.  SumFunctionOnSet is a fold, defined by a choice *)
(* of the function of all subsets that satisfies its recursion; induction  *)
(* on the number of elements shows that there is one, and that the order   *)
(* in which it takes the elements makes no difference.                     *)

\* The element a sum takes first.
FirstIn(s) == CHOOSE x \in s : TRUE

\* What SumFunctionOnSet computes: the sums of all subsets, the empty one's 0.
SumsUp(f, g, S) ==
  f = [s \in SUBSET S |-> IF s = {} THEN 0 ELSE g[FirstIn(s)] + f[s \ {FirstIn(s)}]]

LEMMA SumDef == \A g, S : SumFunctionOnSet(g, S) = (CHOOSE f : SumsUp(f, g, S))[S]
BY DEF SumFunctionOnSet, FoldFunctionOnSet, MapThenFoldSet, SumsUp, FirstIn

\* Of the natural numbers with some property there is a least one.
LEMMA LeastNumber ==
  ASSUME NEW T \in SUBSET Nat, T # {}
  PROVE  \E n \in T : \A m \in T : n <= m
<1> DEFINE R == OpToRel(<, Nat)
<1>1. IsWellFoundedOn(R, Nat)
  BY NatLessThanWellFounded
<1>2. \A m, n \in Nat : m < n => <<m, n>> \in R
  BY DEF OpToRel
<1> HIDE DEF R
<1>3. PICK n \in T : \A m \in T : ~(<<m, n>> \in R)
  BY <1>1, WFMin
<1>4. \A m \in T : ~(m < n) /\ m \in Nat /\ n \in Nat
  BY <1>2, <1>3
<1> QED  BY <1>4

LEMMA SumExists ==
  ASSUME NEW S, IsFiniteSet(S), NEW g
  PROVE  \E f : SumsUp(f, g, S)
<1> DEFINE Body(f, s) == IF s = {} THEN 0 ELSE g[FirstIn(s)] + f[s \ {FirstIn(s)}]
           Upto(n, f) == \A s \in SUBSET S : Cardinality(s) <= n => f[s] = Body(f, s)
           Bad == {n \in Nat : ~ \E f : Upto(n, f)}
<1>0. \A s \in SUBSET S : IsFiniteSet(s) /\ Cardinality(s) \in Nat /\ Cardinality(s) <= Cardinality(S)
  BY FS_Subset, FS_CardinalityType
<1>1. Bad = {}
  <2> SUFFICES ASSUME Bad # {} PROVE FALSE
    OBVIOUS
  <2>1. PICK n \in Bad : \A m \in Bad : n <= m
    <3> HIDE DEF Bad
    <3>1. Bad \in SUBSET Nat
      BY DEF Bad
    <3> QED  BY <3>1, LeastNumber
  <2>2. CASE n = 0
    <3> DEFINE f == [s \in SUBSET S |-> 0]
    <3>1. \A s \in SUBSET S : Cardinality(s) <= 0 => s = {}
      BY <1>0, FS_EmptySet
    <3>2. Upto(0, f)
      BY <3>1
    <3> QED  BY <2>1, <2>2, <3>2
  <2>3. CASE n # 0
    <3>1. n - 1 \in Nat /\ n - 1 \notin Bad
      <4>1. n \in Nat
        OBVIOUS
      <4> HIDE DEF Bad
      <4> QED  BY <2>1, <2>3, <4>1
    <3>2. PICK f : Upto(n - 1, f)
      BY <3>1
    <3> DEFINE h == [s \in SUBSET S |-> Body(f, s)]
    <3>3. ASSUME NEW s \in SUBSET S, Cardinality(s) <= n
          PROVE  h[s] = Body(h, s)
      <4>1. CASE s = {}
        BY <4>1
      <4>2. CASE s # {}
        <5> DEFINE t == s \ {FirstIn(s)}
        <5>1. FirstIn(s) \in s
          BY <4>2 DEF FirstIn
        <5>2. t \in SUBSET S /\ Cardinality(t) <= n - 1
          <6>1. Cardinality(t) = Cardinality(s) - 1
            BY <1>0, <5>1, FS_RemoveElement
          <6>2. Cardinality(s) \in Nat
            BY <1>0
          <6> QED  BY <3>1, <3>3, <6>1, <6>2
        <5>3. h[t] = Body(f, t) /\ f[t] = Body(f, t)
          BY <3>2, <5>2
        <5>4. h[s] = g[FirstIn(s)] + f[t] /\ Body(h, s) = g[FirstIn(s)] + h[t]
          BY <4>2
        <5> QED  BY <5>3, <5>4
      <4> QED  BY <4>1, <4>2
    <3>4. Upto(n, h)
      BY <3>3
    <3> QED  BY <2>1, <3>4
  <2> QED  BY <2>2, <2>3
<1>2. Cardinality(S) \in Nat
  BY FS_CardinalityType
<1>3. PICK f : Upto(Cardinality(S), f)
  BY <1>1, <1>2
<1> DEFINE h == [s \in SUBSET S |-> f[s]]
<1>4. SumsUp(h, g, S)
  <2>1. ASSUME NEW s \in SUBSET S PROVE h[s] = Body(h, s)
    <3>1. f[s] = Body(f, s)
      BY <1>0, <1>3
    <3>2. s \ {FirstIn(s)} \in SUBSET S
      OBVIOUS
    <3> QED  BY <3>1, <3>2
  <2>2. h = [s \in SUBSET S |-> Body(h, s)]
    BY <2>1
  <2> QED  BY <2>2 DEF SumsUp
<1> QED  BY <1>4

\* The sum over a finite set begins with 0 and takes one element at a time.
LEMMA SumStart == ASSUME NEW g PROVE SumFunctionOnSet(g, {}) = 0
<1>1. PICK f : SumsUp(f, g, {}) /\ SumFunctionOnSet(g, {}) = f[{}]
  <2>1. \E f : SumsUp(f, g, {})
    BY SumExists, FS_EmptySet
  <2> QED  BY <2>1, SumDef
<1> QED  BY <1>1 DEF SumsUp

\* Sums of the same entries are the same, whatever set they are part of.
LEMMA SumsAgree ==
  ASSUME NEW S, IsFiniteSet(S), NEW T, IsFiniteSet(T), NEW g, NEW h, NEW e, NEW f,
         SumsUp(e, g, S), SumsUp(f, h, T)
  PROVE  \A s \in SUBSET S : s \subseteq T /\ (\A x \in s : g[x] = h[x]) => e[s] = f[s]
<1> DEFINE Same(s) == s \subseteq T /\ (\A x \in s : g[x] = h[x])
           Bad == {n \in Nat : \E s \in SUBSET S : Cardinality(s) = n /\ Same(s) /\ e[s] # f[s]}
<1>0. \A s \in SUBSET S : IsFiniteSet(s) /\ Cardinality(s) \in Nat
  BY FS_Subset, FS_CardinalityType
<1>1. Bad = {}
  <2> SUFFICES ASSUME Bad # {} PROVE FALSE
    OBVIOUS
  <2>1. PICK n \in Bad : \A m \in Bad : n <= m
    <3>1. Bad \in SUBSET Nat
      OBVIOUS
    <3> HIDE DEF Bad
    <3> QED  BY <3>1, LeastNumber
  <2>2. PICK s \in SUBSET S : Cardinality(s) = n /\ Same(s) /\ e[s] # f[s]
    OBVIOUS
  <2>3. s # {}
    BY <2>2 DEF SumsUp
  <2> DEFINE x == FirstIn(s)
             t == s \ {x}
  <2>4. x \in s
    BY <2>3 DEF FirstIn
  <2>5. t \in SUBSET S /\ Same(t) /\ g[x] = h[x] /\ s \in SUBSET T
    BY <2>2, <2>4
  <2>6. Cardinality(t) \in Nat /\ Cardinality(t) < n
    <3>1. Cardinality(t) = Cardinality(s) - 1
      BY <1>0, <2>4, FS_RemoveElement
    <3>2. Cardinality(s) \in Nat /\ Cardinality(t) \in Nat
      BY <1>0, <2>5
    <3> QED  BY <2>2, <3>1, <3>2
  <2>7. Cardinality(t) \notin Bad
    <3>1. n \in Nat
      OBVIOUS
    <3> HIDE DEF Bad
    <3> QED  BY <2>1, <2>6, <3>1
  <2>8. e[t] = f[t]
    BY <2>5, <2>6, <2>7
  <2>9. e[s] = g[x] + e[t] /\ f[s] = h[x] + f[t]
    <3> HIDE DEF Same, Bad
    <3> QED  BY <2>3, <2>5 DEF SumsUp
  <2> QED  BY <2>2, <2>5, <2>8, <2>9
<1> QED  BY <1>0, <1>1

LEMMA SumSame ==
  ASSUME NEW S, IsFiniteSet(S), NEW g, NEW h, \A x \in S : g[x] = h[x]
  PROVE  SumFunctionOnSet(g, S) = SumFunctionOnSet(h, S)
<1>1. PICK e : SumsUp(e, g, S) /\ SumFunctionOnSet(g, S) = e[S]
  BY SumExists, SumDef
<1>2. PICK f : SumsUp(f, h, S) /\ SumFunctionOnSet(h, S) = f[S]
  BY SumExists, SumDef
<1>3. e[S] = f[S]
  BY <1>1, <1>2, SumsAgree
<1> QED  BY <1>1, <1>2, <1>3

LEMMA SumFirst ==
  ASSUME NEW S, IsFiniteSet(S), S # {}, NEW g
  PROVE  /\ FirstIn(S) \in S
         /\ SumFunctionOnSet(g, S) = g[FirstIn(S)] + SumFunctionOnSet(g, S \ {FirstIn(S)})
<1> DEFINE x == FirstIn(S)
           T == S \ {x}
<1>1. x \in S
  BY DEF FirstIn
<1>2. IsFiniteSet(T) /\ T \in SUBSET S
  BY FS_Subset
<1>3. PICK e : SumsUp(e, g, S) /\ SumFunctionOnSet(g, S) = e[S]
  BY SumExists, SumDef
<1>4. PICK f : SumsUp(f, g, T) /\ SumFunctionOnSet(g, T) = f[T]
  <2> HIDE DEF T
  <2> QED  BY <1>2, SumExists, SumDef
<1>5. e[T] = f[T]
  <2> HIDE DEF T
  <2> QED  BY <1>2, <1>3, <1>4, SumsAgree
<1>6. e[S] = g[x] + e[T]
  BY <1>3 DEF SumsUp
<1> QED  BY <1>1, <1>3, <1>4, <1>5, <1>6

LEMMA SumType ==
  ASSUME NEW S, IsFiniteSet(S), NEW g, \A x \in S : g[x] \in Int
  PROVE  SumFunctionOnSet(g, S) \in Int
<1> DEFINE Sum(s) == SumFunctionOnSet(g, s)
           Bad == {n \in Nat : \E s \in SUBSET S : Cardinality(s) = n /\ Sum(s) \notin Int}
<1>0. \A s \in SUBSET S : IsFiniteSet(s) /\ Cardinality(s) \in Nat
  BY FS_Subset, FS_CardinalityType
<1>1. Bad = {}
  <2> SUFFICES ASSUME Bad # {} PROVE FALSE
    OBVIOUS
  <2>1. PICK n \in Bad : \A m \in Bad : n <= m
    <3>1. Bad \in SUBSET Nat
      OBVIOUS
    <3> HIDE DEF Bad
    <3> QED  BY <3>1, LeastNumber
  <2>2. PICK s \in SUBSET S : Cardinality(s) = n /\ Sum(s) \notin Int
    OBVIOUS
  <2>3. s # {}
    BY <2>2, SumStart
  <2> DEFINE x == FirstIn(s)
             t == s \ {x}
  <2>4. x \in s /\ Sum(s) = g[x] + Sum(t)
    BY <1>0, <2>3, SumFirst
  <2>5. Cardinality(t) \in Nat /\ Cardinality(t) < n /\ t \in SUBSET S
    <3>1. Cardinality(t) = Cardinality(s) - 1
      BY <1>0, <2>4, FS_RemoveElement
    <3>2. Cardinality(s) \in Nat /\ t \in SUBSET S /\ Cardinality(t) \in Nat
      BY <1>0
    <3> QED  BY <2>2, <3>1, <3>2
  <2>6. Cardinality(t) \notin Bad
    <3>1. n \in Nat
      OBVIOUS
    <3> HIDE DEF Bad
    <3> QED  BY <2>1, <2>5, <3>1
  <2>7. Sum(t) \in Int
    BY <2>5, <2>6
  <2>8. g[x] \in Int
    BY <2>4
  <2> HIDE DEF Sum, x, t
  <2> QED  BY <2>2, <2>4, <2>7, <2>8
<1>2. \A s \in SUBSET S : Sum(s) \in Int
  BY <1>0, <1>1
<1> QED  BY <1>2

\* Any element may be taken first.
LEMMA SumTake ==
  ASSUME NEW S, IsFiniteSet(S), NEW g, \A x \in S : g[x] \in Int, NEW y \in S
  PROVE  SumFunctionOnSet(g, S) = g[y] + SumFunctionOnSet(g, S \ {y})
<1> DEFINE Sum(s) == SumFunctionOnSet(g, s)
           Fine(s) == \A x \in s : Sum(s) = g[x] + Sum(s \ {x})
           Bad == {n \in Nat : \E s \in SUBSET S : Cardinality(s) = n /\ ~Fine(s)}
<1>0. \A s \in SUBSET S : IsFiniteSet(s) /\ Cardinality(s) \in Nat /\ Sum(s) \in Int
  <2>1. ASSUME NEW s \in SUBSET S
        PROVE  IsFiniteSet(s) /\ Cardinality(s) \in Nat /\ Sum(s) \in Int
    <3>1. IsFiniteSet(s)
      BY FS_Subset
    <3> QED  BY <3>1, SumType, FS_CardinalityType
  <2> QED  BY <2>1
<1>1. Bad = {}
  <2> SUFFICES ASSUME Bad # {} PROVE FALSE
    OBVIOUS
  <2>1. PICK n \in Bad : \A m \in Bad : n <= m
    <3>1. Bad \in SUBSET Nat
      OBVIOUS
    <3> HIDE DEF Bad
    <3> QED  BY <3>1, LeastNumber
  <2>2. PICK s \in SUBSET S : Cardinality(s) = n /\ ~Fine(s)
    OBVIOUS
  <2>3. PICK x \in s : Sum(s) # g[x] + Sum(s \ {x})
    BY <2>2
  <2> DEFINE z == FirstIn(s)
             t == s \ {z}
             u == s \ {x}
             v == t \ {x}
  <2>4. z \in s /\ Sum(s) = g[z] + Sum(t)
    BY <1>0, <2>3, SumFirst
  <2>5. x # z
    BY <2>3, <2>4
  <2>6. n \in Nat
    OBVIOUS
  <2>7. \A r \in SUBSET S : Cardinality(r) < n => Fine(r)
    <3> SUFFICES ASSUME NEW r \in SUBSET S, Cardinality(r) < n PROVE Fine(r)
      OBVIOUS
    <3>1. Cardinality(r) \in Nat
      BY <1>0
    <3>2. Cardinality(r) \notin Bad
      <4> HIDE DEF Bad, Fine
      <4> QED  BY <2>1, <2>6, <3>1
    <3> HIDE DEF Fine
    <3> QED  BY <3>1, <3>2
  <2>8. Cardinality(t) < n /\ Cardinality(u) < n
    <3>1. Cardinality(t) = Cardinality(s) - 1 /\ Cardinality(u) = Cardinality(s) - 1
      BY <1>0, <2>4, FS_RemoveElement
    <3> QED  BY <2>2, <2>6, <3>1
  <2>9. Fine(t) /\ Fine(u)
    <3>1. t \in SUBSET S /\ u \in SUBSET S
      OBVIOUS
    <3> HIDE DEF Fine, t, u
    <3> QED  BY <2>7, <2>8, <3>1
  <2>10. Sum(t) = g[x] + Sum(v) /\ Sum(u) = g[z] + Sum(v)
    <3>1. x \in t /\ z \in u /\ u \ {z} = v
      BY <2>4, <2>5
    <3> HIDE DEF t, u, v, Sum
    <3> QED  BY <2>9, <3>1 DEF v
  <2>11. g[x] \in Int /\ g[z] \in Int /\ Sum(v) \in Int
    <3>1. v \in SUBSET S /\ x \in S /\ z \in S
      BY <2>4
    <3> HIDE DEF v, Sum
    <3> QED  BY <1>0, <3>1
  <2> HIDE DEF Sum, z, t, v
  <2>12. Sum(s) = g[x] + Sum(u)
    <3> HIDE DEF u
    <3> QED  BY <2>4, <2>10, <2>11
  <2> QED  BY <2>3, <2>12
<1>2. S \in SUBSET S /\ Cardinality(S) \in Nat
  BY <1>0
<1>3. Fine(S)
  <2> HIDE DEF Fine
  <2> QED  BY <1>1, <1>2
<1> QED  BY <1>3

\* A new entry adds to the sum, ...
LEMMA SumGrows ==
  ASSUME NEW S, IsFiniteSet(S), NEW y \in S, NEW g, NEW h,
         \A x \in S : h[x] \in Int, \A x \in S \ {y} : h[x] = g[x]
  PROVE  SumFunctionOnSet(h, S) = SumFunctionOnSet(g, S \ {y}) + h[y]
<1> DEFINE R == S \ {y}
<1>1. IsFiniteSet(R) /\ \A x \in R : h[x] \in Int
  BY FS_Subset
<1>2. SumFunctionOnSet(h, S) = h[y] + SumFunctionOnSet(h, R)
  BY SumTake
<1> HIDE DEF R
<1>3. SumFunctionOnSet(h, R) = SumFunctionOnSet(g, R)
  BY <1>1, SumSame DEF R
<1>4. SumFunctionOnSet(h, R) \in Int /\ h[y] \in Int
  BY <1>1, SumType
<1> QED  BY <1>2, <1>3, <1>4 DEF R

\* ... and one that changes moves the sum by as much.
LEMMA SumMoves ==
  ASSUME NEW S, IsFiniteSet(S), NEW y \in S, NEW g, NEW h, g[y] \in Int,
         \A x \in S \ {y} : g[x] \in Int /\ h[x] = g[x], h[y] \in Int
  PROVE  SumFunctionOnSet(h, S) = SumFunctionOnSet(g, S) + (h[y] - g[y])
<1> DEFINE R == S \ {y}
<1>1. IsFiniteSet(R)
  BY FS_Subset
<1>2. (\A x \in S : g[x] \in Int) /\ (\A x \in S : h[x] \in Int)
  OBVIOUS
<1> HIDE DEF R
<1>3. /\ SumFunctionOnSet(h, S) = h[y] + SumFunctionOnSet(h, R)
      /\ SumFunctionOnSet(g, S) = g[y] + SumFunctionOnSet(g, R)
  BY <1>2, SumTake DEF R
<1>4. SumFunctionOnSet(h, R) = SumFunctionOnSet(g, R)
  BY <1>1, SumSame DEF R
<1>5. SumFunctionOnSet(g, R) \in Int
  BY <1>1, SumType DEF R
<1>6. g[y] \in Int /\ h[y] \in Int
  OBVIOUS
<1> QED  BY <1>3, <1>4, <1>5, <1>6

\* A sum of zeros is 0.
LEMMA SumZero ==
  ASSUME NEW S, IsFiniteSet(S), NEW g, \A x \in S : g[x] = 0
  PROVE  SumFunctionOnSet(g, S) = 0
<1> DEFINE Bad == {n \in Nat : \E s \in SUBSET S : Cardinality(s) = n /\ SumFunctionOnSet(g, s) # 0}
<1>0. \A s \in SUBSET S : IsFiniteSet(s) /\ Cardinality(s) \in Nat
  BY FS_Subset, FS_CardinalityType
<1>1. Bad = {}
  <2> SUFFICES ASSUME Bad # {} PROVE FALSE
    OBVIOUS
  <2>1. PICK n \in Bad : \A m \in Bad : n <= m
    <3>1. Bad \in SUBSET Nat
      OBVIOUS
    <3> HIDE DEF Bad
    <3> QED  BY <3>1, LeastNumber
  <2>2. PICK s \in SUBSET S : Cardinality(s) = n /\ SumFunctionOnSet(g, s) # 0
    OBVIOUS
  <2>3. s # {}
    BY <2>2, SumStart
  <2> DEFINE t == s \ {FirstIn(s)}
  <2>4. FirstIn(s) \in s /\ SumFunctionOnSet(g, s) = g[FirstIn(s)] + SumFunctionOnSet(g, t)
    BY <1>0, <2>3, SumFirst
  <2>5. t \in SUBSET S /\ Cardinality(t) \in Nat /\ Cardinality(t) < n
    <3>1. Cardinality(t) = Cardinality(s) - 1
      BY <1>0, <2>4, FS_RemoveElement
    <3>2. Cardinality(s) \in Nat /\ t \in SUBSET S /\ Cardinality(t) \in Nat
      BY <1>0
    <3> QED  BY <2>2, <3>1, <3>2
  <2>6. Cardinality(t) \notin Bad
    <3>1. n \in Nat
      OBVIOUS
    <3> HIDE DEF Bad
    <3> QED  BY <2>1, <2>5, <3>1
  <2>7. SumFunctionOnSet(g, t) = 0
    BY <2>5, <2>6
  <2> QED  BY <2>2, <2>4, <2>7
<1>2. S \in SUBSET S /\ Cardinality(S) \in Nat
  BY <1>0
<1> QED  BY <1>1, <1>2
=============================================================================
