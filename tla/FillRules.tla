----------------------------- MODULE FillRules ------------------------------
(***************************************************************************)
(* When and at what price the backtest broker fills an order on a bar: the *)
(* switch of BackBroker::try_fill_order, apply_slippage and                *)
(* update_trail_stop.  A bar is [open, low, high], with the open inside    *)
(* the range (CSV rows outside it are not bars of a market).               *)
(***************************************************************************)
EXTENDS Orders

Min2(a, b) == IF a <= b THEN a ELSE b
Max2(a, b) == IF a <= b THEN b ELSE a

IsBar(bar) == /\ bar.low \in Int /\ bar.high \in Int /\ bar.open \in Int
              /\ bar.low <= bar.open /\ bar.open <= bar.high

\* The bar trades through a stop level, against the order's side ...
StopReached(side, level, bar) ==
  IF side = "Buy" THEN bar.high >= level ELSE bar.low <= level

\* ... or through a limit price, in its favour.
LimitReached(side, limit, bar) ==
  IF side = "Buy" THEN bar.low <= limit ELSE bar.high >= limit

\* A stop order without a stop price is rejected when it is tried.
LacksStop(o) == o.type \in {"Stop", "StopLimit"} /\ o.stop = None

\* trail_stop_price == 0.0 is the code's "not set yet".
TrailReached(o, bar) == o.trailStop # 0 /\ StopReached(o.side, o.trailStop, bar)

Triggered(o, bar) ==
  CASE o.type = "Market"         -> TRUE
    [] o.type = "Limit"          -> LimitReached(o.side, o.price, bar)
    [] o.type = "Stop"           -> StopReached(o.side, o.stop, bar)
    [] o.type = "StopLimit"      -> /\ StopReached(o.side, o.stop, bar)
                                    /\ LimitReached(o.side, o.price, bar)
    [] o.type = "StopTrail"      -> TrailReached(o, bar)
    [] o.type = "StopTrailLimit" -> /\ TrailReached(o, bar)
                                    /\ LimitReached(o.side, o.price, bar)

\* The fill a limit price gives is the better of the limit and the open,
\* the fill a stop level gives the worse of the level and the open.
Better(side, a, b) == IF side = "Buy" THEN Min2(a, b) ELSE Max2(a, b)
Worse(side, a, b)  == IF side = "Buy" THEN Max2(a, b) ELSE Min2(a, b)

RawPrice(o, bar) ==
  CASE o.type = "Market"    -> bar.open
    [] o.type = "Stop"      -> Worse(o.side, o.stop, bar.open)
    [] o.type = "StopTrail" -> Worse(o.side, o.trailStop, bar.open)
    [] o.type \in {"Limit", "StopLimit", "StopTrailLimit"}
                            -> Better(o.side, o.price, bar.open)

(***************************************************************************)
(* Slippage.  slip is [perc, fixed, open, limit, match, out]: the          *)
(* percentage and the fixed amount (the setters leave at most one of them  *)
(* nonzero) and the four flags of set_slippage_perc / set_slippage_fixed.  *)
(***************************************************************************)
Slipped(slip, price, side) ==
  LET sign == IF side = "Buy" THEN 1 ELSE -1
  IN  IF slip.perc # 0 THEN price + sign * ((price * slip.perc) \div 100)
                       ELSE price + sign * slip.fixed

Clamp(price, bar) == Max2(bar.low, Min2(price, bar.high))

ApplySlippage_NoMatch(slip, price, side, bar) ==
  LET adjusted == Slipped(slip, price, side)
  IN  IF slip.out \/ Clamp(adjusted, bar) = adjusted THEN adjusted ELSE None

ApplySlippage(slip, price, side, bar) ==
  LET adjusted == Slipped(slip, price, side)
  IN  IF slip.out \/ (bar.low <= adjusted /\ adjusted <= bar.high) THEN adjusted
      ELSE IF slip.match THEN Clamp(adjusted, bar)
      ELSE None

Slips_OneFlag(slip, o) == slip.open

\* slip_open concerns the types that fill at the market, slip_limit the others.
Slips(slip, o) ==
  IF o.type \in {"Market", "Stop", "StopTrail"} THEN slip.open ELSE slip.limit

\* The price at which o fills on bar, or None.  ~LacksStop(o) is assumed.
FillPrice(slip, o, bar) ==
  IF ~Triggered(o, bar) THEN None
  ELSE IF Slips(slip, o) THEN ApplySlippage(slip, RawPrice(o, bar), o.side, bar)
  ELSE RawPrice(o, bar)

(***************************************************************************)
(* update_trail_stop: the level follows the bar's extreme at the trail     *)
(* distance and only ever tightens, except that a level of 0 counts as not *)
(* set.  trail is [amount, perc]; a positive percentage takes precedence.  *)
(***************************************************************************)
TrailDistance(o, extreme) ==
  IF o.trail.perc > 0 THEN (extreme * o.trail.perc) \div 100 ELSE o.trail.amount

TrailTarget(o, bar) ==
  IF o.side = "Sell" THEN bar.high - TrailDistance(o, bar.high)
                     ELSE bar.low + TrailDistance(o, bar.low)

Tightens_BothDown(o, level) == o.trailStop = 0 \/ level < o.trailStop

Tightens(o, level) ==
  \/ o.trailStop = 0
  \/ IF o.side = "Sell" THEN level > o.trailStop ELSE level < o.trailStop

UpdateTrailStop(o, bar) ==
  IF Tightens(o, TrailTarget(o, bar))
  THEN [o EXCEPT !.trailStop = TrailTarget(o, bar)]
  ELSE o
=============================================================================
