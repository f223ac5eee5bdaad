------------------------------ MODULE MCBroker ------------------------------
(***************************************************************************)
(* Small brokers for TLC: a few requests of each kind on bars around the   *)
(* price 10.  The instances differ in their .cfg.                          *)
(***************************************************************************)
EXTENDS Broker

MCFeeds      == {0}
MCCurrencies == {"USD"}
MCFunding    == [c \in MCCurrencies |-> 30]
MCInstrument == [d \in Feeds |-> None]
MCFees       == [d \in Feeds |-> [type |-> "Fixed", rate |-> 1, min |-> 0]]
MCFxRate     == [c \in MCCurrencies |-> None]

\* One tick of slippage on the orders that fill at the market, kept in the bar.
MCSlip == [perc |-> 0, fixed |-> 1, open |-> TRUE, limit |-> FALSE, match |-> TRUE,
           out |-> FALSE]

Request(type, side, price, stop, valid, trail, oco) ==
  [type |-> type, side |-> side, size |-> 1, price |-> price, stop |-> stop, feed |-> 0,
   valid |-> valid, trail |-> [amount |-> trail, perc |-> 0], oco |-> oco]

\* A bar that falls through 10, one that rises through it, one above it.
MCBars == {[open |-> 11, low |-> 8, high |-> 11], [open |-> 9, low |-> 8, high |-> 12],
           [open |-> 12, low |-> 11, high |-> 13]}

TwoBars == {b \in MCBars : b.low < 10}

\* A one-cancels-other pair that one bar can trigger on both sides, an order
\* that expires, a trailing stop and a market order.
LimitBuy   == Request("Limit", "Buy", 9, None, None, 0, 1)
StopBuy    == Request("Stop", "Buy", 0, 12, None, 0, 1)
DayLimit   == Request("Limit", "Sell", 13, None, 1, 0, 0)
Trailing   == Request("StopTrail", "Sell", 0, None, None, 2, 0)
MarketBuy  == Request("Market", "Buy", 0, None, None, 0, 0)

\* Requests the broker turns down: an unknown feed, a stop without its price.
WrongFeed  == [MarketBuy EXCEPT !.feed = 1]
NakedStop  == StrategyRequest("Stop", "Sell", 1, 9, 0)

OcoRequests == {LimitBuy, StopBuy, DayLimit, Trailing, MarketBuy, NakedStop}

\* Brackets around the price 10; main orders of 4 lots are beyond the cash.
MCBrackets == {[side |-> "Buy", limit |-> 12, stop |-> 8, feed |-> 0],
               [side |-> "Sell", limit |-> 8, stop |-> 12, feed |-> 0]}
Sized(n)   == [leg \in {"main", "limit", "stop"} |-> n]
MCHook     == {Sized(1), Sized(4)}
                \union {[Sized(1) EXCEPT ![leg] = None] : leg \in {"main", "limit"}}

\* For callbacks: the same pair, one of the two valid for a bar.
DayBuy            == [LimitBuy EXCEPT !.valid = 1]
ReentrantRequests == {DayBuy, StopBuy, WrongFeed}
=============================================================================
