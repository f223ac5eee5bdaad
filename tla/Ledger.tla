------------------------------- MODULE Ledger -------------------------------
(***************************************************************************)
(* The money side of BackBroker: cash per currency, the net position of    *)
(* each feed, and the round-trip trades a fill opens, grows, shrinks,      *)
(* closes or reverses (Position::update, Trade::update, update_trades, the *)
(* second half of try_fill_order).                                         *)
(*                                                                         *)
(* Sizes are lots and prices are ticks, both integers.  The two means the  *)
(* code takes in floating point, the weighted entry price and the share of *)
(* a commission, round down here: an instance that wants them exact        *)
(* chooses prices that divide (see the README).                            *)
(***************************************************************************)
EXTENDS Orders, FiniteSetsExt

CONSTANTS
  Feeds,        \* the data indices of the run
  Currencies,
  BaseCcy,      \* base_ccy_
  Funding,      \* cash of each currency when the run starts (set_cash, deposit)
  Instrument,   \* feed -> None (legacy) or [ccy, unitMargin, percMargin]
  Fees,         \* feed -> [type, rate, min], of the venue or legacy_commission_
  FxRate        \* currency -> None or the rate from the base currency

ASSUME LedgerAssumption ==
  /\ BaseCcy \in Currencies
  /\ Funding \in [Currencies -> Int]
  /\ \A d \in Feeds : Instrument[d] = None \/ Instrument[d].ccy \in Currencies
  /\ Fees \in [Feeds -> [type : {"Percentage", "Fixed", "PerShare"}, rate : Nat, min : Nat]]

VARIABLES
  cash,          \* cash_
  position,      \* positions_: feed -> [size, price]; size is signed
  openTrades,    \* open_trades_, ids in push order
  closedTrades,  \* closed_trades_
  nextTradeId

ledgerVars == <<cash, position, openTrades, closedTrades, nextTradeId>>

Abs(n) == IF n < 0 THEN -n ELSE n
-----------------------------------------------------------------------------
(* Costs *)

\* CommissionInfo::calculate and the venues' fee schedules.
Commission(d, size, price) ==
  LET fee == Fees[d]
      due == CASE fee.type = "Percentage" -> (Abs(size) * price * fee.rate) \div 100
               [] fee.type = "Fixed"      -> fee.rate
               [] fee.type = "PerShare"   -> Abs(size) * fee.rate
  IN  IF due < fee.min THEN fee.min ELSE due

\* The currency a fill on feed d is paid in.
Settle(d) == IF Instrument[d] = None THEN BaseCcy ELSE Instrument[d].ccy

\* Instrument::initial_margin: per unit (futures) plus a share of the notional.
InitialMargin(d, size, price) ==
  Abs(size) * Instrument[d].unitMargin
    + (Abs(size) * price * Instrument[d].percMargin) \div 100

\* The buying power check of try_fill_order; only buys are checked.
Affordable(d, size, price) ==
  LET comm == Commission(d, size, price)
      ccy  == Settle(d)
  IN  IF Instrument[d] = None
      THEN size * price + comm <= cash[BaseCcy]
      ELSE InitialMargin(d, size, price) + comm
             <= cash[ccy] + IF ccy # BaseCcy /\ FxRate[ccy] # None
                            THEN FxRate[ccy] * cash[BaseCcy] ELSE 0
-----------------------------------------------------------------------------
(* Positions and trades *)

SameSide(m, n) == (m > 0 /\ n > 0) \/ (m < 0 /\ n < 0)

AvgPrice_Unweighted(m, p, n, q) == (p + q) \div 2

\* Entry price after n lots at price q join m lots at price p, same side.
AvgPrice(m, p, n, q) == (Abs(m) * p + Abs(n) * q) \div (Abs(m) + Abs(n))

PositionAfter_Replaced(pos, n, price) == [size |-> n, price |-> price]

PositionAfter(pos, n, price) ==
  LET size == pos.size + n
  IN  [size |-> size,
       price |-> IF size = 0 THEN 0
                 ELSE IF SameSide(pos.size, n) THEN AvgPrice(pos.size, pos.price, n, price)
                 ELSE IF SameSide(pos.size, size) THEN pos.price
                 ELSE price]

\* Trade::update; a fill of size 0 changes nothing.
TradeAfter(t, n, price, comm) ==
  LET grows == t.size = 0 \/ SameSide(t.size, n)
  IN  IF n = 0 THEN t
      ELSE [id    |-> t.id,
            feed  |-> t.feed,
            size  |-> t.size + n,
            price |-> IF t.size = 0 THEN price
                      ELSE IF grows THEN AvgPrice(t.size, t.price, n, price)
                      ELSE t.price,
            pnl   |-> IF grows THEN t.pnl ELSE t.pnl - n * (price - t.price),
            comm  |-> t.comm + comm]

NewTrade(id, d, n, price, comm) ==
  TradeAfter([id |-> id, feed |-> d, size |-> 0, price |-> 0, pnl |-> 0, comm |-> 0],
             n, price, comm)

OpenOn(d) == {t \in openTrades : t.feed = d}

\* The one the search of update_trades finds: the first in the vector.
FirstOn(d) == CHOOSE t \in OpenOn(d) : \A u \in OpenOn(d) : t.id <= u.id

Replace_NoErase(t, u) == openTrades \union {u}
Replace(t, u) == (openTrades \ {t}) \union {u}

OpenTrade_IdReused(d, n, price, comm) ==
  /\ position[d].size = 0
  /\ openTrades' = openTrades \union {NewTrade(nextTradeId, d, n, price, comm)}
  /\ UNCHANGED <<closedTrades, nextTradeId>>

OpenTrade(d, n, price, comm) ==
  /\ position[d].size = 0
  /\ openTrades' = openTrades \union {NewTrade(nextTradeId, d, n, price, comm)}
  /\ nextTradeId' = nextTradeId + 1
  /\ UNCHANGED closedTrades

GrowTrade(d, n, price, comm) ==
  /\ SameSide(position[d].size, n)
  /\ openTrades' = IF OpenOn(d) = {} THEN openTrades
                   ELSE Replace(FirstOn(d), TradeAfter(FirstOn(d), n, price, comm))
  /\ UNCHANGED <<closedTrades, nextTradeId>>

\* The fill is no larger than the trade: it shrinks, or closes.
ShrinkTrade(d, n, price, comm) ==
  /\ position[d].size # 0 /\ ~SameSide(position[d].size, n)
  /\ OpenOn(d) # {} => Abs(n) <= Abs(FirstOn(d).size)
  /\ LET t == FirstOn(d)
         u == TradeAfter(t, n, price, comm)
     IN  IF OpenOn(d) = {} THEN UNCHANGED <<openTrades, closedTrades>>
         ELSE IF t.size # 0 /\ u.size = 0
         THEN /\ openTrades' = openTrades \ {t}
              /\ closedTrades' = closedTrades \union {u}
         ELSE openTrades' = Replace(t, u) /\ UNCHANGED closedTrades
  /\ UNCHANGED nextTradeId

\* The fill is larger: it closes the trade with its share of the commission
\* and opens the opposite one with the rest.
ReverseTrade(d, n, price, comm) ==
  /\ position[d].size # 0 /\ ~SameSide(position[d].size, n)
  /\ OpenOn(d) # {} /\ Abs(n) > Abs(FirstOn(d).size)
  /\ LET t         == FirstOn(d)
         closeComm == (Abs(t.size) * comm) \div Abs(n)
     IN  /\ closedTrades' = closedTrades \union {TradeAfter(t, -t.size, price, closeComm)}
         /\ openTrades' = Replace(t, NewTrade(nextTradeId, d, n + t.size, price,
                                              comm - closeComm))
  /\ nextTradeId' = nextTradeId + 1

\* What a fill of n lots (signed) at price does to the account.
ApplyFill(d, n, price) ==
  LET comm == Commission(d, n, price)
  IN  /\ cash' = [cash EXCEPT ![Settle(d)] = @ - (n * price + comm)]
      /\ position' = [position EXCEPT ![d] = PositionAfter(@, n, price)]
      /\ \/ OpenTrade(d, n, price, comm)
         \/ GrowTrade(d, n, price, comm)
         \/ ShrinkTrade(d, n, price, comm)
         \/ ReverseTrade(d, n, price, comm)

LedgerInit ==
  /\ cash = Funding
  /\ position = [d \in Feeds |-> [size |-> 0, price |-> 0]]
  /\ openTrades = {}
  /\ closedTrades = {}
  /\ nextTradeId = 1
-----------------------------------------------------------------------------
(* What the account promises *)

Trades == [id : Nat, feed : Feeds, size : Int, price : Int, pnl : Int, comm : Int]

LedgerTypeOK ==
  /\ cash \in [Currencies -> Int]
  /\ position \in [Feeds -> [size : Int, price : Int]]
  /\ openTrades \subseteq Trades
  /\ closedTrades \subseteq Trades
  /\ nextTradeId \in Nat

\* No two trades are open on a feed, and the open one carries exactly the
\* size and the entry price of the feed's position: the two structures
\* update_trades and Position::update maintain separately never drift apart.
TradesMatchPositions ==
  \A d \in Feeds :
    /\ position[d].size = 0 => OpenOn(d) = {}
    /\ position[d].size # 0 =>
         \E t \in openTrades :
           /\ OpenOn(d) = {t}
           /\ t.size = position[d].size
           /\ t.price = position[d].price

\* A trade id names one trade for good: no two trades share one, and a trade
\* that has been reported closed is not also still open.
TradeIdsUnique ==
  /\ \A t, u \in openTrades : t.id = u.id => t = u
  /\ \A t, u \in closedTrades : t.id = u.id => t = u
  /\ \A t \in openTrades, u \in closedTrades : t.id # u.id
  /\ \A t \in openTrades \union closedTrades : t.id < nextTradeId

\* Money is conserved: in every currency, the cash and the cost of the open
\* positions are what the run started with plus the realised profit less
\* the commissions of all trades, open and closed.
CashIdentity ==
  LET cost == [d \in Feeds |-> position[d].size * position[d].price]
      net  == [t \in openTrades \union closedTrades |-> t.pnl - t.comm]
  IN  \A c \in Currencies :
        cash[c] + SumFunctionOnSet(cost, {d \in Feeds : Settle(d) = c})
          = Funding[c] + SumFunctionOnSet(net, {t \in DOMAIN net : Settle(t.feed) = c})
=============================================================================
