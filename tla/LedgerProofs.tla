---------------------------- MODULE LedgerProofs ----------------------------
(***************************************************************************)
(* The account keeps its trades and its positions in step, and its money   *)
(* adds up, for every set of feeds, every fee schedule and every sequence  *)
(* of fills of nonzero size.                                               *)
(***************************************************************************)
EXTENDS LedgerFills, FillProofs

LEMMA LedgerInvHolds ==
  ASSUME 0 \notin Sizes
  PROVE  Spec => []LedgerInv
<1>1. Init => LedgerInv
  BY LedgerInitInv DEF Init
<1>2. LedgerInv /\ [Next]_vars => LedgerInv'
  <2> SUFFICES ASSUME LedgerInv, [Next]_vars PROVE LedgerInv'
    OBVIOUS
  <2>1. ASSUME NEW d \in Feeds, NEW size \in Sizes, NEW price \in Prices,
               Buy(d, size, price)
        PROVE  LedgerInv'
    <3>1. size \in Int /\ size # 0 /\ price \in Int
      BY FillsAssumption
    <3> QED  BY <2>1, <3>1, ApplyFillKeepsLedger DEF Buy
  <2>2. ASSUME NEW d \in Feeds, NEW size \in Sizes, NEW price \in Prices,
               Sell(d, size, price)
        PROVE  LedgerInv'
    <3>1. -size \in Int /\ -size # 0 /\ price \in Int
      BY FillsAssumption
    <3> QED  BY <2>2, <3>1, ApplyFillKeepsLedger DEF Sell
  <2>3. CASE UNCHANGED vars
    BY <2>3, LedgerUnchanged DEF vars, ledgerVars
  <2> QED  BY <2>1, <2>2, <2>3 DEF Next
<1>3. QED  BY <1>1, <1>2, PTL DEF Spec

\* Over any sequence of buys and sells of nonzero size, positions_ and
\* open_trades_ agree on every feed (try_fill_order, update_trades).
THEOREM LedgerConsistent ==
  ASSUME 0 \notin Sizes
  PROVE  Spec => []TradesMatchPositions
BY LedgerInvHolds, PTL DEF LedgerInv

\* Over any such sequence a trade id names one trade for good: ids are never
\* reused, not even by a fill that reverses a position (next_trade_id_).
THEOREM LedgerIdsUnique ==
  ASSUME 0 \notin Sizes
  PROVE  Spec => []TradeIdsUnique
BY LedgerInvHolds, PTL DEF LedgerInv
-----------------------------------------------------------------------------
(* Money.  A position that grows takes the mean of two prices, and the     *)
(* model rounds it down, so what its lots cost is kept exactly only while  *)
(* no mean has a remainder.  Opening, shrinking, closing and reversing     *)
(* take no mean of prices, and a reversal splits its commission so that    *)
(* the two parts add up however the first is rounded.                      *)

\* What the trades of T settled in c have earned, and what the lots of the
\* positions pos settled in c cost.
NetOf(t) == t.pnl - t.comm
CostOf(pos) == pos.size * pos.price
InCurrency(c, d, x) == IF Settle(d) = c THEN x ELSE 0
TotalNet(c, T) ==
  SumFunctionOnSet([t \in T |-> NetOf(t)], {t \in T : Settle(t.feed) = c})
TotalCost(c, pos) ==
  SumFunctionOnSet([d \in Feeds |-> pos[d].size * pos[d].price], {d \in Feeds : Settle(d) = c})

\* n lots at price join the position of d with nothing to round.
MeanIsWhole(d, n, price) ==
  LET pos == position[d]
  IN  SameSide(pos.size, n) =>
        (Abs(pos.size) * pos.price + Abs(n) * price) % (Abs(pos.size) + Abs(n)) = 0

NoMeanRounds ==
  \A d \in Feeds, size \in Sizes, price \in Prices :
    /\ Buy(d, size, price) => MeanIsWhole(d, size, price)
    /\ Sell(d, size, price) => MeanIsWhole(d, -size, price)

\* A step that pays out of the currency of d and gives d a new position.
Books(d, paid, new) ==
  /\ cash' = [cash EXCEPT ![Settle(d)] = @ - paid]
  /\ position' = [position EXCEPT ![d] = new]

TradesFinite == IsFiniteSet(openTrades \union closedTrades)

LEMMA IdentityByTotals ==
  CashIdentity <=>
    \A c \in Currencies :
      cash[c] + TotalCost(c, position)
        = Funding[c] + TotalNet(c, openTrades \union closedTrades)
BY DEF CashIdentity, TotalCost, TotalNet, NetOf

LEMMA IdentityByTotalsNext ==
  CashIdentity' <=>
    \A c \in Currencies :
      cash'[c] + TotalCost(c, position')
        = Funding[c] + TotalNet(c, openTrades' \union closedTrades')
BY DEF CashIdentity, TotalCost, TotalNet, NetOf

LEMMA TotalNetType ==
  ASSUME NEW T, IsFiniteSet(T), T \subseteq Trades, NEW c
  PROVE  TotalNet(c, T) \in Int
<1> DEFINE S == {t \in T : Settle(t.feed) = c}
           g == [t \in T |-> NetOf(t)]
<1>1. IsFiniteSet(S)
  BY FS_Subset
<1>2. \A t \in S : g[t] \in Int
  BY DEF NetOf, Trades
<1>3. TotalNet(c, T) = SumFunctionOnSet(g, S)
  BY DEF TotalNet
<1> HIDE DEF g, S
<1> QED  BY <1>1, <1>2, <1>3, SumType

\* A trade that joins adds what it earned, in its currency.
LEMMA TotalNetGrows ==
  ASSUME NEW T, IsFiniteSet(T), T \subseteq Trades, NEW u \in Trades, u \notin T, NEW c
  PROVE  TotalNet(c, T \union {u})
           = TotalNet(c, T) + InCurrency(c, u.feed, NetOf(u))
<1> DEFINE U == T \union {u}
           S == {t \in T : Settle(t.feed) = c}
           R == {t \in U : Settle(t.feed) = c}
           g == [t \in T |-> NetOf(t)]
           h == [t \in U |-> NetOf(t)]
<1>1. IsFiniteSet(S) /\ IsFiniteSet(U)
  BY FS_Subset, FS_AddElement
<1>2. IsFiniteSet(R)
  BY <1>1, FS_Subset
<1>3. TotalNet(c, T) = SumFunctionOnSet(g, S) /\ TotalNet(c, U) = SumFunctionOnSet(h, R)
  BY DEF TotalNet
<1>4. /\ \A t \in U : h[t] = NetOf(t) /\ NetOf(t) \in Int
      /\ \A t \in T : g[t] = NetOf(t)
  BY DEF NetOf, Trades
<1>5. CASE Settle(u.feed) = c
  <2>1. u \in R /\ R \ {u} = S
    BY <1>5
  <2>2. (\A t \in R : h[t] \in Int) /\ (\A t \in R \ {u} : h[t] = g[t])
    BY <1>4
  <2> HIDE DEF g, h, R, S
  <2>3. SumFunctionOnSet(h, R) = SumFunctionOnSet(g, R \ {u}) + h[u]
    BY <1>2, <2>1, <2>2, SumGrows
  <2> QED  BY <1>3, <1>4, <1>5, <2>1, <2>3 DEF InCurrency
<1>6. CASE Settle(u.feed) # c
  <2>1. R = S /\ \A t \in S : h[t] = g[t]
    BY <1>4, <1>6
  <2>2. TotalNet(c, T) \in Int
    BY TotalNetType
  <2> HIDE DEF g, h, R, S
  <2>3. SumFunctionOnSet(h, S) = SumFunctionOnSet(g, S)
    BY <1>1, <2>1, SumSame
  <2> QED  BY <1>3, <1>6, <2>1, <2>2, <2>3 DEF InCurrency
<1> QED  BY <1>5, <1>6

\* One that takes another's place moves it by the difference.
LEMMA TotalNetMoves ==
  ASSUME NEW R, IsFiniteSet(R), R \subseteq Trades, NEW t \in Trades, t \notin R,
         NEW u \in Trades, u \notin R, u.feed = t.feed, NEW c
  PROVE  TotalNet(c, R \union {u})
           = TotalNet(c, R \union {t})
               + InCurrency(c, t.feed, NetOf(u) - NetOf(t))
<1>1. TotalNet(c, R \union {t}) = TotalNet(c, R) + InCurrency(c, t.feed, NetOf(t))
  BY TotalNetGrows
<1>2. TotalNet(c, R \union {u}) = TotalNet(c, R) + InCurrency(c, u.feed, NetOf(u))
  BY TotalNetGrows
<1>3. TotalNet(c, R) \in Int /\ NetOf(t) \in Int /\ NetOf(u) \in Int
  BY TotalNetType DEF NetOf, Trades
<1> QED  BY <1>1, <1>2, <1>3 DEF InCurrency

\* ... and two that take its place by what both come to.
LEMMA TotalNetSplits ==
  ASSUME NEW R, IsFiniteSet(R), R \subseteq Trades, NEW t \in Trades, t \notin R,
         NEW u \in Trades, u \notin R, u.feed = t.feed,
         NEW w \in Trades, w \notin R \union {u}, w.feed = t.feed, NEW c
  PROVE  TotalNet(c, (R \union {u}) \union {w})
           = TotalNet(c, R \union {t})
               + InCurrency(c, t.feed, (NetOf(u) - NetOf(t)) + NetOf(w))
<1> DEFINE U == R \union {u}
           T == R \union {t}
           a == NetOf(u) - NetOf(t)
           b == NetOf(w)
<1>1. TotalNet(c, U) = TotalNet(c, T) + InCurrency(c, t.feed, a)
  BY TotalNetMoves
<1>2. U \subseteq Trades /\ IsFiniteSet(U) /\ w \notin U /\ T \subseteq Trades /\ IsFiniteSet(T)
  BY FS_AddElement
<1>3. a \in Int /\ b \in Int
  BY DEF NetOf, Trades
<1> HIDE DEF U, T, a
<1>4. TotalNet(c, U \union {w}) = TotalNet(c, U) + InCurrency(c, w.feed, b)
  BY <1>2, TotalNetGrows
<1> HIDE DEF b
<1>5. TotalNet(c, T) \in Int
  BY <1>2, TotalNetType
<1>6. TotalNet(c, U \union {w}) = TotalNet(c, T) + InCurrency(c, t.feed, a + b)
  BY <1>1, <1>3, <1>4, <1>5 DEF InCurrency
<1> QED  BY <1>6 DEF U, T, a, b

\* So does a position that changes with what its lots cost.
LEMMA TotalCostMoves ==
  ASSUME IsFiniteSet(Feeds), NEW pos \in [Feeds -> [size : Int, price : Int]],
         NEW d \in Feeds, NEW new \in [size : Int, price : Int], NEW c
  PROVE  /\ TotalCost(c, pos) \in Int
         /\ TotalCost(c, [pos EXCEPT ![d] = new])
              = TotalCost(c, pos)
                  + InCurrency(c, d, new.size * new.price - pos[d].size * pos[d].price)
<1> DEFINE after == [pos EXCEPT ![d] = new]
           S == {e \in Feeds : Settle(e) = c}
           g == [e \in Feeds |-> pos[e].size * pos[e].price]
           h == [e \in Feeds |-> after[e].size * after[e].price]
<1>1. IsFiniteSet(S)
  BY FS_Subset
<1>2. TotalCost(c, pos) = SumFunctionOnSet(g, S) /\ TotalCost(c, after) = SumFunctionOnSet(h, S)
  BY DEF TotalCost
<1>3. \A e \in Feeds : g[e] \in Int
  OBVIOUS
<1>4. /\ h[d] = new.size * new.price /\ g[d] = pos[d].size * pos[d].price
      /\ h[d] \in Int /\ g[d] \in Int
      /\ \A e \in Feeds \ {d} : h[e] = g[e]
  OBVIOUS
<1>5. S \subseteq Feeds /\ (d \in S <=> Settle(d) = c)
  OBVIOUS
<1>6. SumFunctionOnSet(g, S) \in Int
  <2> HIDE DEF g, S
  <2> QED  BY <1>1, <1>3, <1>5, SumType
<1>7. CASE Settle(d) = c
  <2> HIDE DEF g, h, S, after
  <2>1. SumFunctionOnSet(h, S) = SumFunctionOnSet(g, S) + (h[d] - g[d])
    BY <1>1, <1>3, <1>4, <1>5, <1>7, SumMoves
  <2> QED  BY <1>2, <1>4, <1>6, <1>7, <2>1 DEF after, InCurrency
<1>8. CASE Settle(d) # c
  <2> HIDE DEF g, h, S, after
  <2>1. SumFunctionOnSet(h, S) = SumFunctionOnSet(g, S)
    BY <1>1, <1>4, <1>5, <1>8, SumSame
  <2> QED  BY <1>2, <1>6, <1>8, <2>1 DEF after, InCurrency
<1> QED  BY <1>7, <1>8
-----------------------------------------------------------------------------
(* What each way a fill changes the trades does to the money               *)

\* The identity holds after a fill if the cost of the position moved by what
\* was paid less what the trades of the feed earned by it.
LEMMA MoneyMoves ==
  ASSUME LedgerInv, CashIdentity, TradesFinite, IsFiniteSet(Feeds),
         NEW d \in Feeds, NEW paid \in Int, NEW earned \in Int,
         NEW new \in [size : Int, price : Int],
         Books(d, paid, new),
         \A c \in Currencies :
           TotalNet(c, openTrades' \union closedTrades')
             = TotalNet(c, openTrades \union closedTrades)
                 + InCurrency(c, d, earned),
         new.size * new.price - position[d].size * position[d].price = paid + earned
  PROVE  CashIdentity'
<1> SUFFICES ASSUME NEW c \in Currencies
             PROVE  cash'[c] + TotalCost(c, position')
                      = Funding[c] + TotalNet(c, openTrades' \union closedTrades')
  BY IdentityByTotalsNext
<1> DEFINE net   == TotalNet(c, openTrades \union closedTrades)
           net2  == TotalNet(c, openTrades' \union closedTrades')
           cost  == TotalCost(c, position)
           cost2 == TotalCost(c, position')
<1>1. /\ cash \in [Currencies -> Int] /\ position \in [Feeds -> [size : Int, price : Int]]
      /\ openTrades \union closedTrades \subseteq Trades
  BY DEF LedgerInv, LedgerTypeOK
<1>2. cash[c] + cost = Funding[c] + net
  BY IdentityByTotals
<1>3. net2 = net + InCurrency(c, d, earned)
  OBVIOUS
<1>4. /\ cost \in Int
      /\ cost2 = cost + InCurrency(c, d, paid + earned)
  BY <1>1, TotalCostMoves DEF Books
<1>5. net \in Int /\ Funding[c] \in Int /\ cash[c] \in Int
  BY <1>1, TotalNetType, LedgerAssumption DEF TradesFinite
<1>6. cash'[c] = IF Settle(d) = c THEN cash[c] - paid ELSE cash[c]
  BY <1>1 DEF Books
<1> DEFINE held  == cash[c]
           held2 == cash'[c]
           start == Funding[c]
<1> HIDE DEF net, net2, cost, cost2
<1>7. held2 + cost2 = start + net2
  <2> HIDE DEF held, held2, start
  <2>1. CASE Settle(d) = c
    <3>1. held2 = held - paid
      BY <1>6, <2>1 DEF held, held2
    <3>2. held + cost = start + net /\ held \in Int /\ start \in Int
      BY <1>2, <1>5 DEF held, start
    <3>3. net2 = net + earned /\ cost2 = cost + (paid + earned)
      BY <1>3, <1>4, <2>1 DEF InCurrency
    <3>4. net \in Int /\ cost \in Int
      BY <1>4, <1>5
    <3> QED  BY <3>1, <3>2, <3>3, <3>4
  <2>2. CASE Settle(d) # c
    <3>1. held2 = held
      BY <1>6, <2>2 DEF held, held2
    <3>2. held + cost = start + net
      BY <1>2 DEF held, start
    <3> QED  BY <1>3, <1>4, <1>5, <2>2, <3>1, <3>2 DEF InCurrency
  <2> QED  BY <2>1, <2>2
<1> QED  BY <1>7 DEF net2, cost2

\* A trade changes its result by what its lots gain, less the commission.
LEMMA TradeAfterNet ==
  ASSUME NEW t \in Trades, NEW n \in Int, n # 0, NEW p \in Int, NEW comm \in Int
  PROVE  NetOf(TradeAfter(t, n, p, comm)) - NetOf(t)
           = IF t.size = 0 \/ SameSide(t.size, n) THEN -comm
             ELSE -(n * (p - t.price)) - comm
<1> DEFINE gain == n * (p - t.price)
<1>1. t.pnl \in Int /\ t.comm \in Int /\ t.size \in Int /\ gain \in Int
  BY DEF Trades
<1>2. /\ TradeAfter(t, n, p, comm).comm = t.comm + comm
      /\ TradeAfter(t, n, p, comm).pnl
           = IF t.size = 0 \/ SameSide(t.size, n) THEN t.pnl ELSE t.pnl - gain
  BY DEF TradeAfter
<1> HIDE DEF gain
<1>3. NetOf(TradeAfter(t, n, p, comm)) - NetOf(t)
        = IF t.size = 0 \/ SameSide(t.size, n) THEN -comm ELSE -gain - comm
  BY <1>1, <1>2 DEF NetOf
<1> QED  BY <1>3 DEF gain

LEMMA NewTradeNet ==
  ASSUME NEW id \in Nat, NEW d \in Feeds, NEW n \in Int, n # 0, NEW p \in Int,
         NEW comm \in Int
  PROVE  NetOf(NewTrade(id, d, n, p, comm)) = -comm
BY DEF NewTrade, TradeAfter, NetOf

\* The mean of two prices keeps what the lots cost when it is whole.
LEMMA WholeMeanKeepsCost ==
  ASSUME NEW m \in Int, NEW p \in Int, NEW n \in Int, NEW q \in Int, SameSide(m, n),
         (Abs(m) * p + Abs(n) * q) % (Abs(m) + Abs(n)) = 0
  PROVE  (m + n) * AvgPrice(m, p, n, q) = m * p + n * q
<1> DEFINE a == Abs(m) * p + Abs(n) * q
           b == Abs(m) + Abs(n)
           r == a \div b
<1>1. Abs(m) \in Int /\ Abs(n) \in Int /\ b > 0 /\ b \in Int
  BY SameSideNonzero, AbsType
<1>2. a \in Int
  BY <1>1
<1>3. r \in Int /\ a = b * r
  <2> HIDE DEF a, b
  <2>1. a % b = 0
    BY DEF a, b
  <2> QED  BY <1>1, <1>2, <2>1
<1>4. AvgPrice(m, p, n, q) = r
  BY DEF AvgPrice
<1> HIDE DEF r
<1>5. CASE m > 0 /\ n > 0
  <2>1. a = m * p + n * q /\ b = m + n
    BY <1>5 DEF Abs
  <2> QED  BY <1>3, <1>4, <2>1
<1>6. CASE m < 0 /\ n < 0
  <2>1. a = (-m) * p + (-n) * q /\ b = (-m) + (-n)
    BY <1>6 DEF Abs
  <2>2. (-m) * p = -(m * p) /\ (-n) * q = -(n * q) /\ b = -(m + n)
    BY <2>1
  <2>3. b * r = -((m + n) * r)
    BY <1>3, <2>2
  <2> DEFINE x == m * p
             y == n * q
             z == (m + n) * r
  <2>4. x \in Int /\ y \in Int /\ z \in Int
    BY <1>3
  <2>5. -x + -y = -z
    BY <1>3, <2>1, <2>2, <2>3
  <2> HIDE DEF x, y, z
  <2>6. z = x + y
    BY <2>4, <2>5
  <2> QED  BY <1>4, <2>6 DEF x, y, z
<1> QED  BY <1>5, <1>6 DEF SameSide

\* What a fill knows of the trades and of the position it changes.
LEMMA FillContext ==
  ASSUME LedgerInv, TradesFinite, NEW d \in Feeds
  PROVE  /\ position[d] \in [size : Int, price : Int]
         /\ nextTradeId \in Nat
         /\ openTrades \union closedTrades \subseteq Trades
         /\ IsFiniteSet(openTrades \union closedTrades)
         /\ \A t \in openTrades \union closedTrades : t.id < nextTradeId
         /\ \A t \in openTrades, u \in openTrades \union closedTrades : t.id = u.id => t = u
BY DEF LedgerInv, LedgerTypeOK, TradeIdsUnique, TradesFinite

LEMMA OpenKeepsMoney ==
  ASSUME LedgerInv, CashIdentity, TradesFinite, IsFiniteSet(Feeds),
         NEW d \in Feeds, NEW n \in Int, n # 0, NEW p \in Int, NEW comm \in Int,
         cash' = [cash EXCEPT ![Settle(d)] = @ - (n * p + comm)],
         position' = [position EXCEPT ![d] = PositionAfter(@, n, p)],
         OpenTrade(d, n, p, comm)
  PROVE  CashIdentity' /\ TradesFinite'
<1> DEFINE T   == openTrades \union closedTrades
           u   == NewTrade(nextTradeId, d, n, p, comm)
           new == PositionAfter(position[d], n, p)
           paid == n * p + comm
           earned == -comm
<1>1. /\ position[d] \in [size : Int, price : Int] /\ nextTradeId \in Nat
      /\ T \subseteq Trades /\ IsFiniteSet(T) /\ \A t \in T : t.id < nextTradeId
  BY FillContext
<1>2. u \in Trades /\ u.id = nextTradeId /\ u.feed = d /\ NetOf(u) = earned
  BY <1>1, NewTradeType, NewTradeNet
<1>3. u \notin T
  BY <1>1, <1>2
<1>4. openTrades' \union closedTrades' = T \union {u}
  BY DEF OpenTrade
<1>5. position[d].size = 0 /\ new.size = n /\ new.price = p
  BY <1>1 DEF OpenTrade, PositionAfter, SameSide
<1>6. new \in [size : Int, price : Int]
  BY <1>1, PositionAfterType
<1>7. paid \in Int /\ earned \in Int
  OBVIOUS
<1>8. new.size * new.price - position[d].size * position[d].price = paid + earned
  <2>1. position[d].size * position[d].price = 0
    BY <1>1, <1>5
  <2> QED  BY <1>5, <2>1
<1>9. Books(d, paid, new)
  BY DEF Books
<1> HIDE DEF T, u, new, paid, earned
<1>10. \A c \in Currencies : TotalNet(c, T \union {u})
                               = TotalNet(c, T) + InCurrency(c, d, earned)
  BY <1>1, <1>2, <1>3, TotalNetGrows
<1>11. TradesFinite'
  BY <1>1, <1>4, FS_AddElement DEF TradesFinite
<1>12. CashIdentity'
  <2>1. \A c \in Currencies :
          TotalNet(c, openTrades' \union closedTrades')
            = TotalNet(c, openTrades \union closedTrades)
                + InCurrency(c, d, earned)
    BY <1>4, <1>10 DEF T
  <2> QED  BY <1>6, <1>7, <1>8, <1>9, <2>1, MoneyMoves
<1> QED  BY <1>11, <1>12

\* When the trade of d is replaced by u, whether it stays open or not.
LEMMA SwapKeepsMoney ==
  ASSUME LedgerInv, CashIdentity, TradesFinite, IsFiniteSet(Feeds),
         NEW d \in Feeds, NEW paid \in Int, NEW t \in openTrades, t.feed = d,
         NEW u \in Trades, u.id = t.id, u.feed = d,
         NEW new \in [size : Int, price : Int],
         openTrades' \union closedTrades'
           = ((openTrades \union closedTrades) \ {t}) \union {u},
         Books(d, paid, new),
         CostOf(new) - CostOf(position[d]) = paid + (NetOf(u) - NetOf(t))
  PROVE  CashIdentity' /\ TradesFinite'
<1> DEFINE T == openTrades \union closedTrades
           R == T \ {t}
           earned == NetOf(u) - NetOf(t)
<1>1. /\ T \subseteq Trades /\ IsFiniteSet(T) /\ t \in T
      /\ \A v \in T : t.id = v.id => t = v
  BY FillContext
<1>2. /\ R \subseteq Trades /\ IsFiniteSet(R) /\ t \notin R /\ u \notin R /\ t \in Trades
      /\ T = R \union {t}
  BY <1>1, FS_Subset
<1>3. earned \in Int
  BY <1>2 DEF NetOf, Trades
<1>4. openTrades' \union closedTrades' = R \union {u}
  OBVIOUS
<1> HIDE DEF T, R
<1>5. ASSUME NEW c \in Currencies
      PROVE  TotalNet(c, R \union {u}) = TotalNet(c, T) + InCurrency(c, d, earned)
  <2>1. u.feed = t.feed
    OBVIOUS
  <2>2. TotalNet(c, R \union {u})
          = TotalNet(c, R \union {t}) + InCurrency(c, t.feed, NetOf(u) - NetOf(t))
    BY <1>2, <2>1, TotalNetMoves
  <2> QED  BY <1>2, <2>2
<1>6. new.size * new.price - position[d].size * position[d].price = paid + earned
  BY DEF CostOf
<1> HIDE DEF earned
<1>7. CashIdentity'
  <2>1. \A c \in Currencies :
          TotalNet(c, openTrades' \union closedTrades')
            = TotalNet(c, openTrades \union closedTrades)
                + InCurrency(c, d, earned)
    BY <1>4, <1>5 DEF T
  <2> QED  BY <1>3, <1>6, <2>1, MoneyMoves
<1>8. TradesFinite'
  BY <1>2, <1>4, FS_AddElement DEF TradesFinite
<1> QED  BY <1>7, <1>8

LEMMA GrowKeepsMoney ==
  ASSUME LedgerInv, CashIdentity, TradesFinite, IsFiniteSet(Feeds),
         NEW d \in Feeds, NEW n \in Int, n # 0, NEW p \in Int, NEW comm \in Int,
         cash' = [cash EXCEPT ![Settle(d)] = @ - (n * p + comm)],
         position' = [position EXCEPT ![d] = PositionAfter(@, n, p)],
         GrowTrade(d, n, p, comm), MeanIsWhole(d, n, p)
  PROVE  CashIdentity' /\ TradesFinite'
<1> DEFINE T   == openTrades \union closedTrades
           t   == FirstOn(d)
           u   == TradeAfter(t, n, p, comm)
           pos == position[d]
           new == PositionAfter(pos, n, p)
           paid == n * p + comm
<1>1. pos \in [size : Int, price : Int]
  BY FillContext
<1>2. pos.size \in Int /\ pos.price \in Int /\ SameSide(pos.size, n) /\ pos.size # 0
  BY <1>1, SameSideNonzero DEF GrowTrade
<1>3. /\ OpenOn(d) = {t} /\ t \in openTrades /\ t \in Trades /\ t.feed = d
      /\ t.size = pos.size
  BY <1>2, FirstOnIsTheOne
<1>4. u \in Trades /\ u.id = t.id /\ u.feed = d
  BY <1>3, TradeAfterType
<1>5. NetOf(u) - NetOf(t) = -comm
  BY <1>2, <1>3, TradeAfterNet
<1>6. openTrades' \union closedTrades' = (T \ {t}) \union {u}
  <2>1. openTrades' = (openTrades \ {t}) \union {u} /\ closedTrades' = closedTrades
    BY <1>3 DEF GrowTrade, Replace
  <2>2. t \notin closedTrades
    BY <1>3 DEF LedgerInv, TradeIdsUnique
  <2> HIDE DEF t, u
  <2> QED  BY <2>1, <2>2
<1>7. new \in [size : Int, price : Int]
  BY <1>1, PositionAfterType
<1>8. paid \in Int
  OBVIOUS
<1>9. new.size * new.price - pos.size * pos.price = paid + -comm
  <2>1. (pos.size + n) * AvgPrice(pos.size, pos.price, n, p) = pos.size * pos.price + n * p
    BY <1>2, WholeMeanKeepsCost DEF MeanIsWhole
  <2>2. new.size = pos.size + n /\ new.price = AvgPrice(pos.size, pos.price, n, p)
    BY <1>2 DEF PositionAfter, SameSide
  <2> DEFINE a == new.size * new.price
             b == pos.size * pos.price
             c == n * p
  <2>3. a = b + c
    BY <2>1, <2>2
  <2>4. b \in Int /\ c \in Int
    BY <1>2
  <2>5. paid = c + comm
    OBVIOUS
  <2> HIDE DEF a, b, c, paid
  <2>6. a - b = paid + -comm
    BY <2>3, <2>4, <2>5
  <2> QED  BY <2>6 DEF a, b
<1>10. Books(d, paid, new)
  BY DEF Books
<1>11. CostOf(new) - CostOf(position[d]) = paid + (NetOf(u) - NetOf(t))
  BY <1>5, <1>9 DEF CostOf
<1>12. openTrades' \union closedTrades'
         = ((openTrades \union closedTrades) \ {t}) \union {u}
  BY <1>6
<1> HIDE DEF t, u, new, paid, pos, T
<1> QED  BY <1>3, <1>4, <1>7, <1>8, <1>10, <1>11, <1>12, SwapKeepsMoney

LEMMA ShrinkKeepsMoney ==
  ASSUME LedgerInv, CashIdentity, TradesFinite, IsFiniteSet(Feeds),
         NEW d \in Feeds, NEW n \in Int, n # 0, NEW p \in Int, NEW comm \in Int,
         cash' = [cash EXCEPT ![Settle(d)] = @ - (n * p + comm)],
         position' = [position EXCEPT ![d] = PositionAfter(@, n, p)],
         ShrinkTrade(d, n, p, comm)
  PROVE  CashIdentity' /\ TradesFinite'
<1> DEFINE t   == FirstOn(d)
           u   == TradeAfter(t, n, p, comm)
           pos == position[d]
           new == PositionAfter(pos, n, p)
           paid == n * p + comm
<1>1. pos \in [size : Int, price : Int]
  BY FillContext
<1>2. pos.size \in Int /\ pos.price \in Int /\ ~SameSide(pos.size, n) /\ pos.size # 0
  BY <1>1 DEF ShrinkTrade
<1>3. /\ OpenOn(d) = {t} /\ t \in openTrades /\ t \in Trades /\ t.feed = d
      /\ t.size = pos.size /\ t.price = pos.price
  BY <1>2, FirstOnIsTheOne
<1>4. u \in Trades /\ u.id = t.id /\ u.feed = d /\ u.size = t.size + n
  BY <1>3, TradeAfterType DEF TradeAfter
<1>5. NetOf(u) - NetOf(t) = -(n * (p - pos.price)) - comm
  BY <1>2, <1>3, TradeAfterNet
<1>6. openTrades' \union closedTrades' = ((openTrades \union closedTrades) \ {t}) \union {u}
  <2>1. \/ openTrades' = openTrades \ {t} /\ closedTrades' = closedTrades \union {u}
        \/ openTrades' = (openTrades \ {t}) \union {u} /\ closedTrades' = closedTrades
    BY <1>3 DEF ShrinkTrade, Replace
  <2>2. t \notin closedTrades
    BY <1>3 DEF LedgerInv, TradeIdsUnique
  <2> HIDE DEF t, u
  <2> QED  BY <2>1, <2>2
<1>7. new \in [size : Int, price : Int]
  BY <1>1, PositionAfterType
<1>8. paid \in Int
  OBVIOUS
<1>9. CostOf(new) = (pos.size + n) * pos.price
  <2>1. new.size = pos.size + n
    BY DEF PositionAfter
  <2>2. CASE pos.size + n = 0
    BY <1>2, <1>7, <2>1, <2>2 DEF CostOf
  <2>3. CASE pos.size + n # 0
    <3>1. Abs(n) <= Abs(pos.size)
      BY <1>3 DEF ShrinkTrade
    <3>2. SameSide(pos.size, pos.size + n)
      BY <1>2, <2>3, <3>1 DEF Abs, SameSide
    <3>3. new.price = pos.price
      BY <1>2, <2>3, <3>2 DEF PositionAfter
    <3> QED  BY <2>1, <3>3 DEF CostOf
  <2> QED  BY <2>2, <2>3
<1>10. CostOf(new) - CostOf(position[d]) = paid + (NetOf(u) - NetOf(t))
  <2> DEFINE x == pos.size * pos.price
             y == n * pos.price
             z == n * p
  <2>1. x \in Int /\ y \in Int /\ z \in Int
    BY <1>2
  <2>2. (pos.size + n) * pos.price = x + y /\ n * (p - pos.price) = z - y
    BY <1>2
  <2>3. CostOf(new) = x + y /\ CostOf(pos) = x
    BY <1>9, <2>2 DEF CostOf
  <2>4. NetOf(u) - NetOf(t) = -(z - y) - comm /\ paid = z + comm
    BY <1>5, <2>2
  <2> HIDE DEF x, y, z, u, t, new, paid
  <2> QED  BY <2>1, <2>3, <2>4
<1>11. Books(d, paid, new)
  BY DEF Books
<1> HIDE DEF t, u, new, paid, pos
<1> QED  BY <1>3, <1>4, <1>6, <1>7, <1>8, <1>10, <1>11, SwapKeepsMoney

\* A reversal replaces one trade by two; between them they pay the commission.
LEMMA ReverseKeepsMoney ==
  ASSUME LedgerInv, CashIdentity, TradesFinite, IsFiniteSet(Feeds),
         NEW d \in Feeds, NEW n \in Int, n # 0, NEW p \in Int, NEW comm \in Int,
         cash' = [cash EXCEPT ![Settle(d)] = @ - (n * p + comm)],
         position' = [position EXCEPT ![d] = PositionAfter(@, n, p)],
         ReverseTrade(d, n, p, comm)
  PROVE  CashIdentity' /\ TradesFinite'
<1> DEFINE T   == openTrades \union closedTrades
           t   == FirstOn(d)
           m   == -t.size
           k   == (Abs(t.size) * comm) \div Abs(n)
           u   == TradeAfter(t, m, p, k)
           w   == NewTrade(nextTradeId, d, n + t.size, p, comm - k)
           pos == position[d]
           new == PositionAfter(pos, n, p)
           paid == n * p + comm
           R   == T \ {t}
           U   == R \union {u}
           earned == (NetOf(u) - NetOf(t)) + NetOf(w)
<1>1. /\ pos \in [size : Int, price : Int] /\ nextTradeId \in Nat
      /\ T \subseteq Trades /\ IsFiniteSet(T) /\ \A v \in T : v.id < nextTradeId
      /\ \A v \in openTrades, x \in T : v.id = x.id => v = x
  BY FillContext
<1>2. pos.size \in Int /\ pos.price \in Int /\ ~SameSide(pos.size, n) /\ pos.size # 0
  BY <1>1 DEF ReverseTrade
<1>3. /\ OpenOn(d) = {t} /\ t \in openTrades /\ t \in Trades /\ t.feed = d /\ t \in T
      /\ t.size = pos.size /\ t.price = pos.price
  BY <1>2, FirstOnIsTheOne
<1>4. k \in Int /\ comm - k \in Int
  <2>1. Abs(t.size) \in Int /\ Abs(n) \in Int /\ Abs(n) > 0
    BY <1>2, <1>3, AbsType
  <2>2. Abs(t.size) * comm \in Int
    BY <2>1
  <2>3. k \in Int
    BY <2>1, <2>2, DivType
  <2> QED  BY <2>3
<1>5. /\ openTrades' = (openTrades \ {t}) \union {w}
      /\ closedTrades' = closedTrades \union {u}
      /\ Abs(n) > Abs(t.size)
  BY DEF ReverseTrade, Replace
<1>6. /\ m \in Int /\ m # 0 /\ ~SameSide(t.size, m) /\ t.size # 0
      /\ n + t.size \in Int /\ n + t.size # 0 /\ ~SameSide(t.size, n + t.size)
  BY <1>2, <1>3, <1>5 DEF Abs, SameSide
<1>7. new \in [size : Int, price : Int]
  BY <1>1, PositionAfterType
<1>8. CostOf(new) = (n + t.size) * p
  <2>1. pos.size + n = n + t.size
    BY <1>2, <1>3
  <2>2. new.size = n + t.size /\ new.price = p
    BY <2>1, <1>2, <1>3, <1>6 DEF PositionAfter
  <2> QED  BY <2>2 DEF CostOf
<1> HIDE DEF k
<1>9. u \in Trades /\ u.id = t.id /\ u.feed = d /\ NetOf(u) - NetOf(t) = -(m * (p - t.price)) - k
  <2> HIDE DEF t, m
  <2> QED  BY <1>3, <1>4, <1>6, TradeAfterType, TradeAfterNet
<1>10. w \in Trades /\ w.id = nextTradeId /\ w.feed = d /\ NetOf(w) = -(comm - k)
  <2> DEFINE q == n + t.size
             r == comm - k
  <2>1. q \in Int /\ q # 0 /\ r \in Int
    BY <1>4, <1>6
  <2> HIDE DEF q, r
  <2>2. /\ NewTrade(nextTradeId, d, q, p, r) \in Trades
        /\ NewTrade(nextTradeId, d, q, p, r).id = nextTradeId
        /\ NewTrade(nextTradeId, d, q, p, r).feed = d
        /\ NetOf(NewTrade(nextTradeId, d, q, p, r)) = -r
    <3>1. nextTradeId \in Nat
      BY <1>1
    <3>2. NetOf(NewTrade(nextTradeId, d, q, p, r)) = -r
      BY <2>1, <3>1, NewTradeNet
    <3> QED  BY <2>1, <3>1, <3>2, NewTradeType
  <2> QED  BY <2>2 DEF q, r
<1>11. CostOf(new) - CostOf(pos) = paid + earned
  <2> DEFINE x == pos.size * pos.price
             y == pos.size * p
             z == n * p
  <2>1. x \in Int /\ y \in Int /\ z \in Int
    BY <1>2
  <2>2. (n + t.size) * p = z + y /\ m * (p - t.price) = x - y
    BY <1>2, <1>3
  <2>3. CostOf(new) = z + y /\ CostOf(pos) = x
    BY <1>8, <2>2 DEF CostOf
  <2>4. NetOf(u) - NetOf(t) = -(x - y) - k
    BY <1>9, <2>2
  <2>5. earned = (-(x - y) - k) + -(comm - k) /\ paid = z + comm
    BY <1>10, <2>4
  <2> HIDE DEF x, y, z, earned, paid, new, pos
  <2> QED  BY <1>4, <2>1, <2>3, <2>5
<1>12. openTrades' \union closedTrades' = U \union {w}
  <2>1. t \notin closedTrades
    BY <1>3 DEF LedgerInv, TradeIdsUnique
  <2> HIDE DEF t, u, w
  <2> QED  BY <1>5, <2>1
<1>13. paid \in Int /\ earned \in Int
  <2>0. paid \in Int
    OBVIOUS
  <2>1. \A v \in Trades : NetOf(v) \in Int
    BY DEF NetOf, Trades
  <2>2. NetOf(u) \in Int /\ NetOf(t) \in Int /\ NetOf(w) \in Int
    BY <2>1, <1>3, <1>9, <1>10
  <2> HIDE DEF u, t, w, paid
  <2> QED  BY <2>0, <2>2
<1>14. Books(d, paid, new)
  BY DEF Books
<1> HIDE DEF T, t, m, u, w, new, paid
<1>15. /\ R \subseteq Trades /\ IsFiniteSet(R) /\ t \notin R /\ u \notin R
       /\ T = R \union {t} /\ w \notin U /\ IsFiniteSet(U)
  <2>1. \A v \in R : v.id # t.id
    BY <1>1, <1>3
  <2>2. \A v \in U : v.id < nextTradeId
    BY <1>1, <1>3, <1>9
  <2>3. IsFiniteSet(R) /\ R \subseteq Trades /\ T = R \union {t} /\ t \notin R
    BY <1>1, <1>3, FS_Subset
  <2>4. u \notin R /\ w \notin U
    BY <1>1, <1>9, <1>10, <2>1, <2>2
  <2> HIDE DEF R
  <2>5. IsFiniteSet(U)
    BY <2>3, FS_AddElement
  <2> QED  BY <2>3, <2>4, <2>5
<1> HIDE DEF R
<1>16. TradesFinite'
  BY <1>12, <1>15, FS_AddElement DEF TradesFinite
<1>17. ASSUME NEW c \in Currencies
       PROVE  TotalNet(c, U \union {w}) = TotalNet(c, T) + InCurrency(c, d, earned)
  <2>1. u.feed = t.feed /\ w.feed = t.feed /\ t.feed = d
    BY <1>3, <1>9, <1>10
  <2>2. t \in Trades /\ u \in Trades /\ w \in Trades
    BY <1>3, <1>9, <1>10
  <2>3. TotalNet(c, U \union {w})
          = TotalNet(c, R \union {t}) + InCurrency(c, t.feed, earned)
    BY <1>15, <2>1, <2>2, TotalNetSplits
  <2> QED  BY <1>15, <2>1, <2>3
<1>18. CashIdentity'
  <2>1. \A c \in Currencies :
          TotalNet(c, openTrades' \union closedTrades')
            = TotalNet(c, openTrades \union closedTrades)
                + InCurrency(c, d, earned)
    BY <1>12, <1>17 DEF T
  <2>2. new.size * new.price - position[d].size * position[d].price = paid + earned
    BY <1>11 DEF CostOf
  <2> HIDE DEF earned
  <2> QED  BY <1>7, <1>13, <1>14, <2>1, <2>2, MoneyMoves
<1> QED  BY <1>16, <1>18
-----------------------------------------------------------------------------
LEMMA FillKeepsMoney ==
  ASSUME LedgerInv, CashIdentity, TradesFinite, IsFiniteSet(Feeds),
         NEW d \in Feeds, NEW n \in Int, n # 0, NEW p \in Int,
         ApplyFill(d, n, p), MeanIsWhole(d, n, p)
  PROVE  CashIdentity' /\ TradesFinite'
<1> DEFINE comm == Commission(d, n, p)
<1>1. comm \in Int
  BY CommissionType
<1>2. /\ cash' = [cash EXCEPT ![Settle(d)] = @ - (n * p + comm)]
      /\ position' = [position EXCEPT ![d] = PositionAfter(@, n, p)]
      /\ \/ OpenTrade(d, n, p, comm) \/ GrowTrade(d, n, p, comm)
         \/ ShrinkTrade(d, n, p, comm) \/ ReverseTrade(d, n, p, comm)
  BY DEF ApplyFill
<1> HIDE DEF comm
<1> QED  BY <1>1, <1>2, OpenKeepsMoney, GrowKeepsMoney, ShrinkKeepsMoney, ReverseKeepsMoney

LEMMA MoneyStartsEqual ==
  ASSUME IsFiniteSet(Feeds), LedgerInit
  PROVE  CashIdentity /\ TradesFinite
<1> SUFFICES ASSUME NEW c \in Currencies
             PROVE  cash[c] + TotalCost(c, position)
                      = Funding[c] + TotalNet(c, openTrades \union closedTrades)
  BY IdentityByTotals, FS_EmptySet DEF TradesFinite, LedgerInit
<1>1. TotalNet(c, openTrades \union closedTrades) = 0
  <2> DEFINE g == [t \in {} |-> NetOf(t)]
             S == {t \in {} : Settle(t.feed) = c}
  <2>1. TotalNet(c, openTrades \union closedTrades) = SumFunctionOnSet(g, S)
    BY DEF TotalNet, LedgerInit
  <2>2. S = {}
    OBVIOUS
  <2> HIDE DEF g, S
  <2> QED  BY <2>1, <2>2, SumStart
<1>2. TotalCost(c, position) = 0
  <2> DEFINE g == [d \in Feeds |-> position[d].size * position[d].price]
             S == {d \in Feeds : Settle(d) = c}
  <2>1. TotalCost(c, position) = SumFunctionOnSet(g, S)
    BY DEF TotalCost
  <2>2. \A d \in S : g[d] = 0
    BY DEF LedgerInit
  <2>3. IsFiniteSet(S)
    BY FS_Subset
  <2> HIDE DEF g, S
  <2> QED  BY <2>1, <2>2, <2>3, SumZero
<1>3. cash[c] = Funding[c] /\ Funding[c] \in Int
  BY LedgerAssumption DEF LedgerInit
<1> QED  BY <1>1, <1>2, <1>3

LEMMA MoneyUnchanged ==
  CashIdentity /\ TradesFinite /\ UNCHANGED ledgerVars => CashIdentity' /\ TradesFinite'
BY DEF ledgerVars, CashIdentity, TradesFinite

\* Money is conserved over any sequence of fills of nonzero size, in any
\* number of currencies: as long as no mean of entry prices has a remainder,
\* cash and the cost of the open positions are in every currency exactly the
\* funding plus the realised profit less the commissions (update_trades,
\* Position::update and the cash of try_fill_order never lose or invent any).
THEOREM MoneyIsConserved ==
  ASSUME 0 \notin Sizes, IsFiniteSet(Feeds)
  PROVE  Spec /\ [][NoMeanRounds]_vars => []CashIdentity
<1> DEFINE Inv == LedgerInv /\ CashIdentity /\ TradesFinite
<1>1. Init => Inv
  BY LedgerInitInv, MoneyStartsEqual DEF Init
<1>2. Inv /\ [Next]_vars /\ [NoMeanRounds]_vars => Inv'
  <2> SUFFICES ASSUME Inv, [Next]_vars, [NoMeanRounds]_vars PROVE Inv'
    OBVIOUS
  <2>1. ASSUME NEW d \in Feeds, NEW size \in Sizes, NEW price \in Prices,
               Buy(d, size, price), NoMeanRounds
        PROVE  Inv'
    <3>1. size \in Int /\ size # 0 /\ price \in Int
      BY FillsAssumption
    <3>2. ApplyFill(d, size, price) /\ MeanIsWhole(d, size, price)
      BY <2>1 DEF Buy, NoMeanRounds
    <3> QED  BY <3>1, <3>2, ApplyFillKeepsLedger, FillKeepsMoney
  <2>2. ASSUME NEW d \in Feeds, NEW size \in Sizes, NEW price \in Prices,
               Sell(d, size, price), NoMeanRounds
        PROVE  Inv'
    <3> DEFINE n == -size
    <3>1. n \in Int /\ n # 0 /\ price \in Int
      BY FillsAssumption
    <3>2. ApplyFill(d, n, price) /\ MeanIsWhole(d, n, price)
      BY <2>2 DEF Sell, NoMeanRounds
    <3> HIDE DEF n
    <3> QED  BY <3>1, <3>2, ApplyFillKeepsLedger, FillKeepsMoney
  <2>3. CASE UNCHANGED vars
    BY <2>3, LedgerUnchanged, MoneyUnchanged DEF vars, ledgerVars
  <2> QED  BY <2>1, <2>2, <2>3 DEF Next
<1>3. QED  BY <1>1, <1>2, PTL DEF Spec
=============================================================================
