----------------------------- MODULE LiveProofs -----------------------------
(***************************************************************************)
(* What the live engine keeps for any market, limits, feeds, prices and    *)
(* bounds: a stopped engine is silent, every strategy begins with its      *)
(* nextstart, the risk limits hold whenever no callback is inside,         *)
(* flatten_positions leaves no position out, the status of an order is     *)
(* what the reports about it say, and positions and cash are these reports *)
(* added up.                                                               *)
(*                                                                         *)
(* Each rests on a fact of its own: ControlInv that only an open gate has  *)
(* anybody inside, CallsInv that nextstart_fired_ tells whether the        *)
(* strategy has been called, RiskInv that stop() finds the limits kept,    *)
(* ReportsInv that a report names an order that was sent, BooksInv that    *)
(* the account is consistent and its positions are what has been heard,    *)
(* TrackInv how a report comes out of the one before it, CoverInv which    *)
(* positions a walk of flatten_positions has still to come to.             *)
(***************************************************************************)
EXTENDS LiveEngine, FillProofs

ControlInv ==
  /\ gate # "free" => Open
  /\ started => Open
  /\ app = "starting" => Open
  /\ active => started \/ app = "starting"
  /\ app \in {"replacing", "stopping"} => started
  /\ gate = "stop" <=> app = "stopping"
  /\ timer = "flattening" => killed

\* What the market does reaches neither the book nor the engine.
MarketFrame ==
  UNCHANGED <<ledgerVars, orders, pending, snapshots, heard, lost, controlVars, limitVars,
              strategyVars, gate>>

LEMMA MarketLeaves == MarketSteps => MarketFrame
<1> SUFFICES ASSUME MarketSteps PROVE MarketFrame
  OBVIOUS
<1>1. UNCHANGED <<controlVars, limitVars, strategyVars, gate>>
  BY DEF MarketSteps
<1>2. PICK id \in DOMAIN market :
        \/ \E k \in Lots, p \in Prices : MarketExecutes(id, k, p)
        \/ MarketReports(id)
        \/ \E k \in Lots, p \in Prices : MarketUnwinds(id, k, p)
  BY DEF MarketSteps
<1> HIDE DEF MarketSteps
<1>3. ASSUME NEW k, NEW p, MarketExecutes(id, k, p)
      PROVE  UNCHANGED <<ledgerVars, orders, pending, snapshots, heard, lost>>
  BY <1>3 DEF MarketExecutes
<1>4. MarketReports(id) => UNCHANGED <<ledgerVars, orders, pending, snapshots, heard, lost>>
  BY DEF MarketReports
<1>5. ASSUME NEW k, NEW p, MarketUnwinds(id, k, p)
      PROVE  UNCHANGED <<ledgerVars, orders, pending, snapshots, heard, lost>>
  BY <1>5 DEF MarketUnwinds
<1>6. UNCHANGED <<ledgerVars, orders, pending, snapshots, heard, lost>>
  BY <1>2, <1>3, <1>4, <1>5
<1> QED  BY <1>1, <1>6 DEF MarketFrame

LEMMA SendsAccount ==
  ASSUME NEW d, NEW lots, NEW flatten, NEW status, Sends(d, lots, flatten, status)
  PROVE  UNCHANGED <<cash, position>> /\ (killed => killed')
BY DEF Sends, Place, ledgerVars

LEMMA TripAccount == TriggerKillSwitch => UNCHANGED <<cash, position>> /\ killed'
BY DEF TriggerKillSwitch, Place, ledgerVars

LEMMA FlattensAccount ==
  ASSUME NEW t, FlattensNext(t) PROVE UNCHANGED <<cash, position>> /\ (killed => killed')
BY SendsAccount DEF FlattensNext, liveBrokerVars, ledgerVars

LEMMA ControlStep == ControlInv /\ [Next]_vars => ControlInv'
<1> SUFFICES ASSUME ControlInv, [Next]_vars PROVE ControlInv'
  OBVIOUS
<1> USE DEF ControlInv, Open, controlVars, limitVars
<1>1. CASE MarketSteps
  BY <1>1 DEF MarketSteps
<1>2. CASE Data
  BY <1>2 DEF Data, HandleMarketData, Enters
<1>3. ASSUME NEW r \in bound.requests, NEW status \in {"Accepted", "Canceled"},
             StrategySubmits(r, status)
      PROVE  ControlInv'
  BY <1>3 DEF StrategySubmits, Sends
<1>4. ASSUME NEW id \in DOMAIN orders, StrategyCancels(id) PROVE ControlInv'
  BY <1>4 DEF StrategyCancels
<1>5. CASE Returns \/ EvaluateRisk
  BY <1>5 DEF Returns, EvaluateRisk, TriggerKillSwitch
<1>6. CASE HandleFill \/ DropReport \/ HandleDisconnect
  BY <1>6 DEF HandleFill, DropReport, HandleDisconnect, TriggerKillSwitch, Enters, AfterFill
<1>7. CASE Start \/ Connected \/ Destroy
  BY <1>7 DEF Start, Connected, Destroy
<1>8. CASE StopBegins \/ StopCloses \/ StopReturns
  BY <1>8, FlattensAccount DEF StopBegins, StopCloses, StopReturns
<1>9. CASE ReplaceStrategy \/ ResetNextstart
  BY <1>9 DEF ReplaceStrategy, ResetNextstart
<1>10. CASE Heartbeat
  BY <1>10, FlattensAccount DEF Heartbeat, HeartbeatStale, HeartbeatKills, HeartbeatCloses,
                                HeartbeatReturns
<1>11. CASE WindowPasses \/ UNCHANGED vars
  BY <1>11 DEF WindowPasses, vars
<1> QED
  BY <1>1, <1>2, <1>3, <1>4, <1>5, <1>6, <1>7, <1>8, <1>9, <1>10, <1>11
     DEF Next, Callback, Application
-----------------------------------------------------------------------------
(* nextstart *)

InCall == gate \in {"prenext", "nextstart", "next"}

CallsInv ==
  /\ calls \in Seq({"nextstart", "next"})
  /\ ~raced =>
       /\ \A i \in DOMAIN calls : calls[i] = "nextstart" <=> i = 1
       /\ IF app = "replacing" THEN calls = <<>> /\ ~InCall
          ELSE (fired \/ gate = "nextstart") <=> calls # <<>>

LEMMA DataCalls ==
  ASSUME CallsInv, NEW d \in Feeds, NEW p \in DataPrices, HandleMarketData(d, p)
  PROVE  CallsInv'
<1>1. /\ gate = "free" /\ raced' = (raced \/ app = "replacing") /\ app' = app /\ fired' = fired
      /\ gate' = IF d # 0 \/ ~AllReady(bars') THEN "prenext"
                 ELSE IF fired THEN "next" ELSE "nextstart"
      /\ calls' = IF gate' = "prenext" THEN calls ELSE Append(calls, gate')
  BY DEF HandleMarketData, Enters, controlVars
<1>2. CASE gate' = "prenext"
  BY <1>1, <1>2 DEF CallsInv, InCall
<1>3. CASE gate' # "prenext"
  <2>1. gate' = IF fired THEN "next" ELSE "nextstart"
    BY <1>1, <1>3
  <2>2. /\ calls' = Append(calls, gate') /\ calls' \in Seq({"nextstart", "next"})
        /\ calls' # <<>>
    BY <1>1, <1>3, <2>1 DEF CallsInv
  <2>3. ASSUME ~raced'
        PROVE  /\ \A i \in DOMAIN calls' : calls'[i] = "nextstart" <=> i = 1
               /\ app' # "replacing" /\ (fired' \/ gate' = "nextstart")
    <3>1. ~raced /\ app # "replacing" /\ (fired <=> calls # <<>>)
      BY <2>3, <1>1 DEF CallsInv
    <3>2. CASE fired
      <4>1. Len(calls) \in Nat \ {0} /\ gate' = "next"
        BY <2>1, <3>1, <3>2 DEF CallsInv
      <4> QED  BY <1>1, <2>2, <3>1, <3>2, <4>1 DEF CallsInv
    <3>3. CASE ~fired
      <4>1. calls = <<>> /\ gate' = "nextstart"
        BY <2>1, <3>1, <3>3
      <4>2. DOMAIN calls' = {1} /\ calls'[1] = "nextstart"
        BY <2>2, <4>1
      <4> QED  BY <1>1, <3>1, <4>1, <4>2
    <3> QED  BY <3>2, <3>3
  <2> QED  BY <2>2, <2>3 DEF CallsInv
<1> QED  BY <1>2, <1>3

LEMMA CallsStep == CallsInv /\ ControlInv /\ [Next]_vars => CallsInv'
<1> SUFFICES ASSUME CallsInv, ControlInv, [Next]_vars PROVE CallsInv'
  OBVIOUS
<1> USE DEF CallsInv, InCall, controlVars, strategyVars
<1>1. CASE MarketSteps
  BY <1>1 DEF MarketSteps
<1>2. CASE Data
  BY <1>2, DataCalls DEF Data
<1>3. ASSUME NEW r \in bound.requests, NEW status \in {"Accepted", "Canceled"},
             StrategySubmits(r, status)
      PROVE  CallsInv'
  BY <1>3 DEF StrategySubmits
<1>4. ASSUME NEW id \in DOMAIN orders, StrategyCancels(id) PROVE CallsInv'
  BY <1>4 DEF StrategyCancels
<1>5. CASE Returns
  BY <1>5 DEF Returns
<1>6. CASE EvaluateRisk
  BY <1>6 DEF EvaluateRisk
<1>7. CASE HandleFill \/ DropReport \/ HandleDisconnect
  BY <1>7 DEF HandleFill, DropReport, HandleDisconnect, Enters, AfterFill
<1>8. CASE Start \/ Connected \/ StopBegins \/ StopCloses \/ StopReturns \/ Destroy
  BY <1>8 DEF ControlInv, Start, Connected, StopBegins, StopCloses, StopReturns, Destroy
<1>9. CASE ReplaceStrategy
  BY <1>9 DEF ReplaceStrategy
<1>10. CASE ResetNextstart
  BY <1>10 DEF ResetNextstart
<1>11. CASE HeartbeatStale \/ HeartbeatKills \/ HeartbeatCloses \/ HeartbeatReturns
  BY <1>11 DEF HeartbeatStale, HeartbeatKills, HeartbeatCloses, HeartbeatReturns
<1>12. CASE WindowPasses \/ UNCHANGED vars
  BY <1>12 DEF WindowPasses, vars
<1> QED
  BY <1>1, <1>2, <1>3, <1>4, <1>5, <1>6, <1>7, <1>8, <1>9, <1>10, <1>11, <1>12
     DEF Next, Callback, Application, Heartbeat
-----------------------------------------------------------------------------
(* The risk limits *)

\* What the limits are about changes only with a callback inside.
AccountStays == UNCHANGED <<cash, position, close>>

LEMMA LimitsStay ==
  ASSUME AccountStays
  PROVE  /\ PositionBreached' = PositionBreached
         /\ PortfolioValue' = PortfolioValue
<1>1. cash' = cash /\ position' = position /\ close' = close
  BY DEF AccountStays
<1> QED  BY <1>1 DEF PositionBreached, PortfolioValue

\* stop() holds the gate as nobody had been inside.
RiskInv ==
  gate \in {"free", "stop"} /\ ~killed => ~PositionBreached /\ ~DrawdownBreached(peak)

LEMMA RiskKept ==
  ASSUME RiskInv, AccountStays, gate' \in {"free", "stop"} => gate \in {"free", "stop"},
         peak' = peak, killed => killed'
  PROVE  RiskInv'
BY LimitsStay DEF RiskInv, DrawdownBreached

LEMMA RiskEvaluated ==
  ASSUME EvaluateRisk PROVE RiskInv'
<1>1. AccountStays
  BY TripAccount DEF EvaluateRisk, AccountStays, strategyVars, liveBrokerVars, ledgerVars
<1>2. CASE killed
  BY <1>2 DEF EvaluateRisk, RiskInv
<1>3. CASE ~killed /\ (DrawdownBreached(HighWater) \/ PositionBreached)
  BY <1>3 DEF EvaluateRisk, TriggerKillSwitch, RiskInv
<1>4. CASE ~killed /\ ~DrawdownBreached(HighWater) /\ ~PositionBreached
  <2>1. peak' = HighWater
    BY <1>4 DEF EvaluateRisk
  <2>2. ~DrawdownBreached(peak)' /\ ~PositionBreached'
    BY <1>1, <1>4, <2>1, LimitsStay DEF DrawdownBreached
  <2> QED  BY <2>2 DEF RiskInv
<1> QED  BY <1>2, <1>3, <1>4

LEMMA RiskStep == RiskInv /\ ControlInv /\ [Next]_vars => RiskInv'
<1> SUFFICES ASSUME RiskInv, ControlInv, [Next]_vars PROVE RiskInv'
  OBVIOUS
<1> USE DEF AccountStays, limitVars, strategyVars, liveBrokerVars, ledgerVars
<1>1. CASE MarketSteps
  BY <1>1, MarketLeaves, RiskKept DEF MarketFrame
<1>2. CASE Data
  BY <1>2 DEF Data, HandleMarketData, RiskInv
<1>3. ASSUME NEW r \in bound.requests, NEW status \in {"Accepted", "Canceled"},
             StrategySubmits(r, status)
      PROVE  RiskInv'
  BY <1>3 DEF StrategySubmits, RiskInv
<1>4. ASSUME NEW id \in DOMAIN orders, StrategyCancels(id) PROVE RiskInv'
  BY <1>4, RiskKept DEF StrategyCancels, CancelLive
<1>5. CASE Returns \/ HandleFill
  BY <1>5 DEF Returns, HandleFill, AfterFill, RiskInv
<1>6. CASE EvaluateRisk
  BY <1>6, RiskEvaluated
<1>7. CASE DropReport
  BY <1>7, RiskKept DEF DropReport
<1>8. CASE HandleDisconnect
  BY <1>8, RiskKept, TripAccount DEF HandleDisconnect
<1>9. CASE StopBegins \/ StopReturns
  BY <1>9, RiskKept DEF StopBegins, StopReturns, ControlInv
<1>10. CASE StopCloses
  BY <1>10, RiskKept, FlattensAccount DEF StopCloses
<1>11. CASE Start \/ Connected \/ Destroy \/ ReplaceStrategy \/ ResetNextstart
  BY <1>11, RiskKept DEF Start, Connected, Destroy, ReplaceStrategy, ResetNextstart
<1>12. CASE HeartbeatStale \/ HeartbeatKills \/ HeartbeatReturns
  BY <1>12, RiskKept DEF HeartbeatStale, HeartbeatKills, HeartbeatReturns
<1>13. CASE HeartbeatCloses
  BY <1>13, RiskKept, FlattensAccount DEF HeartbeatCloses
<1>14. CASE WindowPasses \/ UNCHANGED vars
  BY <1>14, RiskKept DEF WindowPasses, vars
<1> QED
  BY <1>1, <1>2, <1>3, <1>4, <1>5, <1>6, <1>7, <1>8, <1>9, <1>10, <1>11, <1>12, <1>13, <1>14
     DEF Next, Callback, Application, Heartbeat
-----------------------------------------------------------------------------
(* Orders that are placed *)

LEMMA IndexedSeq ==
  ASSUME NEW n \in Nat, NEW f, f = [i \in 1 .. n |-> f[i]]
  PROVE  (\E S : f \in Seq(S)) /\ Len(f) = n
<1>1. f \in Seq({f[i] : i \in 1 .. n}) /\ Len(f) = n
  OBVIOUS
<1> QED  BY <1>1

LEMMA Joined ==
  ASSUME NEW S, NEW T, NEW s \in Seq(S), NEW t \in Seq(T)
  PROVE  /\ s \o t \in Seq(S \union T)
         /\ Len(s \o t) = Len(s) + Len(t)
         /\ \A i \in 1 .. Len(s) : (s \o t)[i] = s[i]
         /\ \A i \in Len(s) + 1 .. Len(s) + Len(t) : (s \o t)[i] = t[i - Len(s)]
OBVIOUS

\* The sizes of positions are whole lots.
SizesAreWhole ==
  /\ DOMAIN position = Feeds
  /\ \A d \in Feeds : position[d].size \in Int

\* An order of flatten_positions.
IsClosing(s) ==
  /\ s.flatten = TRUE /\ s.status = "Accepted" /\ s.feed \in Feeds
  /\ SizesAreWhole => s.lots \in Int

\* A set in feed order lists its feeds, and all of them.
LEMMA FeedOrder ==
  ASSUME NEW S \in SUBSET Feeds
  PROVE  /\ Cardinality(S) \in Nat
         /\ \A i \in 1 .. Cardinality(S) : InFeedOrder(S)[i] \in S
         /\ \A d \in S : \E i \in 1 .. Cardinality(S) : InFeedOrder(S)[i] = d
<1> DEFINE n == Cardinality(S)
           upto(d) == {e \in S : e <= d}
           rank == [d \in S |-> Cardinality(upto(d))]
<1>1. IsFiniteSet(S) /\ n \in Nat /\ S \subseteq Int
  <2>1. IsFiniteSet(Feeds)
    BY LiveAssumption, FS_Interval
  <2> QED  BY <2>1, LiveAssumption, FS_Subset, FS_CardinalityType
<1>2. ASSUME NEW d \in S PROVE IsFiniteSet(upto(d)) /\ Cardinality(upto(d)) \in 1 .. n
  <2>1. upto(d) \in SUBSET S /\ d \in upto(d)
    BY <1>1
  <2> HIDE DEF upto
  <2>2. IsFiniteSet(upto(d)) /\ Cardinality(upto(d)) <= n /\ upto(d) # {}
    BY <1>1, <2>1, FS_Subset
  <2> QED  BY <1>1, <2>2, FS_EmptySet, FS_CardinalityType
<1>3. ASSUME NEW d \in S, NEW e \in S, d < e PROVE rank[d] # rank[e]
  <2>1. upto(d) \in SUBSET upto(e) /\ e \in upto(e) /\ e \notin upto(d)
    <3>1. d \in Int /\ e \in Int /\ d < e
      BY <1>1, <1>3
    <3>2. \A x \in S : x <= d => x <= e
      BY <1>1, <3>1
    <3>3. ~(e <= d) /\ e <= e
      BY <3>1
    <3>4. upto(d) \subseteq upto(e)
      BY ONLY <3>2
    <3> QED  BY <3>3, <3>4
  <2>2. IsFiniteSet(upto(e))
    BY <1>2
  <2>3. rank[d] = Cardinality(upto(d)) /\ rank[e] = Cardinality(upto(e))
    OBVIOUS
  <2> HIDE DEF upto, rank
  <2>4. Cardinality(upto(e)) = Cardinality(upto(d)) => upto(e) = upto(d)
    BY <2>1, <2>2, FS_Subset
  <2> QED  BY <2>1, <2>3, <2>4
<1>4. rank \in Injection(S, 1 .. n)
  <2>1. rank \in [S -> 1 .. n]
    BY <1>2
  <2>2. ASSUME NEW d \in S, NEW e \in S, rank[d] = rank[e] PROVE d = e
    <3> HIDE DEF rank
    <3> QED  BY <1>1, <1>3, <2>2
  <2> QED  BY <2>1, <2>2 DEF Injection, IsInjective
<1>5. rank \in Surjection(S, 1 .. n)
  <2>1. IsFiniteSet(1 .. n) /\ Cardinality(1 .. n) = n
    BY <1>1, FS_Interval
  <2> HIDE DEF rank
  <2> QED  BY <1>4, <2>1, FS_Injection
<1>6. ASSUME NEW i \in 1 .. n PROVE InFeedOrder(S)[i] \in S
  <2>1. \E d \in S : rank[d] = i
    <3> HIDE DEF rank
    <3> QED  BY <1>5 DEF Surjection
  <2>2. \E d \in S : Cardinality({e \in S : e <= d}) = i
    BY <2>1
  <2> QED  BY <2>2 DEF InFeedOrder
<1>7. ASSUME NEW d \in S PROVE \E i \in 1 .. n : InFeedOrder(S)[i] = d
  <2> DEFINE i == Cardinality({e \in S : e <= d})
             c == CHOOSE x \in S : Cardinality({e \in S : e <= x}) = i
  <2>1. i \in 1 .. n /\ InFeedOrder(S)[i] = c
    BY <1>2 DEF InFeedOrder
  <2>2. c \in S /\ Cardinality({e \in S : e <= c}) = i
    <3>1. \E x \in S : Cardinality({e \in S : e <= x}) = i
      OBVIOUS
    <3> HIDE DEF i
    <3> QED  BY <3>1
  <2>3. rank[c] = rank[d]
    BY <2>2
  <2>4. \A x, y \in S : rank[x] = rank[y] => x = y
    <3> HIDE DEF rank
    <3> QED  BY <1>4 DEF Injection, IsInjective
  <2> HIDE DEF rank, c, i
  <2>5. c = d
    BY <2>2, <2>3, <2>4
  <2> QED  BY <2>1, <2>5
<1> QED  BY <1>1, <1>6, <1>7

LEMMA NonFlatFeeds ==
  /\ Len(NonFlat) \in Nat
  /\ \A i \in 1 .. Len(NonFlat) : NonFlat[i] \in Feeds
  /\ \A d \in Feeds : position[d].size # 0 => \E i \in 1 .. Len(NonFlat) : NonFlat[i] = d
<1> DEFINE S == {d \in Feeds : position[d].size # 0}
<1>1. S \in SUBSET Feeds /\ NonFlat = InFeedOrder(S)
  BY DEF NonFlat
<1>2. \A d \in Feeds : position[d].size # 0 => d \in S
  OBVIOUS
<1> HIDE DEF S
<1>3. InFeedOrder(S) = [i \in 1 .. Cardinality(S) |-> InFeedOrder(S)[i]]
  BY DEF InFeedOrder
<1>4. Len(NonFlat) = Cardinality(S) /\ Cardinality(S) \in Nat
  BY <1>1, <1>3, FeedOrder, IndexedSeq
<1> QED  BY <1>1, <1>2, <1>4, FeedOrder

\* flatten_positions closes every position.
ClosingOf(d) == Submission(d, -position[d].size, TRUE, "Accepted", TRUE)

LEMMA AllClosingsClose ==
  /\ \E T : AllClosings \in Seq(T)
  /\ \A i \in 1 .. Len(AllClosings) : IsClosing(AllClosings[i])
  /\ \A d \in Feeds : position[d].size # 0 =>
       \E i \in 1 .. Len(AllClosings) : AllClosings[i] = ClosingOf(d)
<1> DEFINE n == Len(NonFlat)
<1>1. n \in Nat
  BY NonFlatFeeds
<1>2. AllClosings = [i \in 1 .. n |-> AllClosings[i]]
  BY DEF AllClosings
<1>3. \A i \in 1 .. n : AllClosings[i] = ClosingOf(NonFlat[i])
  BY DEF AllClosings, ClosingOf
<1>4. (\E T : AllClosings \in Seq(T)) /\ Len(AllClosings) = n
  <2> HIDE DEF n
  <2> QED  BY <1>1, <1>2, IndexedSeq
<1>5. ASSUME NEW i \in 1 .. n PROVE IsClosing(AllClosings[i])
  <2> DEFINE d == NonFlat[i]  s == AllClosings[i]
  <2>1. d \in Feeds
    BY NonFlatFeeds
  <2>2. s = Submission(d, -position[d].size, TRUE, "Accepted", TRUE)
    BY <1>3 DEF ClosingOf
  <2> HIDE DEF d, s
  <2>3. SizesAreWhole => -position[d].size \in Int
    BY <2>1 DEF SizesAreWhole
  <2>4. IsClosing(s)
    BY <2>1, <2>2, <2>3 DEF Submission, IsClosing
  <2> QED  BY <2>4 DEF s
<1> QED  BY <1>3, <1>4, <1>5, NonFlatFeeds

\* What submit_order places: the order, and all closing orders if it was one
\* too many for the rate.
OverRate == ~Unlimited /\ ~killed /\ stamps >= RateLimit

LEMMA SendsPlaces ==
  ASSUME NEW d, NEW lots, NEW flatten, NEW status, Sends(d, lots, flatten, status)
  PROVE  \E subs :
           /\ Place(subs) /\ \E T : subs \in Seq(T)
           /\ 1 \in 1 .. Len(subs)
           /\ subs[1] = Submission(d, lots, flatten, status, CheckOrderRate)
           /\ \A i \in 2 .. Len(subs) : IsClosing(subs[i])
           /\ ~OverRate => Len(subs) = 1
           /\ OverRate => \A e \in Feeds : position[e].size # 0 =>
                            \E i \in 1 .. Len(subs) : subs[i] = ClosingOf(e)
<1> DEFINE one == Submission(d, lots, flatten, status, CheckOrderRate)
           rest == IF OverRate THEN AllClosings ELSE <<>>
           subs == <<one>> \o rest
<1>1. Place(subs)
  BY DEF Sends, OverRate
<1>2. /\ \E T : rest \in Seq(T)
      /\ \A i \in 1 .. Len(rest) : IsClosing(rest[i])
      /\ ~OverRate => Len(rest) = 0
      /\ OverRate => \A e \in Feeds : position[e].size # 0 =>
                       \E i \in 1 .. Len(rest) : rest[i] = ClosingOf(e)
  BY AllClosingsClose
<1> HIDE DEF one, rest
<1>3. PICK T : rest \in Seq(T)
  BY <1>2
<1>4. /\ subs \in Seq({one} \union T) /\ Len(subs) = 1 + Len(rest) /\ subs[1] = one
      /\ \A i \in 2 .. 1 + Len(rest) : subs[i] = rest[i - 1]
  BY <1>3
<1> HIDE DEF subs
<1>5. Len(rest) \in Nat
  BY <1>3
<1>6. ASSUME NEW i \in 2 .. Len(subs) PROVE IsClosing(subs[i])
  <2>1. i - 1 \in 1 .. Len(rest)
    BY <1>4, <1>5
  <2> QED  BY <1>2, <1>4, <2>1
<1>7. ASSUME OverRate, NEW e \in Feeds, position[e].size # 0
      PROVE  \E i \in 1 .. Len(subs) : subs[i] = ClosingOf(e)
  <2>1. PICK i \in 1 .. Len(rest) : rest[i] = ClosingOf(e)
    BY <1>2, <1>7
  <2>2. i + 1 \in 2 .. 1 + Len(rest) /\ i + 1 - 1 = i
    BY <1>5
  <2> QED  BY <1>4, <2>1, <2>2
<1>8. 1 \in 1 .. Len(subs) /\ (~OverRate => Len(subs) = 1)
  BY <1>2, <1>4, <1>5
<1> QED  BY <1>1, <1>4, <1>6, <1>7, <1>8 DEF one

TypesInv ==
  /\ stamps \in Nat
  /\ walk \in [{"timer", "stop"} -> Nat]
  /\ bound \in Bounds

LEMMA FlattensTypes ==
  ASSUME TypesInv, NEW t \in {"timer", "stop"}, FlattensNext(t), bound' = bound PROVE TypesInv'
BY DEF TypesInv, FlattensNext, Sends

LEMMA TypesStep == TypesInv /\ [Next]_vars => TypesInv'
<1> SUFFICES ASSUME TypesInv, [Next]_vars PROVE TypesInv'
  OBVIOUS
<1>0. bound' = bound
  BY DEF Next, vars
<1> USE <1>0 DEF TypesInv, controlVars, limitVars
<1>1. CASE MarketSteps
  BY <1>1 DEF MarketSteps
<1>2. CASE Data
  BY <1>2 DEF Data, HandleMarketData
<1>3. ASSUME NEW r, NEW status, StrategySubmits(r, status) PROVE TypesInv'
  BY <1>3 DEF StrategySubmits, Sends
<1>4. ASSUME NEW id, StrategyCancels(id) PROVE TypesInv'
  BY <1>4 DEF StrategyCancels
<1>5. CASE Returns \/ HandleFill \/ DropReport \/ EvaluateRisk \/ HandleDisconnect
  BY <1>5 DEF Returns, HandleFill, DropReport, EvaluateRisk, HandleDisconnect
<1>6. CASE Start \/ Connected \/ StopBegins \/ StopReturns \/ Destroy
  BY <1>6 DEF Start, Connected, StopBegins, StopReturns, Destroy
<1>7. CASE StopCloses \/ HeartbeatCloses
  BY <1>7, FlattensTypes DEF StopCloses, HeartbeatCloses
<1>8. CASE ReplaceStrategy \/ ResetNextstart
  BY <1>8 DEF ReplaceStrategy, ResetNextstart
<1>9. CASE HeartbeatStale \/ HeartbeatKills \/ HeartbeatReturns
  BY <1>9 DEF HeartbeatStale, HeartbeatKills, HeartbeatReturns
<1>10. CASE WindowPasses \/ UNCHANGED vars
  BY <1>10 DEF WindowPasses, vars
<1> QED
  BY <1>1, <1>2, <1>3, <1>4, <1>5, <1>6, <1>7, <1>8, <1>9, <1>10
     DEF Next, Callback, Application, Heartbeat
-----------------------------------------------------------------------------
LEMMA LiveInit == Init => ControlInv /\ CallsInv /\ RiskInv /\ TypesInv
<1> SUFFICES ASSUME Init PROVE ControlInv /\ CallsInv /\ RiskInv /\ TypesInv
  OBVIOUS
<1>1. ControlInv
  BY DEF Init, ControlInv
<1>2. CallsInv
  BY DEF Init, CallsInv, InCall
<1>3. RiskInv
  BY LiveAssumption DEF Init, LiveBrokerInit, LedgerInit, RiskInv, PositionBreached,
                        DrawdownBreached, Abs
<1>4. TypesInv
  BY DEF Init, TypesInv
<1> QED  BY <1>1, <1>2, <1>3, <1>4

LEMMA LiveStep ==
  ControlInv /\ RiskInv /\ CallsInv /\ [Next]_vars => ControlInv' /\ RiskInv' /\ CallsInv'
BY ControlStep, RiskStep, CallsStep

\* For any market data and fills, any limits and any timing of the application
\* and the timer thread, the risk limits hold between callbacks
\* (evaluate_risk_limits).
THEOREM RiskIsLimited == Spec => []RiskLimitsHold
<1>1. RiskInv => RiskLimitsHold
  BY DEF RiskInv, RiskLimitsHold
<1> QED  BY LiveInit, LiveStep, <1>1, PTL DEF Spec

\* A strategy's first call is its only nextstart (handle_market_data and
\* replace_strategy), unless data came in the middle of its installation.
THEOREM EveryStartIsClean == Spec => []CleanNextstart
<1>1. CallsInv => CleanNextstart
  BY DEF CallsInv, CleanNextstart
<1> QED  BY LiveInit, LiveStep, <1>1, PTL DEF Spec
-----------------------------------------------------------------------------
(* What the book knows of the market *)

LiveOrder == [feed : Feeds, lots : Int, flatten : BOOLEAN, status : OrderStatuses]

Lists ==
  /\ orders \in Seq(LiveOrder)
  /\ \E S : snapshots \in Seq(S)
  /\ \E S : heard \in Seq(S)
  /\ Len(snapshots) = Len(orders) /\ Len(heard) = Len(orders)
  /\ pending \subseteq DOMAIN orders
  /\ told \subseteq DOMAIN market /\ DOMAIN market \subseteq DOMAIN orders

\* The market's side of the orders.
MarketOK ==
  \A id \in DOMAIN market :
    /\ market[id] \in Report /\ market[id].id = id
    /\ Abs(market[id].size) <= Abs(orders[id].lots)
    /\ market[id].closed => market[id].size = 0

\* A report on its way says that nothing is left only if the order has been
\* heard of before, and a terminal one says what the market has.
Sent(r) ==
  /\ r \in Report /\ r.id \in DOMAIN market
  /\ r.size # 0 \/ r.closed
  /\ r.closed => heard[r.id] # None
  /\ Terminal(r) => market[r.id] = r /\ r.id \in told

ReportsOK == reports = <<>> \/ \E r : Sent(r) /\ reports = <<r>>

OnItsWay(id) == \E i \in DOMAIN reports : reports[i].id = id

\* A snapshot is the last report, until that is terminal; then the market has
\* no more to say.
HeardOf(id) ==
  IF heard[id] = None
  THEN /\ snapshots[id] = None /\ orders[id].status # "Completed"
       /\ id \in told => OnItsWay(id)
  ELSE /\ heard[id] \in Report /\ heard[id].id = id
       /\ IF Terminal(heard[id])
          THEN /\ snapshots[id] = None /\ orders[id].status = "Completed"
               /\ id \in told /\ Finished(id) /\ ~OnItsWay(id)
          ELSE /\ snapshots[id] = heard[id] /\ heard[id].size # 0
               /\ orders[id].status \in {"Partial", "Canceled"}

HeardOK == \A id \in DOMAIN orders : HeardOf(id)

PendingOK == \A id \in DOMAIN orders : orders[id].status = "Completed" <=> id \notin pending

ReportsInv == Lists /\ SizesAreWhole /\ MarketOK /\ ReportsOK /\ HeardOK /\ PendingOK

LEMMA ReportsStay ==
  ASSUME ReportsInv,
         UNCHANGED <<position, orders, pending, snapshots, heard, market, told, reports>>
  PROVE  ReportsInv'
BY DEF ReportsInv, Lists, SizesAreWhole, MarketOK, ReportsOK, Sent, HeardOK, HeardOf, OnItsWay,
       PendingOK, Terminal, Finished

\* A list with one entry replaced.
LEMMA Updated ==
  ASSUME NEW s, \E S : s \in Seq(S), NEW i, NEW x
  PROVE  LET t == [s EXCEPT ![i] = x]
         IN  /\ \E T : t \in Seq(T)
             /\ Len(t) = Len(s) /\ DOMAIN t = DOMAIN s
             /\ \A j \in DOMAIN s : t[j] = IF j = i THEN x ELSE s[j]
<1> DEFINE t == [s EXCEPT ![i] = x]
           n == Len(s)
<1>1. n \in Nat /\ DOMAIN s = 1 .. n
  OBVIOUS
<1>2. /\ DOMAIN t = DOMAIN s
      /\ \A j \in DOMAIN s : t[j] = IF j = i THEN x ELSE s[j]
  OBVIOUS
<1>3. t = [j \in 1 .. n |-> t[j]]
  BY <1>1
<1> HIDE DEF t, n
<1>4. (\E T : t \in Seq(T)) /\ Len(t) = n
  BY <1>1, <1>3, IndexedSeq
<1> QED  BY <1>2, <1>4 DEF t, n

\* An order whose status is set.
LEMMA StatusSet ==
  ASSUME orders \in Seq(LiveOrder), NEW id \in DOMAIN orders, NEW status \in OrderStatuses,
         orders' = [orders EXCEPT ![id].status = status]
  PROVE  /\ orders' \in Seq(LiveOrder) /\ Len(orders') = Len(orders)
         /\ DOMAIN orders' = DOMAIN orders
         /\ \A j \in DOMAIN orders : orders'[j].lots = orders[j].lots
         /\ \A j \in DOMAIN orders :
              orders'[j].status = IF j = id THEN status ELSE orders[j].status
<1> DEFINE o == [orders[id] EXCEPT !.status = status]
<1>1. orders[id] \in LiveOrder
  OBVIOUS
<1>2. o \in LiveOrder /\ o.status = status /\ o.lots = orders[id].lots
  BY <1>1 DEF LiveOrder
<1>3. orders' = [orders EXCEPT ![id] = o]
  OBVIOUS
<1> HIDE DEF o
<1>4. /\ orders' \in Seq(LiveOrder) /\ Len(orders') = Len(orders)
      /\ DOMAIN orders' = DOMAIN orders
      /\ \A j \in DOMAIN orders : orders'[j] = IF j = id THEN o ELSE orders[j]
  BY <1>2, <1>3
<1> QED  BY <1>2, <1>4

\* What holds of an order depends on what was ordered, which never changes.
LEMMA CancelKeeps ==
  ASSUME ReportsInv, NEW id \in DOMAIN orders, CancelLive(id)
  PROVE  ReportsInv'
<1> DEFINE status == IF orders[id].status \in AliveStatuses THEN "Canceled" ELSE orders[id].status
<1>1. /\ orders \in Seq(LiveOrder) /\ orders[id] \in LiveOrder
      /\ orders' = [orders EXCEPT ![id].status = status]
      /\ UNCHANGED <<position, pending, snapshots, heard, market, told, reports>>
  BY DEF ReportsInv, Lists, CancelLive, ledgerVars
<1>2. status \in OrderStatuses
  BY <1>1 DEF LiveOrder, OrderStatuses
<1>3. /\ orders[id].status \notin {"Completed"} \union AliveStatuses => status = orders[id].status
      /\ orders[id].status = "Completed" <=> status = "Completed"
      /\ orders[id].status \in {"Partial", "Canceled"} => status \in {"Partial", "Canceled"}
  BY DEF AliveStatuses
<1> HIDE DEF status
<1>4. /\ orders' \in Seq(LiveOrder) /\ Len(orders') = Len(orders) /\ DOMAIN orders' = DOMAIN orders
      /\ \A j \in DOMAIN orders : orders'[j].lots = orders[j].lots
      /\ \A j \in DOMAIN orders :
           orders'[j].status = IF j = id THEN status ELSE orders[j].status
  BY <1>1, <1>2, StatusSet
<1>5. Lists' /\ SizesAreWhole' /\ PendingOK'
  BY <1>1, <1>3, <1>4 DEF ReportsInv, Lists, SizesAreWhole, PendingOK
<1>6. MarketOK' /\ ReportsOK'
  BY <1>1, <1>4 DEF ReportsInv, Lists, MarketOK, ReportsOK, Sent, Terminal
<1>7. ASSUME NEW j \in DOMAIN orders PROVE HeardOf(j)'
  BY <1>1, <1>3, <1>4 DEF ReportsInv, HeardOK, HeardOf, OnItsWay, Terminal, Finished
<1> QED  BY <1>4, <1>5, <1>6, <1>7 DEF ReportsInv, HeardOK

LEMMA DropKeeps ==
  ASSUME ReportsInv, DropReport
  PROVE  ReportsInv'
<1>1. PICK r : Sent(r) /\ reports = <<r>>
  BY DEF ReportsInv, ReportsOK, DropReport
<1>2. /\ told' = told \ {r.id} /\ reports' = <<>>
      /\ UNCHANGED <<position, orders, pending, snapshots, heard, market>>
  BY <1>1 DEF DropReport, DropFill, ledgerVars
<1>3. Lists' /\ SizesAreWhole' /\ MarketOK' /\ ReportsOK' /\ PendingOK'
  BY <1>2 DEF ReportsInv, Lists, SizesAreWhole, MarketOK, ReportsOK, PendingOK
<1>4. ASSUME NEW j \in DOMAIN orders PROVE HeardOf(j)'
  <2>1. OnItsWay(j) <=> j = r.id
    BY <1>1 DEF OnItsWay
  <2>2. ~OnItsWay(j)'
    BY <1>2 DEF OnItsWay
  <2>3. HeardOf(j)
    BY DEF ReportsInv, HeardOK
  <2> QED  BY <1>2, <2>1, <2>2, <2>3 DEF HeardOf, Terminal, Finished
<1> QED  BY <1>2, <1>3, <1>4 DEF ReportsInv, HeardOK

\* The report that comes in, and what its order was last heard to be.
LEMMA FillFacts ==
  ASSUME ReportsInv, NEW r, Sent(r), reports = <<r>>
  PROVE  /\ r.id \in DOMAIN orders /\ r.id \in DOMAIN market /\ OnItsWay(r.id)
         /\ r \in Report /\ r # None /\ r.size \in Int
         /\ orders[r.id] \in LiveOrder
         /\ snapshots[r.id] = heard[r.id]
         /\ heard[r.id] # None =>
              /\ heard[r.id] \in Report /\ heard[r.id].id = r.id
              /\ heard[r.id].size \in Int /\ heard[r.id].size # 0
              /\ ~Terminal(heard[r.id]) /\ orders[r.id].status \in {"Partial", "Canceled"}
<1>1. /\ r.id \in DOMAIN orders /\ r.id \in DOMAIN market /\ OnItsWay(r.id)
      /\ r \in Report /\ r # None /\ r.size \in Int
      /\ orders[r.id] \in LiveOrder
  BY ReportAssumption DEF Sent, ReportsInv, Lists, OnItsWay, Report
<1>2. snapshots[r.id] = heard[r.id] /\ (heard[r.id] # None => ~Terminal(heard[r.id]))
  BY <1>1 DEF ReportsInv, HeardOK, HeardOf
<1> QED  BY <1>1, <1>2 DEF ReportsInv, HeardOK, HeardOf, Report

LEMMA FillKeeps ==
  ASSUME ReportsInv, HandleFill
  PROVE  ReportsInv'
<1>1. PICK r : Sent(r) /\ reports = <<r>>
  BY DEF ReportsInv, ReportsOK, HandleFill
<1> DEFINE id == r.id
           prev == snapshots[id]
           delta == r.size - SizeOf(prev)
<1>2. RecordFill(r) /\ reports' = <<>> /\ UNCHANGED <<market, told>>
  BY <1>1 DEF HandleFill
<1>3. /\ id \in DOMAIN orders /\ id \in DOMAIN market /\ OnItsWay(id)
      /\ r \in Report /\ r # None /\ r.size \in Int
      /\ orders[id] \in LiveOrder
  BY <1>1, FillFacts
<1>4. prev = heard[id] /\ (heard[id] # None => ~Terminal(heard[id]))
  BY <1>1, FillFacts
<1>5. prev # None => /\ prev \in Report /\ prev.id = id /\ prev.size \in Int /\ prev.size # 0
                     /\ ~Terminal(prev) /\ orders[id].status \in {"Partial", "Canceled"}
  BY <1>1, <1>4, FillFacts
<1>6. delta = 0 => prev # None /\ ~Terminal(r)
  <2> SUFFICES ASSUME delta = 0 PROVE prev # None /\ ~Terminal(r)
    OBVIOUS
  <2>1. prev # None
    <3> SUFFICES ASSUME prev = None PROVE FALSE
      OBVIOUS
    <3>1. r.size = 0
      BY <1>3 DEF SizeOf
    <3> QED  BY <1>1, <1>4, <3>1 DEF Sent
  <2>2. r.size = prev.size
    BY <1>3, <1>5, <2>1 DEF SizeOf
  <2>3. ~r.closed
    <3> SUFFICES ASSUME r.closed PROVE FALSE
      OBVIOUS
    <3>1. market[id] = r
      BY <1>1 DEF Sent, Terminal
    <3>2. r.size = 0
      BY <1>3, <3>1 DEF ReportsInv, MarketOK
    <3> QED  BY <1>5, <2>1, <2>2, <3>2
  <2> QED  BY <1>5, <2>1, <2>2, <2>3 DEF Terminal
<1>7. snapshots' = [snapshots EXCEPT ![id] = IF Terminal(r) THEN None ELSE r]
  BY <1>2, <1>6 DEF RecordFill
<1>8. pending' = IF Terminal(r) THEN pending \ {id} ELSE pending
  BY <1>2, <1>6 DEF RecordFill, ApplyExecution
<1>9. heard' = [heard EXCEPT ![id] = r]
  BY <1>2 DEF RecordFill
<1> DEFINE status == IF delta = 0 THEN orders[id].status ELSE StatusAfter(r)
<1>10. /\ Terminal(r) => status = "Completed"
       /\ ~Terminal(r) => status \in {"Partial", "Canceled"}
  BY <1>5, <1>6 DEF StatusAfter
<1>11. orders' = [orders EXCEPT ![id].status = status]
  <2>1. CASE delta = 0
    <3>1. orders' = orders /\ status = orders[id].status
      BY <1>2, <2>1 DEF RecordFill
    <3>2. [orders[id] EXCEPT !.status = orders[id].status] = orders[id]
      BY <1>3 DEF LiveOrder
    <3> HIDE DEF status
    <3>3. [orders EXCEPT ![id].status = orders[id].status] = orders
      BY <1>3, <3>2 DEF ReportsInv, Lists
    <3> QED  BY <3>1, <3>3
  <2>2. CASE delta # 0
    BY <1>2, <2>2 DEF RecordFill, ApplyExecution
  <2> QED  BY <2>1, <2>2
<1>12. SizesAreWhole'
  <2>1. delta \in Int
    BY <1>3, <1>5 DEF SizeOf
  <2>2. CASE delta = 0
    BY <1>2, <2>2 DEF RecordFill, ledgerVars, ReportsInv, SizesAreWhole
  <2>3. CASE delta # 0
    <3> DEFINE d == orders[id].feed
               price == ReportPrice(prev, r, delta)
    <3>1. position' = [position EXCEPT ![d] = PositionAfter(position[d], delta, price)]
      BY <1>2, <2>3 DEF RecordFill, ApplyExecution
    <3> HIDE DEF price, delta
    <3>2. PositionAfter(position[d], delta, price).size = position[d].size + delta
      BY DEF PositionAfter
    <3>3. d \in Feeds
      BY <1>3 DEF LiveOrder
    <3> HIDE DEF d
    <3>4. position[d].size + delta \in Int
      BY <2>1, <3>3 DEF ReportsInv, SizesAreWhole
    <3> QED  BY <3>1, <3>2, <3>3, <3>4 DEF ReportsInv, SizesAreWhole
  <2> QED  BY <2>2, <2>3
<1> HIDE DEF id, prev, delta, status
<1>13. status \in OrderStatuses
  BY <1>10 DEF OrderStatuses, AliveStatuses
<1>14. /\ orders' \in Seq(LiveOrder) /\ Len(orders') = Len(orders) /\ DOMAIN orders' = DOMAIN orders
       /\ \A j \in DOMAIN orders : orders'[j].lots = orders[j].lots
       /\ \A j \in DOMAIN orders :
            orders'[j].status = IF j = id THEN status ELSE orders[j].status
  BY <1>3, <1>11, <1>13, StatusSet DEF ReportsInv, Lists
<1>15. /\ \E T : snapshots' \in Seq(T)
       /\ Len(snapshots') = Len(snapshots)
       /\ \A j \in DOMAIN snapshots :
            snapshots'[j] = IF j = id THEN (IF Terminal(r) THEN None ELSE r) ELSE snapshots[j]
  BY <1>7, Updated DEF ReportsInv, Lists
<1>16. /\ \E T : heard' \in Seq(T)
       /\ Len(heard') = Len(heard)
       /\ \A j \in DOMAIN heard : heard'[j] = IF j = id THEN r ELSE heard[j]
  BY <1>9, Updated DEF ReportsInv, Lists
<1>17. DOMAIN snapshots = DOMAIN orders /\ DOMAIN heard = DOMAIN orders
  BY DEF ReportsInv, Lists
<1>18. Lists'
  BY <1>2, <1>8, <1>14, <1>15, <1>16 DEF ReportsInv, Lists
<1>19. MarketOK' /\ ReportsOK'
  BY <1>2, <1>14 DEF ReportsInv, Lists, MarketOK, ReportsOK
<1>20. ASSUME NEW j \in DOMAIN orders PROVE HeardOf(j)'
  <2>1. ~OnItsWay(j)'
    BY <1>2 DEF OnItsWay
  <2>2. \A x : x.id = j => (Terminal(x)' <=> Terminal(x))
    BY <1>14 DEF Terminal
  <2>3. CASE j # id
    <3>1. ~OnItsWay(j)
      BY <1>1, <2>3 DEF OnItsWay, id
    <3>2. /\ heard'[j] = heard[j] /\ snapshots'[j] = snapshots[j]
          /\ orders'[j].status = orders[j].status
      BY <1>14, <1>15, <1>16, <1>17, <2>3
    <3>3. Finished(j)' <=> Finished(j)
      BY <1>2, <1>14 DEF Finished
    <3> QED  BY <1>2, <2>1, <2>2, <3>1, <3>2, <3>3 DEF ReportsInv, HeardOK, HeardOf
  <2>4. CASE j = id
    <3>1. /\ heard'[id] = r /\ snapshots'[id] = IF Terminal(r) THEN None ELSE r
          /\ orders'[id].status = status /\ r.id = id
      BY <1>3, <1>14, <1>15, <1>16, <1>17 DEF id
    <3>2. Terminal(r)' <=> Terminal(r)
      BY <2>2, <2>4, <3>1
    <3>3. Terminal(r) => id \in told' /\ Finished(id)'
      <4> SUFFICES ASSUME Terminal(r) PROVE id \in told /\ Finished(id)'
        BY <1>2
      <4>1. market[id] = r /\ id \in told /\ market'[id] = r
        BY <1>1, <1>2, <3>1 DEF Sent
      <4>2. Abs(r.size) <= Abs(orders[id].lots) /\ orders'[id].lots = orders[id].lots
        BY <1>3, <1>14, <4>1 DEF ReportsInv, MarketOK
      <4>3. Abs(r.size) \in Int /\ Abs(orders[id].lots) \in Int
        BY <1>3 DEF Abs, LiveOrder
      <4>4. r.closed \/ Abs(r.size) >= Abs(orders[id].lots)
        BY <3>1 DEF Terminal
      <4>5. r.closed \/ Abs(r.size) = Abs(orders[id].lots)
        BY <4>2, <4>3, <4>4
      <4> QED  BY <4>1, <4>2, <4>5 DEF Finished
    <3>4. ~Terminal(r) => r.size # 0
      BY <1>1 DEF Sent, Terminal
    <3> QED  BY <1>3, <1>10, <2>1, <2>4, <3>1, <3>2, <3>3, <3>4 DEF HeardOf
  <2> QED  BY <2>3, <2>4
<1>21. ASSUME NEW j \in DOMAIN orders
       PROVE  orders'[j].status = "Completed" <=> j \notin pending'
  <2>1. orders[j].status = "Completed" <=> j \notin pending
    BY DEF ReportsInv, PendingOK
  <2>2. orders[id].status # "Completed"
    BY <1>3, <1>4 DEF ReportsInv, HeardOK, HeardOf
  <2> QED  BY <1>8, <1>10, <1>14, <2>1, <2>2
<1> QED  BY <1>12, <1>14, <1>18, <1>19, <1>20, <1>21 DEF ReportsInv, HeardOK, PendingOK

\* What a step of the market leaves as it is.
MarketOnly == UNCHANGED <<position, orders, pending, snapshots, heard>>

LEMMA AbsOfSum == \A m, n \in Int : Abs(m + n) <= Abs(m) + Abs(n)
BY DEF Abs

LEMMA Products == \A a, b : a \in Int /\ b \in Int => a * b \in Int
OBVIOUS

LEMMA ExecutesKeeps ==
  ASSUME ReportsInv, NEW id \in DOMAIN market, NEW k \in Lots, NEW p \in Prices,
         MarketExecutes(id, k, p)
  PROVE  ReportsInv'
<1> DEFINE m == market[id]
           n == IF orders[id].lots > 0 THEN k ELSE -k
           new == [m EXCEPT !.size = m.size + n, !.entry = AvgPrice(m.size, m.entry, n, p),
                            !.comm = m.comm + k]
<1>1. /\ ~Finished(id) /\ Abs(m.size) + k <= Abs(orders[id].lots)
      /\ market' = [market EXCEPT ![id] = new]
      /\ told' = told \ {id} /\ reports' = reports /\ MarketOnly
  BY DEF MarketExecutes, MarketOnly, ledgerVars
<1>2. /\ m \in Report /\ m.id = id /\ k \in Nat \ {0} /\ p \in Int
      /\ id \in DOMAIN orders /\ orders[id] \in LiveOrder
  BY LiveAssumption DEF ReportsInv, MarketOK, Lists
<1>3. n \in Int /\ Abs(n) = k
  BY <1>2 DEF Abs, LiveOrder
<1> DEFINE avg == AvgPrice(m.size, m.entry, n, p)
<1>4. avg \in Int
  <2> DEFINE x == Abs(m.size)
             y == m.entry
  <2>1. x \in Nat /\ y \in Int
    BY <1>2, AbsType DEF Report
  <2>2. avg = (x * y + k * p) \div (x + k)
    BY <1>3 DEF AvgPrice
  <2> HIDE DEF x, y, avg
  <2>3. x * y \in Int /\ k * p \in Int
    BY <1>2, <2>1, Products
  <2> DEFINE a == x * y + k * p
             b == x + k
  <2>4. a \in Int /\ b \in Nat \ {0}
    BY <1>2, <2>1, <2>3
  <2> HIDE DEF a, b
  <2>5. a \div b \in Int
    BY <2>4
  <2> QED  BY <2>2, <2>5 DEF a, b
<1>5. new \in Report /\ new.id = id /\ new.size = m.size + n /\ new.closed = m.closed
  <2> HIDE DEF avg, n, m
  <2>1. new = [m EXCEPT !.size = m.size + n, !.entry = avg, !.comm = m.comm + k]
    BY DEF avg
  <2>2. m.size + n \in Int /\ m.comm + k \in Int
    BY <1>2, <1>3 DEF Report
  <2> HIDE DEF new
  <2> QED  BY <1>2, <1>4, <2>1, <2>2 DEF Report
<1>6. Abs(new.size) <= Abs(orders[id].lots)
  <2> DEFINE size == m.size
             lots == orders[id].lots
  <2>1. size \in Int /\ lots \in Int
    BY <1>2 DEF Report, LiveOrder
  <2>2. new.size = size + n /\ Abs(size) + k <= Abs(lots)
    BY <1>1, <1>5
  <2> HIDE DEF size, lots, n
  <2>3. /\ Abs(size) \in Nat /\ Abs(lots) \in Nat /\ Abs(size + n) \in Nat
        /\ Abs(size + n) <= Abs(size) + Abs(n)
    <3>1. n \in Int /\ size + n \in Int
      BY <1>3, <2>1
    <3> QED  BY ONLY <2>1, <3>1, AbsType, AbsOfSum
  <2>4. Abs(size + n) <= Abs(lots)
    BY <1>2, <1>3, <2>2, <2>3
  <2> QED  BY <2>2, <2>4 DEF lots
<1>7. ~new.closed
  BY <1>1, <1>5 DEF Finished
<1> HIDE DEF new, m
<1>8. /\ DOMAIN market' = DOMAIN market
      /\ \A j \in DOMAIN market : market'[j] = IF j = id THEN new ELSE market[j]
  BY <1>1
<1>9. MarketOK'
  BY <1>1, <1>5, <1>6, <1>7, <1>8 DEF ReportsInv, MarketOK, MarketOnly
<1>10. Lists' /\ SizesAreWhole' /\ PendingOK'
  BY <1>1, <1>8 DEF ReportsInv, Lists, SizesAreWhole, PendingOK, MarketOnly
<1>11. \A r : Terminal(r)' <=> Terminal(r)
  BY <1>1 DEF Terminal, MarketOnly
<1>12. ASSUME NEW r, Sent(r) PROVE Sent(r)'
  <2>1. Terminal(r) => r.id # id
    <3> SUFFICES ASSUME Terminal(r), r.id = id PROVE FALSE
      OBVIOUS
    <3>1. m = r
      BY <1>12 DEF Sent, m
    <3>2. r.closed \/ Abs(r.size) >= Abs(orders[id].lots)
      BY DEF Terminal
    <3>3. /\ Abs(r.size) \in Int /\ Abs(orders[id].lots) \in Int
      BY <1>2, <3>1, AbsType DEF Report, LiveOrder
    <3> QED  BY <1>1, <1>2, <3>1, <3>2, <3>3 DEF Finished, m
  <2> QED  BY <1>1, <1>8, <1>11, <1>12, <2>1 DEF Sent, MarketOnly
<1>13. ReportsOK'
  BY <1>1, <1>12 DEF ReportsInv, ReportsOK
<1>14. ASSUME NEW j \in DOMAIN orders PROVE HeardOf(j)'
  <2>1. HeardOf(j) /\ (OnItsWay(j)' <=> OnItsWay(j))
    BY <1>1 DEF ReportsInv, HeardOK, OnItsWay
  <2>2. CASE j = id
    BY <1>1, <1>11, <2>1, <2>2 DEF HeardOf, MarketOnly
  <2>3. CASE j # id
    <3>1. Finished(j) /\ j \in told => Finished(j)' /\ j \in told'
      BY <1>1, <1>8, <2>3 DEF Finished, MarketOnly, ReportsInv, Lists
    <3> QED  BY <1>1, <1>11, <2>1, <2>3, <3>1 DEF HeardOf, MarketOnly
  <2> QED  BY <2>2, <2>3
<1> QED  BY <1>1, <1>9, <1>10, <1>13, <1>14 DEF ReportsInv, HeardOK, MarketOnly

\* A report is made of what the market has: of a new execution, or of one that
\* gave part of the order back.
LEMMA ReportKeeps ==
  ASSUME ReportsInv, reports = <<>>, NEW id \in DOMAIN market, NEW m, MarketOnly,
         DOMAIN market' = DOMAIN market,
         \A j \in DOMAIN market : market'[j] = IF j = id THEN m ELSE market[j],
         told' = told \union {id}, reports' = <<m>>,
         m \in Report, m.id = id, m.size # 0 \/ m.closed, m.closed => m.size = 0,
         m.closed => heard[id] # None, Abs(m.size) <= Abs(orders[id].lots),
         Finished(id) => id \notin told
  PROVE  ReportsInv'
<1>1. Lists' /\ SizesAreWhole' /\ PendingOK'
  BY DEF ReportsInv, Lists, SizesAreWhole, PendingOK, MarketOnly
<1>2. MarketOK'
  BY DEF ReportsInv, MarketOK, MarketOnly
<1>3. \A r : Terminal(r)' <=> Terminal(r)
  BY DEF Terminal, MarketOnly
<1>4. Sent(m)'
  BY DEF Sent, MarketOnly
<1>5. ReportsOK'
  BY <1>4 DEF ReportsOK
<1>6. ASSUME NEW j \in DOMAIN orders PROVE HeardOf(j)'
  <2>1. HeardOf(j) /\ ~OnItsWay(j) /\ (OnItsWay(j)' <=> j = id)
    BY DEF ReportsInv, HeardOK, OnItsWay
  <2>2. CASE j = id
    <3>1. heard[j] # None => ~Terminal(heard[j])
      BY <2>1, <2>2 DEF HeardOf
    <3> QED  BY <1>3, <2>1, <2>2, <3>1 DEF HeardOf, MarketOnly
  <2>3. CASE j # id
    <3>1. Finished(j) /\ j \in told => Finished(j)' /\ j \in told'
      BY <2>3 DEF Finished, MarketOnly, ReportsInv, Lists
    <3> QED  BY <1>3, <2>1, <2>3, <3>1 DEF HeardOf, MarketOnly
  <2> QED  BY <2>2, <2>3
<1> QED  BY <1>1, <1>2, <1>5, <1>6 DEF ReportsInv, HeardOK, MarketOnly

LEMMA MarketReportsKeeps ==
  ASSUME ReportsInv, reports = <<>>, NEW id \in DOMAIN market, MarketReports(id)
  PROVE  ReportsInv'
<1>1. /\ market[id].size # 0 /\ (Finished(id) => id \notin told)
      /\ told' = told \union {id} /\ reports' = Append(reports, market[id])
      /\ market' = market /\ MarketOnly
  BY DEF MarketReports, MarketOnly, ledgerVars
<1>2. reports' = <<market[id]>>
  BY <1>1
<1>3. /\ market[id] \in Report /\ market[id].id = id
      /\ Abs(market[id].size) <= Abs(orders[id].lots)
      /\ market[id].closed => market[id].size = 0
  BY DEF ReportsInv, MarketOK
<1>4. \A j \in DOMAIN market : market'[j] = IF j = id THEN market[id] ELSE market[j]
  BY <1>1
<1> QED  BY <1>1, <1>2, <1>3, <1>4, ReportKeeps

LEMMA MarketUnwindsKeeps ==
  ASSUME ReportsInv, reports = <<>>, NEW id \in DOMAIN market, NEW k \in Lots, NEW p \in Prices,
         MarketUnwinds(id, k, p)
  PROVE  ReportsInv'
<1> DEFINE m == market[id]
           sign == IF m.size > 0 THEN 1 ELSE -1
           u == [m EXCEPT !.size = m.size - sign * k, !.pnl = m.pnl + sign * k * (p - m.entry),
                          !.comm = m.comm + k, !.exit = p, !.closed = k = Abs(m.size)]
<1>1. /\ ~Finished(id) /\ id \in told /\ 0 < Abs(m.size) /\ k <= Abs(m.size)
      /\ market' = [market EXCEPT ![id] = u]
      /\ reports' = Append(reports, u)
      /\ told' = told /\ MarketOnly
  BY DEF MarketUnwinds, MarketOnly, ledgerVars
<1>2. /\ m \in Report /\ m.id = id /\ k \in Nat \ {0} /\ p \in Int
      /\ id \in DOMAIN orders /\ orders[id] \in LiveOrder
      /\ Abs(m.size) <= Abs(orders[id].lots)
  BY LiveAssumption DEF ReportsInv, MarketOK, Lists
<1>3. m.size \in Int /\ m.entry \in Int /\ m.pnl \in Int /\ m.comm \in Int
  BY <1>2 DEF Report
<1>4. m.pnl + sign * k * (p - m.entry) \in Int
  <2>1. sign * k \in Int /\ p - m.entry \in Int
    BY <1>2, <1>3
  <2> HIDE DEF sign
  <2>2. sign * k * (p - m.entry) \in Int
    BY <2>1, Products
  <2> QED  BY <1>3, <2>2
<1>5. /\ u \in Report /\ u.id = id /\ u.size = m.size - sign * k
      /\ u.closed <=> k = Abs(m.size)
  <2>1. m.size - sign * k \in Int /\ m.comm + k \in Int /\ (k = Abs(m.size)) \in BOOLEAN
    BY <1>2, <1>3
  <2> HIDE DEF sign
  <2> QED  BY <1>2, <1>4, <2>1 DEF Report
<1> HIDE DEF u
<1>6. /\ Abs(u.size) = Abs(m.size) - k
      /\ u.size = 0 <=> k = Abs(m.size)
  <2>1. u.size = m.size - sign * k /\ m.size \in Int /\ k \in Nat \ {0} /\ k <= Abs(m.size)
    BY <1>1, <1>2, <1>3, <1>5
  <2>2. CASE m.size > 0
    <3>1. sign = 1
      BY <2>2
    <3> HIDE DEF m, sign
    <3> QED  BY <2>1, <2>2, <3>1 DEF Abs
  <2>3. CASE ~(m.size > 0)
    <3>1. sign = -1
      BY <2>3
    <3> HIDE DEF m, sign
    <3> QED  BY <2>1, <2>3, <3>1 DEF Abs
  <2> QED  BY <2>2, <2>3
<1>7. Abs(u.size) <= Abs(orders[id].lots)
  <2>1. m.size \in Int /\ orders[id].lots \in Int
    BY <1>2, <1>3 DEF LiveOrder
  <2> HIDE DEF m
  <2>2. Abs(m.size) \in Int
    BY <2>1 DEF Abs
  <2>3. Abs(orders[id].lots) \in Int
    BY <2>1 DEF Abs
  <2> QED  BY <1>2, <1>6, <2>2, <2>3
<1>8. heard[id] # None
  BY <1>1, <1>2 DEF ReportsInv, HeardOK, HeardOf, OnItsWay
<1>9. /\ told' = told \union {id} /\ reports' = <<u>>
      /\ DOMAIN market' = DOMAIN market
      /\ \A j \in DOMAIN market : market'[j] = IF j = id THEN u ELSE market[j]
  BY <1>1
<1> HIDE DEF m
<1> QED  BY <1>1, <1>5, <1>6, <1>7, <1>8, <1>9, ReportKeeps

\* What the engine may submit.
Sound(s) ==
  /\ s.feed \in Feeds /\ s.lots \in Int /\ s.flatten \in BOOLEAN
  /\ s.status \in {"Accepted", "Canceled"}

\* A list with entries added.
LEMMA Extended ==
  ASSUME NEW s, NEW t, \E S : s \in Seq(S), \E T : t \in Seq(T)
  PROVE  /\ \E S : s \o t \in Seq(S)
         /\ Len(s \o t) = Len(s) + Len(t)
         /\ \A i \in 1 .. Len(s) : (s \o t)[i] = s[i]
         /\ \A i \in Len(s) + 1 .. Len(s) + Len(t) : (s \o t)[i] = t[i - Len(s)]
<1>1. PICK S, T : s \in Seq(S) /\ t \in Seq(T)
  OBVIOUS
<1>2. /\ s \o t \in Seq(S \union T)
      /\ Len(s \o t) = Len(s) + Len(t)
      /\ \A i \in 1 .. Len(s) : (s \o t)[i] = s[i]
      /\ \A i \in Len(s) + 1 .. Len(s) + Len(t) : (s \o t)[i] = t[i - Len(s)]
  BY <1>1, Joined
<1> QED  BY <1>2

LEMMA PlaceKeeps ==
  ASSUME ReportsInv, NEW T, NEW subs \in Seq(T), \A i \in 1 .. Len(subs) : Sound(subs[i]),
         Place(subs)
  PROVE  ReportsInv'
<1> DEFINE m == Len(orders)
           n == Len(subs)
           new == [i \in DOMAIN subs |-> NewOrder(subs[i])]
           blank == [i \in DOMAIN subs |-> None]
           ids == m + 1 .. m + n
           sent == {id \in ids : subs[id - m].sent}
<1>1. /\ m \in Nat /\ n \in Nat /\ DOMAIN subs = 1 .. n /\ DOMAIN orders = 1 .. m
      /\ DOMAIN heard = 1 .. m /\ DOMAIN snapshots = 1 .. m /\ Len(heard) = m /\ Len(snapshots) = m
  BY DEF ReportsInv, Lists
<1>2. /\ orders' = orders \o new /\ snapshots' = snapshots \o blank /\ heard' = heard \o blank
      /\ pending' = pending \union ids
      /\ market' = [id \in DOMAIN market \union sent |->
                      IF id \in sent THEN Nothing(id) ELSE market[id]]
      /\ UNCHANGED <<position, told, reports>>
  BY DEF Place, ledgerVars
<1>3. \A i \in 1 .. n : new[i] \in LiveOrder /\ new[i].status \in {"Accepted", "Canceled"}
  BY <1>1 DEF Sound, NewOrder, LiveOrder, OrderStatuses, AliveStatuses
<1>4. \A i \in 1 .. n : blank[i] = None
  BY <1>1
<1>5. new = [i \in 1 .. n |-> new[i]] /\ blank = [i \in 1 .. n |-> blank[i]]
  BY <1>1
<1>6. sent \subseteq ids
  OBVIOUS
<1> HIDE DEF m, n, new, blank, sent
<1>7. /\ new \in Seq(LiveOrder) /\ Len(new) = n
      /\ (\E S : blank \in Seq(S)) /\ Len(blank) = n
  <2>1. new \in Seq(LiveOrder) /\ Len(new) = n
    BY <1>1, <1>3, <1>5
  <2>2. (\E S : blank \in Seq(S)) /\ Len(blank) = n
    BY <1>1, <1>5, IndexedSeq
  <2> QED  BY <2>1, <2>2
<1>8. /\ orders' \in Seq(LiveOrder) /\ Len(orders') = m + n
      /\ \A i \in 1 .. m : orders'[i] = orders[i]
      /\ \A i \in ids : orders'[i] = new[i - m]
  <2>1. orders \in Seq(LiveOrder)
    BY DEF ReportsInv, Lists
  <2>2. orders' \in Seq(LiveOrder)
    BY <1>2, <1>7, <2>1
  <2>3. /\ Len(orders \o new) = Len(orders) + Len(new)
        /\ \A i \in 1 .. Len(orders) : (orders \o new)[i] = orders[i]
        /\ \A i \in Len(orders) + 1 .. Len(orders) + Len(new) :
             (orders \o new)[i] = new[i - Len(orders)]
    BY <1>7, <2>1, Extended
  <2>4. m = Len(orders)
    BY DEF m
  <2> QED  BY <1>2, <1>7, <2>2, <2>3, <2>4
<1>9. /\ \E S : snapshots' \in Seq(S)
      /\ Len(snapshots') = m + n
      /\ \A i \in 1 .. m : snapshots'[i] = snapshots[i]
      /\ \A i \in ids : snapshots'[i] = blank[i - m]
  <2>1. \E S : snapshots \in Seq(S)
    BY DEF ReportsInv, Lists
  <2>2. /\ \E S : snapshots \o blank \in Seq(S)
        /\ Len(snapshots \o blank) = Len(snapshots) + Len(blank)
        /\ \A i \in 1 .. Len(snapshots) : (snapshots \o blank)[i] = snapshots[i]
        /\ \A i \in Len(snapshots) + 1 .. Len(snapshots) + Len(blank) :
             (snapshots \o blank)[i] = blank[i - Len(snapshots)]
    BY <1>7, <2>1, Extended
  <2> QED  BY <1>1, <1>2, <1>7, <2>2
<1>10. /\ \E S : heard' \in Seq(S)
       /\ Len(heard') = m + n
       /\ \A i \in 1 .. m : heard'[i] = heard[i]
       /\ \A i \in ids : heard'[i] = blank[i - m]
  <2>1. \E S : heard \in Seq(S)
    BY DEF ReportsInv, Lists
  <2>2. /\ \E S : heard \o blank \in Seq(S)
        /\ Len(heard \o blank) = Len(heard) + Len(blank)
        /\ \A i \in 1 .. Len(heard) : (heard \o blank)[i] = heard[i]
        /\ \A i \in Len(heard) + 1 .. Len(heard) + Len(blank) :
             (heard \o blank)[i] = blank[i - Len(heard)]
    BY <1>7, <2>1, Extended
  <2> QED  BY <1>1, <1>2, <1>7, <2>2
<1>11. DOMAIN orders' = 1 .. m + n
  BY <1>8
<1>12. /\ \A j \in 1 .. m + n : j \in 1 .. m \/ j \in ids
       /\ \A j \in ids : j - m \in 1 .. n /\ j \in 1 .. m + n /\ j \notin 1 .. m /\ j \in Nat
       /\ 1 .. m \subseteq 1 .. m + n
  BY <1>1
<1>13. /\ pending \subseteq 1 .. m /\ told \subseteq DOMAIN market /\ DOMAIN market \subseteq 1 .. m
  BY <1>1 DEF ReportsInv, Lists
<1> HIDE DEF ids
<1>14. /\ DOMAIN market' = DOMAIN market \union sent
       /\ \A j \in DOMAIN market : market'[j] = market[j]
       /\ \A j \in sent : market'[j] = Nothing(j)
  BY <1>2, <1>6, <1>12, <1>13
<1>15. Lists'
  BY <1>2, <1>6, <1>8, <1>9, <1>10, <1>11, <1>12, <1>13, <1>14 DEF Lists
<1>16. SizesAreWhole'
  BY <1>2 DEF ReportsInv, SizesAreWhole
<1>17. MarketOK'
  <2>1. ASSUME NEW j \in DOMAIN market
        PROVE  /\ market'[j] \in Report /\ market'[j].id = j
               /\ Abs(market'[j].size) <= Abs(orders'[j].lots)
               /\ market'[j].closed => market'[j].size = 0
    BY <1>8, <1>13, <1>14 DEF ReportsInv, MarketOK
  <2>2. ASSUME NEW j \in sent
        PROVE  /\ market'[j] \in Report /\ market'[j].id = j
               /\ Abs(market'[j].size) <= Abs(orders'[j].lots)
               /\ market'[j].closed => market'[j].size = 0
    <3>1. j \in Nat /\ market'[j] = Nothing(j) /\ orders'[j] \in LiveOrder
      BY <1>3, <1>6, <1>8, <1>12, <1>14
    <3>2. Nothing(j) \in Report /\ Nothing(j).id = j /\ Nothing(j).size = 0 /\ ~Nothing(j).closed
      BY <3>1 DEF Nothing, Report
    <3>3. Abs(0) = 0 /\ Abs(orders'[j].lots) \in Nat
      BY <3>1, AbsType DEF LiveOrder, Abs
    <3> QED  BY <3>1, <3>2, <3>3
  <2> QED  BY <1>14, <2>1, <2>2 DEF MarketOK
<1>18. \A r : r.id \in 1 .. m => (Terminal(r)' <=> Terminal(r))
  BY <1>8 DEF Terminal
<1>19. ReportsOK'
  <2>1. ASSUME NEW r, Sent(r) PROVE Sent(r)'
    <3>1. r.id \in DOMAIN market /\ r.id \in 1 .. m
      BY <1>13, <2>1 DEF Sent
    <3> QED  BY <1>2, <1>10, <1>14, <1>18, <2>1, <3>1 DEF Sent
  <2> QED  BY <1>2, <2>1 DEF ReportsInv, ReportsOK
<1>20. ASSUME NEW j \in 1 .. m + n PROVE HeardOf(j)'
  <2>1. CASE j \in 1 .. m
    <3>1. HeardOf(j)
      BY <1>1, <2>1 DEF ReportsInv, HeardOK
    <3>2. /\ heard'[j] = heard[j] /\ snapshots'[j] = snapshots[j] /\ orders'[j] = orders[j]
          /\ OnItsWay(j)' <=> OnItsWay(j)
      BY <1>2, <1>8, <1>9, <1>10, <2>1 DEF OnItsWay
    <3>3. j \in told => (Finished(j)' <=> Finished(j))
      BY <1>13, <1>14, <3>2 DEF Finished
    <3> QED  BY <1>2, <1>18, <2>1, <3>1, <3>2, <3>3 DEF HeardOf
  <2>2. CASE j \in ids
    <3>1. /\ heard'[j] = None /\ snapshots'[j] = None
          /\ orders'[j].status \in {"Accepted", "Canceled"}
      BY <1>3, <1>4, <1>8, <1>9, <1>10, <1>12, <2>2
    <3>2. j \notin told'
      BY <1>2, <1>12, <1>13, <2>2
    <3> QED  BY <3>1, <3>2 DEF HeardOf
  <2> QED  BY <1>12, <2>1, <2>2
<1>21. PendingOK'
  <2>1. ASSUME NEW j \in 1 .. m
        PROVE  orders'[j].status = "Completed" <=> j \notin pending'
    BY <1>1, <1>2, <1>8, <1>12 DEF ReportsInv, PendingOK
  <2>2. ASSUME NEW j \in ids
        PROVE  orders'[j].status # "Completed" /\ j \in pending'
    BY <1>2, <1>3, <1>8, <1>12
  <2> QED  BY <1>11, <1>12, <2>1, <2>2 DEF PendingOK
<1> QED  BY <1>11, <1>15, <1>16, <1>17, <1>19, <1>20, <1>21 DEF ReportsInv, HeardOK

LEMMA ClosingsSound == ReportsInv => \A s : IsClosing(s) => Sound(s)
BY DEF ReportsInv, IsClosing, Sound

LEMMA TripKeeps ==
  ASSUME ReportsInv, TriggerKillSwitch PROVE ReportsInv'
<1>1. Place(AllClosings)
  BY DEF TriggerKillSwitch
<1>2. PICK T : AllClosings \in Seq(T)
  BY AllClosingsClose
<1>3. \A i \in 1 .. Len(AllClosings) : Sound(AllClosings[i])
  BY AllClosingsClose, ClosingsSound
<1> QED  BY <1>1, <1>2, <1>3, PlaceKeeps

LEMMA SendsKeeps ==
  ASSUME ReportsInv, NEW d \in Feeds, NEW lots \in Int, NEW flatten \in BOOLEAN,
         NEW status \in {"Accepted", "Canceled"}, Sends(d, lots, flatten, status)
  PROVE  ReportsInv'
<1>1. PICK subs :
        /\ Place(subs) /\ \E T : subs \in Seq(T)
        /\ subs[1] = Submission(d, lots, flatten, status, CheckOrderRate)
        /\ \A i \in 2 .. Len(subs) : IsClosing(subs[i])
  BY SendsPlaces
<1>2. PICK T : subs \in Seq(T)
  BY <1>1
<1>3. Sound(subs[1])
  BY <1>1 DEF Submission, Sound
<1>4. \A i \in 1 .. Len(subs) : i = 1 \/ i \in 2 .. Len(subs)
  BY <1>2
<1>5. \A i \in 1 .. Len(subs) : Sound(subs[i])
  BY <1>1, <1>3, <1>4, ClosingsSound
<1> QED  BY <1>1, <1>2, <1>5, PlaceKeeps

LEMMA FlattensKeeps ==
  ASSUME ReportsInv, NEW t, FlattensNext(t) PROVE ReportsInv'
<1> DEFINE d == walk[t]
<1>1. /\ d \in Feeds
      /\ \/ UNCHANGED liveBrokerVars
         \/ Sends(d, -position[d].size, TRUE, "Accepted")
  BY DEF FlattensNext
<1> HIDE DEF d
<1>2. -position[d].size \in Int
  BY <1>1 DEF ReportsInv, SizesAreWhole
<1>3. CASE Sends(d, -position[d].size, TRUE, "Accepted")
  BY <1>1, <1>2, <1>3, SendsKeeps
<1>4. CASE UNCHANGED liveBrokerVars
  BY <1>4, ReportsStay DEF liveBrokerVars, ledgerVars
<1> QED  BY <1>1, <1>3, <1>4

LEMMA MarketKeeps ==
  ASSUME ReportsInv, MarketSteps PROVE ReportsInv'
<1>1. PICK id \in DOMAIN market :
        \/ \E k \in Lots, p \in Prices : MarketExecutes(id, k, p)
        \/ reports = <<>> /\ MarketReports(id)
        \/ reports = <<>> /\ \E k \in Lots, p \in Prices : MarketUnwinds(id, k, p)
  BY DEF MarketSteps
<1> QED  BY <1>1, ExecutesKeeps, MarketReportsKeeps, MarketUnwindsKeeps

BrokerInv == ReportsInv /\ TypesInv

LEMMA ReportsStep == BrokerInv /\ [Next]_vars => ReportsInv'
<1> SUFFICES ASSUME BrokerInv, [Next]_vars PROVE ReportsInv'
  OBVIOUS
<1> USE ReportsStay DEF BrokerInv, TypesInv, limitVars, strategyVars, liveBrokerVars, ledgerVars
<1>1. CASE MarketSteps
  BY <1>1, MarketKeeps
<1>2. CASE Data
  BY <1>2 DEF Data, HandleMarketData
<1>3. ASSUME NEW r \in bound.requests, NEW status \in {"Accepted", "Canceled"},
             StrategySubmits(r, status)
      PROVE  ReportsInv'
  <2>1. r.feed \in Feeds /\ r.lots \in Int
    BY LiveAssumption
  <2> QED  BY <1>3, <2>1, SendsKeeps DEF StrategySubmits
<1>4. ASSUME NEW id \in DOMAIN orders, StrategyCancels(id) PROVE ReportsInv'
  BY <1>4, CancelKeeps DEF StrategyCancels
<1>5. CASE Returns
  BY <1>5 DEF Returns
<1>6. CASE HandleFill
  BY <1>6, FillKeeps
<1>7. CASE EvaluateRisk \/ HandleDisconnect
  BY <1>7, TripKeeps DEF EvaluateRisk, HandleDisconnect
<1>8. CASE DropReport
  BY <1>8, DropKeeps
<1>9. CASE StopBegins \/ StopReturns
  BY <1>9 DEF StopBegins, StopReturns
<1>10. CASE Start \/ Connected \/ Destroy \/ ReplaceStrategy \/ ResetNextstart
  BY <1>10 DEF Start, Connected, Destroy, ReplaceStrategy, ResetNextstart
<1>11. CASE HeartbeatStale \/ HeartbeatKills \/ HeartbeatReturns
  BY <1>11 DEF HeartbeatStale, HeartbeatKills, HeartbeatReturns
<1>12. CASE StopCloses \/ HeartbeatCloses
  <2>1. FlattensNext("stop") \/ FlattensNext("timer")
    BY <1>12 DEF StopCloses, HeartbeatCloses
  <2> QED  BY <2>1, FlattensKeeps
<1>13. CASE WindowPasses
  BY <1>13 DEF WindowPasses
<1>14. CASE UNCHANGED vars
  BY <1>14 DEF vars
<1> QED
  BY <1>1, <1>2, <1>3, <1>4, <1>5, <1>6, <1>7, <1>8, <1>9, <1>10, <1>11, <1>12, <1>13, <1>14
     DEF Next, Callback, Application, Heartbeat

LEMMA BrokerStep == BrokerInv /\ [Next]_vars => BrokerInv'
BY ReportsStep, TypesStep DEF BrokerInv

LEMMA ReportsBegin == Init => BrokerInv
<1> SUFFICES ASSUME Init PROVE BrokerInv
  OBVIOUS
<1>1. /\ orders = <<>> /\ pending = {} /\ snapshots = <<>> /\ heard = <<>> /\ DOMAIN market = {}
      /\ told = {} /\ reports = <<>>
      /\ position = [d \in Feeds |-> [size |-> 0, price |-> 0]]
  BY DEF Init, LiveBrokerInit, LedgerInit
<1>2. <<>> \in Seq(LiveOrder) /\ DOMAIN <<>> = {}
  OBVIOUS
<1>3. Lists /\ PendingOK /\ HeardOK
  BY <1>1, <1>2 DEF Lists, PendingOK, HeardOK
<1>4. SizesAreWhole /\ MarketOK /\ ReportsOK
  BY <1>1 DEF SizesAreWhole, MarketOK, ReportsOK
<1> QED  BY <1>1, <1>2, <1>3, <1>4, LiveInit DEF BrokerInv, ReportsInv

\* However reports are split, shared, repeated or dropped, and an order is
\* canceled meanwhile, its status is what was last heard of it, and exactly
\* the completed orders have left pending_orders_ (record_live_fill).
THEOREM StatusFollows == Spec => []StatusFollowsReports
<1>1. BrokerInv => StatusFollowsReports
  BY DEF BrokerInv, ReportsInv, PendingOK, HeardOK, HeardOf, Heard, StatusFollowsReports
<1> QED  BY <1>1, ReportsBegin, BrokerStep, PTL DEF Spec
-----------------------------------------------------------------------------
(* What the account knows of the reports *)

\* Neither the account nor what was heard moves.
BookStays ==
  /\ UNCHANGED ledgerVars /\ DOMAIN orders \subseteq DOMAIN orders'
  /\ \A id \in DOMAIN orders :
       orders'[id].feed = orders[id].feed /\ heard'[id] = heard[id]
  /\ \A id \in DOMAIN orders' : id \notin DOMAIN orders => heard'[id] = None

LEMMA CancelStays ==
  ASSUME ReportsInv, NEW id \in DOMAIN orders, CancelLive(id)
  PROVE  BookStays
<1> DEFINE status == IF orders[id].status \in AliveStatuses THEN "Canceled" ELSE orders[id].status
<1>1. orders' = [orders EXCEPT ![id].status = status] /\ UNCHANGED <<ledgerVars, heard>>
  BY DEF CancelLive
<1>2. orders \in Seq(LiveOrder)
  BY DEF ReportsInv, Lists
<1> HIDE DEF status
<1>3. DOMAIN orders' = DOMAIN orders /\ \A j \in DOMAIN orders : orders'[j].feed = orders[j].feed
  <2>1. orders[id] \in LiveOrder
    BY <1>2
  <2>2. [orders[id] EXCEPT !.status = status].feed = orders[id].feed
    BY <2>1 DEF LiveOrder
  <2> QED  BY <1>1, <1>2, <2>2
<1> QED  BY <1>1, <1>3 DEF BookStays

LEMMA PlaceStays ==
  ASSUME ReportsInv, NEW T, NEW subs \in Seq(T), Place(subs)
  PROVE  BookStays
<1> DEFINE m == Len(orders)
           n == Len(subs)
           new == [i \in DOMAIN subs |-> NewOrder(subs[i])]
           blank == [i \in DOMAIN subs |-> None]
<1>1. /\ m \in Nat /\ n \in Nat /\ DOMAIN subs = 1 .. n /\ DOMAIN orders = 1 .. m
      /\ Len(heard) = m
      /\ (\E S : orders \in Seq(S)) /\ (\E S : heard \in Seq(S))
  BY DEF ReportsInv, Lists
<1>2. orders' = orders \o new /\ heard' = heard \o blank /\ UNCHANGED ledgerVars
  BY DEF Place
<1>3. /\ new = [i \in 1 .. n |-> new[i]] /\ blank = [i \in 1 .. n |-> blank[i]]
      /\ \A i \in 1 .. n : blank[i] = None
  BY <1>1
<1> HIDE DEF m, n, new, blank
<1>4. /\ (\E S : new \in Seq(S)) /\ Len(new) = n
      /\ (\E S : blank \in Seq(S)) /\ Len(blank) = n
  BY <1>1, <1>3, IndexedSeq
<1>5. /\ \E S : orders' \in Seq(S)
      /\ Len(orders') = m + n
      /\ \A i \in 1 .. m : orders'[i] = orders[i]
  <2>1. /\ \E S : orders \o new \in Seq(S)
        /\ Len(orders \o new) = Len(orders) + Len(new)
        /\ \A i \in 1 .. Len(orders) : (orders \o new)[i] = orders[i]
    BY <1>1, <1>4, Extended
  <2> QED  BY <1>2, <1>4, <2>1 DEF m
<1>6. /\ \A i \in 1 .. m : heard'[i] = heard[i]
      /\ \A i \in m + 1 .. m + n : heard'[i] = blank[i - m]
  <2>1. /\ \A i \in 1 .. Len(heard) : (heard \o blank)[i] = heard[i]
        /\ \A i \in Len(heard) + 1 .. Len(heard) + Len(blank) :
             (heard \o blank)[i] = blank[i - Len(heard)]
    BY <1>1, <1>4, Extended
  <2> QED  BY <1>1, <1>2, <1>4, <2>1
<1>7. DOMAIN orders' = 1 .. m + n
  BY <1>1, <1>5
<1>8. ASSUME NEW i \in 1 .. m + n, i \notin 1 .. m PROVE heard'[i] = None
  <2>1. i \in m + 1 .. m + n /\ i - m \in 1 .. n
    BY <1>1, <1>8
  <2> QED  BY <1>3, <1>6, <2>1
<1>9. 1 .. m \subseteq 1 .. m + n
  BY <1>1
<1> QED  BY <1>1, <1>2, <1>5, <1>6, <1>7, <1>8, <1>9 DEF BookStays

\* A step of the engine books a report, cancels an order, places some, is one
\* of the market, drops a report, or moves nothing of this.
LEMMA BookSteps ==
  ASSUME BrokerInv, [Next]_vars
  PROVE  \/ HandleFill
         \/ /\ UNCHANGED <<ledgerVars, orders, heard>>
            /\ MarketSteps \/ DropReport \/ UNCHANGED <<market, told, reports, lost>>
         \/ \E id \in DOMAIN orders : CancelLive(id)
         \/ \E subs : Place(subs) /\ \E T : subs \in Seq(T)
<1> DEFINE Same == /\ UNCHANGED <<ledgerVars, orders, heard>>
                   /\ MarketSteps \/ DropReport \/ UNCHANGED <<market, told, reports, lost>>
           Cancels == \E id \in DOMAIN orders : CancelLive(id)
           Places == \E subs : Place(subs) /\ \E T : subs \in Seq(T)
<1> SUFFICES HandleFill \/ Same \/ Cancels \/ Places
  OBVIOUS
<1>1. CASE MarketSteps
  <2> HIDE DEF MarketSteps
  <2> QED  BY <1>1, MarketLeaves DEF MarketFrame
<1>2. ASSUME NEW d, NEW lots, NEW flatten, NEW status, Sends(d, lots, flatten, status)
      PROVE  Places
  BY <1>2, SendsPlaces
<1>3. TriggerKillSwitch => Places
  BY AllClosingsClose DEF TriggerKillSwitch
<1>4. ASSUME NEW r, NEW status, StrategySubmits(r, status) PROVE Places
  BY <1>2, <1>4 DEF StrategySubmits
<1>5. StopCloses \/ HeartbeatCloses => Same \/ Places
  <2>1. ASSUME NEW t, FlattensNext(t) PROVE Same \/ Places
    BY <1>2, <2>1 DEF FlattensNext, liveBrokerVars
  <2> HIDE DEF Same, Places
  <2> QED  BY <2>1 DEF StopCloses, HeartbeatCloses
<1>6. EvaluateRisk \/ HandleDisconnect => Same \/ Places
  BY <1>3 DEF EvaluateRisk, HandleDisconnect, liveBrokerVars
<1> HIDE DEF Places, Cancels
<1>7. CASE \E id \in DOMAIN orders : StrategyCancels(id)
  BY <1>7 DEF StrategyCancels, Cancels
<1>8. CASE Data \/ Returns \/ DropReport \/ WindowPasses \/ UNCHANGED vars
  BY <1>8 DEF Data, HandleMarketData, Returns, DropReport, WindowPasses, vars, liveBrokerVars
<1>9. CASE \/ Start \/ Connected \/ StopBegins \/ StopReturns \/ Destroy
           \/ ReplaceStrategy \/ ResetNextstart
           \/ HeartbeatStale \/ HeartbeatKills \/ HeartbeatReturns
  BY <1>9 DEF Start, Connected, StopBegins, StopReturns, Destroy, ReplaceStrategy,
              ResetNextstart, HeartbeatStale, HeartbeatKills, HeartbeatReturns, liveBrokerVars
<1> HIDE DEF Same
<1> QED
  BY <1>1, <1>4, <1>5, <1>6, <1>7, <1>8, <1>9 DEF Next, Callback, Application, Heartbeat

\* Every trade of the account is in step with the positions, and every
\* position with the reports.
BooksInv == BrokerInv /\ LedgerInv /\ PositionsFollowReports

HeardSizes(d) == [id \in HeardOn(d) |-> heard[id].size]

LEMMA StayingBooks ==
  ASSUME LedgerInv, PositionsFollowReports, BookStays
  PROVE  LedgerInv' /\ PositionsFollowReports'
<1>1. LedgerInv'
  BY LedgerUnchanged DEF BookStays
<1>2. ASSUME NEW d PROVE HeardSizes(d)' = HeardSizes(d)
  <2>1. HeardOn(d)' = HeardOn(d)
    BY DEF HeardOn, Heard, BookStays
  <2>2. \A id \in HeardOn(d) : heard'[id] = heard[id]
    BY DEF HeardOn, Heard, BookStays
  <2> QED  BY <2>1, <2>2 DEF HeardSizes
<1> QED  BY <1>1, <1>2 DEF PositionsFollowReports, HeardSizes, BookStays, ledgerVars
LEMMA ReportPriceType ==
  ASSUME NEW prev, prev = None \/ prev \in Report, NEW r \in Report, NEW delta \in Int, delta # 0
  PROVE  ReportPrice(prev, r, delta) \in Int
<1>1. Abs(delta) \in Int /\ Abs(delta) > 0
  BY AbsType
<1>2. r.entry \in Int /\ r.exit \in Int /\ r.pnl \in Int /\ r.size \in Int
  BY DEF Report
<1>3. CASE prev = None
  BY <1>2, <1>3 DEF ReportPrice
<1>4. CASE prev # None
  <2>1. prev.entry \in Int /\ prev.pnl \in Int /\ prev.size \in Int
    BY <1>4 DEF Report
  <2>2. (r.entry * Abs(r.size) - prev.entry * Abs(prev.size)) \div Abs(delta) \in Int
    <3>1. Abs(r.size) \in Int /\ Abs(prev.size) \in Int
      BY <1>2, <2>1, AbsType
    <3>2. r.entry * Abs(r.size) - prev.entry * Abs(prev.size) \in Int
      BY <1>2, <2>1, <3>1
    <3> QED  BY <1>1, <3>2, DivType
  <2>3. (r.pnl - prev.pnl) \div Abs(delta) \in Int
    <3>1. r.pnl - prev.pnl \in Int
      BY <1>2, <2>1
    <3> QED  BY <1>1, <3>1, DivType
  <2> DEFINE mean == (r.entry * Abs(r.size) - prev.entry * Abs(prev.size)) \div Abs(delta)
             gain == (r.pnl - prev.pnl) \div Abs(delta)
  <2>4. \/ ReportPrice(prev, r, delta) \in {r.entry, r.exit, mean}
        \/ ReportPrice(prev, r, delta) = prev.entry + (IF prev.size > 0 THEN 1 ELSE -1) * gain
    BY <1>4 DEF ReportPrice
  <2> HIDE DEF mean, gain
  <2>5. mean \in Int /\ gain \in Int
    BY <2>2, <2>3 DEF mean, gain
  <2> QED  BY <1>2, <2>1, <2>4, <2>5
<1> QED  BY <1>3, <1>4

\* What a report adds to the account is a fill of nonzero size.
LEMMA FillBooksTrades ==
  ASSUME ReportsInv, LedgerInv, HandleFill
  PROVE  LedgerInv'
<1>1. PICK r : Sent(r) /\ reports = <<r>>
  BY DEF ReportsInv, ReportsOK, HandleFill
<1> DEFINE prev == snapshots[r.id]
           delta == r.size - SizeOf(prev)
           price == ReportPrice(prev, r, delta)
           comm == r.comm - IF prev = None THEN 0 ELSE prev.comm
           d == orders[r.id].feed
<1>2. RecordFill(r)
  BY <1>1 DEF HandleFill
<1>3. /\ r \in Report /\ r.size \in Int /\ r.comm \in Int /\ d \in Feeds
      /\ prev = None \/ prev \in Report
  BY <1>1, FillFacts DEF Report, LiveOrder
<1>4. delta \in Int /\ comm \in Int
  BY <1>3 DEF Report, SizeOf
<1>5. CASE delta = 0
  BY <1>2, <1>5, LedgerUnchanged DEF RecordFill
<1>6. CASE delta # 0
  <2>1. /\ cash' = [cash EXCEPT ![Settle(d)] = @ - (delta * price + comm)]
        /\ position' = [position EXCEPT ![d] = PositionAfter(@, delta, price)]
        /\ \/ OpenTrade(d, delta, price, comm) \/ GrowTrade(d, delta, price, comm)
           \/ ShrinkTrade(d, delta, price, comm) \/ ReverseTrade(d, delta, price, comm)
    BY <1>2, <1>6 DEF RecordFill, ApplyExecution
  <2>2. price \in Int
    <3> HIDE DEF prev, delta
    <3> QED  BY <1>3, <1>4, <1>6, ReportPriceType
  <2> HIDE DEF prev, delta, price, comm, d
  <2> QED  BY <1>3, <1>4, <1>6, <2>1, <2>2, FillKeepsLedger
<1> QED  BY <1>5, <1>6

\* What was heard after a report, and of which orders.
LEMMA FillHears ==
  ASSUME ReportsInv, NEW r, Sent(r), reports = <<r>>, HandleFill
  PROVE  /\ DOMAIN orders' = DOMAIN orders /\ IsFiniteSet(DOMAIN orders)
         /\ \A j \in DOMAIN orders : /\ orders'[j].feed = orders[j].feed
                                     /\ heard'[j] = IF j = r.id THEN r ELSE heard[j]
<1> DEFINE id == r.id
           status == StatusAfter(r)
<1>1. RecordFill(r)
  BY DEF HandleFill
<1>2. /\ id \in DOMAIN orders /\ orders[id] \in LiveOrder /\ orders \in Seq(LiveOrder)
      /\ DOMAIN orders = DOMAIN heard
      /\ DOMAIN orders = 1 .. Len(orders) /\ Len(orders) \in Nat
  BY FillFacts DEF ReportsInv, Lists
<1>3. heard' = [heard EXCEPT ![id] = r]
  BY <1>1 DEF RecordFill
<1>4. orders' = orders \/ orders' = [orders EXCEPT ![id].status = status]
  BY <1>1 DEF RecordFill, ApplyExecution
<1>5. [orders[id] EXCEPT !.status = status].feed = orders[id].feed
  BY <1>2 DEF LiveOrder
<1> HIDE DEF status
<1>6. /\ DOMAIN orders' = DOMAIN orders
      /\ \A j \in DOMAIN orders : orders'[j].feed = orders[j].feed
  BY <1>2, <1>4, <1>5
<1>7. IsFiniteSet(DOMAIN orders)
  BY <1>2, FS_Interval
<1> QED  BY <1>2, <1>3, <1>6, <1>7

\* ... and the report now is the last of its order.
LEMMA FillBooksPosition ==
  ASSUME ReportsInv, LedgerInv, PositionsFollowReports, HandleFill
  PROVE  PositionsFollowReports'
<1>1. PICK r : Sent(r) /\ reports = <<r>>
  BY DEF ReportsInv, ReportsOK, HandleFill
<1> DEFINE id == r.id
           prev == snapshots[id]
           delta == r.size - SizeOf(prev)
           price == ReportPrice(prev, r, delta)
<1>2. RecordFill(r)
  BY <1>1 DEF HandleFill
<1>3. /\ id \in DOMAIN orders /\ r # None /\ r.size \in Int /\ prev = heard[id]
      /\ orders[id] \in LiveOrder
      /\ prev # None => prev.size \in Int
  BY <1>1, FillFacts
<1>4. /\ orders \in Seq(LiveOrder) /\ DOMAIN orders = DOMAIN heard
      /\ DOMAIN orders = 1 .. Len(orders) /\ Len(orders) \in Nat
      /\ position \in [Feeds -> [size : Int, price : Int]]
      /\ \A j \in DOMAIN orders : heard[j] # None => heard[j].size \in Int
  BY DEF ReportsInv, Lists, HeardOK, HeardOf, Report, LedgerInv, LedgerTypeOK
<1>5. /\ DOMAIN orders' = DOMAIN orders /\ IsFiniteSet(DOMAIN orders)
      /\ \A j \in DOMAIN orders : /\ orders'[j].feed = orders[j].feed
                                  /\ heard'[j] = IF j = id THEN r ELSE heard[j]
  BY <1>1, FillHears
<1> DEFINE d == orders[id].feed
<1>6. delta \in Int /\ d \in Feeds
  BY <1>3 DEF SizeOf, LiveOrder
<1>7. \A e \in Feeds : position'[e].size = position[e].size + IF e = d THEN delta ELSE 0
  <2>1. CASE delta = 0
    <3>1. position' = position
      BY <1>2, <2>1 DEF RecordFill, ledgerVars
    <3> QED  BY <1>4, <2>1, <3>1
  <2>2. CASE delta # 0
    <3>1. position' = [position EXCEPT ![d] = PositionAfter(@, delta, price)]
      BY <1>2, <2>2 DEF RecordFill, ApplyExecution
    <3> HIDE DEF price, delta, d
    <3>2. \A pos : PositionAfter(pos, delta, price).size = pos.size + delta
      BY DEF PositionAfter
    <3> QED  BY <1>4, <1>6, <3>1, <3>2
  <2> QED  BY <2>1, <2>2
<1>8. ASSUME NEW e \in Feeds
       PROVE  position'[e].size = SumFunction(HeardSizes(e)')
  <2>1. position[e].size = SumFunction(HeardSizes(e))
    BY DEF PositionsFollowReports, HeardSizes
  <2> DEFINE S == HeardOn(e)  T == HeardOn(e)'  g == HeardSizes(e)  h == HeardSizes(e)'
  <2>2. /\ DOMAIN g = S /\ (\A j \in S : g[j] = heard[j].size)
        /\ DOMAIN h = T /\ (\A j \in T : h[j] = heard'[j].size)
    BY DEF HeardSizes
  <2>3. /\ S = {j \in DOMAIN orders : heard[j] # None /\ orders[j].feed = e}
        /\ T = {j \in DOMAIN orders : heard'[j] # None /\ orders[j].feed = e}
    BY <1>5 DEF HeardOn, Heard
  <2> HIDE DEF id, prev, delta, d, S, T, g, h
  <2>4. IsFiniteSet(S) /\ IsFiniteSet(T)
    BY <1>5, <2>3, FS_Subset
  <2>5. (\A j \in S : g[j] \in Int) /\ (\A j \in T : h[j] \in Int)
    <3>1. \A j \in DOMAIN orders : heard'[j] # None => heard'[j].size \in Int
      BY <1>3, <1>4, <1>5
    <3> QED  BY <1>4, <2>2, <2>3, <3>1
  <2>6. CASE e # d
    <3>1. T = S /\ \A j \in S : h[j] = g[j]
      BY <1>3, <1>5, <2>2, <2>3, <2>6 DEF d
    <3>2. SumFunctionOnSet(h, S) = SumFunctionOnSet(g, S)
      BY <2>4, <3>1, SumSame
    <3>3. position'[e].size = position[e].size
      BY <1>4, <1>7, <2>6
    <3> QED  BY <2>1, <2>2, <3>1, <3>2, <3>3 DEF SumFunction, g, h
  <2>7. CASE e = d
    <3>1. /\ id \in T /\ h[id] = r.size
          /\ \A j \in T \ {id} : j \in S /\ h[j] = g[j]
      BY <1>3, <1>5, <2>2, <2>3, <2>7 DEF d
    <3>2. position'[e].size = position[e].size + delta
      BY <1>7, <2>7
    <3>3. CASE prev = None
      <4>1. T \ {id} = S
        BY <1>3, <1>5, <2>3, <3>1, <3>3
      <4>2. SumFunctionOnSet(h, T) = SumFunctionOnSet(g, T \ {id}) + h[id]
        BY <2>4, <2>5, <3>1, SumGrows
      <4>3. delta = r.size
        BY <1>3, <3>3 DEF delta, SizeOf
      <4> QED  BY <2>1, <2>2, <3>1, <3>2, <4>1, <4>2, <4>3 DEF SumFunction, g, h
    <3>4. CASE prev # None
      <4>1. T = S /\ id \in S /\ g[id] = prev.size
        BY <1>3, <1>5, <2>2, <2>3, <2>7, <3>1, <3>4 DEF d
      <4>2. SumFunctionOnSet(h, S) = SumFunctionOnSet(g, S) + (h[id] - g[id])
        BY <2>4, <2>5, <3>1, <4>1, SumMoves
      <4>3. delta = h[id] - g[id]
        BY <1>3, <3>1, <3>4, <4>1 DEF delta, SizeOf
      <4> QED  BY <2>1, <2>2, <3>2, <4>1, <4>2, <4>3 DEF SumFunction, g, h
    <3> QED  BY <3>3, <3>4
  <2> QED  BY <2>6, <2>7
<1> QED  BY <1>8 DEF PositionsFollowReports, HeardSizes

LEMMA BooksStep == BooksInv /\ [Next]_vars => BooksInv'
<1> SUFFICES ASSUME BooksInv, [Next]_vars PROVE BooksInv'
  OBVIOUS
<1> SUFFICES LedgerInv' /\ PositionsFollowReports'
  BY BrokerStep DEF BooksInv
<1>1. CASE HandleFill
  BY <1>1, FillBooksTrades, FillBooksPosition DEF BooksInv, BrokerInv
<1>2. CASE UNCHANGED <<ledgerVars, orders, heard>>
  <2>1. BookStays
    BY <1>2 DEF BookStays
  <2> QED  BY <2>1, StayingBooks DEF BooksInv
<1>3. CASE \E id \in DOMAIN orders : CancelLive(id)
  BY <1>3, CancelStays, StayingBooks DEF BooksInv, BrokerInv
<1>4. CASE \E subs : Place(subs) /\ \E T : subs \in Seq(T)
  <2>1. PICK subs, T : Place(subs) /\ subs \in Seq(T)
    BY <1>4
  <2> QED  BY <2>1, PlaceStays, StayingBooks DEF BooksInv, BrokerInv
<1> QED  BY <1>1, <1>2, <1>3, <1>4, BookSteps DEF BooksInv

LEMMA BooksBegin == Init => BooksInv
<1> SUFFICES ASSUME Init PROVE BooksInv
  OBVIOUS
<1>1. LedgerInv
  BY LedgerInitInv DEF Init, LiveBrokerInit
<1>2. ASSUME NEW d \in Feeds PROVE position[d].size = SumFunction(HeardSizes(d))
  <2>1. HeardOn(d) = {} /\ position[d].size = 0
    BY DEF Init, LiveBrokerInit, LedgerInit, HeardOn, Heard
  <2> QED  BY <2>1, SumStart DEF SumFunction, HeardSizes
<1> QED  BY <1>1, <1>2, ReportsBegin DEF BooksInv, PositionsFollowReports, HeardSizes

\* However executions are split and repeated, and whatever a stopped engine
\* drops, the differences record_live_fill takes add up: every position is the
\* sum of the last reports of its orders.
THEOREM PositionsFollow == Spec => []PositionsFollowReports
<1>1. BooksInv => PositionsFollowReports
  BY DEF BooksInv
<1> QED  BY <1>1, BooksBegin, BooksStep, PTL DEF Spec

\* The trades of the live account stay in step with its positions, as in a
\* backtest (apply_live_execution, update_trades).
THEOREM TradesFollow == Spec => []TradesMatchPositions
<1>1. BooksInv => TradesMatchPositions
  BY DEF BooksInv, LedgerInv
<1> QED  BY <1>1, BooksBegin, BooksStep, PTL DEF Spec
-----------------------------------------------------------------------------
(* What the book and the market know of each other *)

\* What the engine was last told of an order; nothing at first.
LastHeard(id) == IF heard[id] = None THEN Nothing(id) ELSE heard[id]

\* From one report of an order to the next: nothing more, more of it executed, ...
Grew(x, y) ==
  \/ y = x
  \/ /\ y.pnl = x.pnl /\ y.exit = x.exit /\ ~y.closed
     /\ x.size = 0 \/ Grows(x.size, y.size)

\* ... or k lots given back at price p.
GivenBack(x, y, k, p) ==
  LET sign == IF x.size > 0 THEN 1 ELSE -1
  IN  /\ k <= Abs(x.size)
      /\ y.size = x.size - sign * k /\ y.entry = x.entry
      /\ y.pnl = x.pnl + sign * k * (p - x.entry) /\ y.comm = x.comm + k
      /\ y.exit = p /\ (y.closed <=> k = Abs(x.size))

Unwound(x, y) == \E k \in Lots, p \in Prices : GivenBack(x, y, k, p)

\* What has been paid for an order by the time of a report.
Cost(x) == x.entry * x.size - x.pnl + x.comm

\* The price of what y adds to x is a whole number of ticks.
WholeMean(x, y) ==
  (y.entry * Abs(y.size) - x.entry * Abs(x.size)) % Abs(y.size - x.size) = 0

LEMMA GrewOn ==
  ASSUME NEW x \in Report, NEW y \in Report, NEW z \in Report, Grew(x, y), Grew(y, z)
  PROVE  Grew(x, z)
<1>1. x.size \in Int /\ y.size \in Int /\ z.size \in Int
  BY DEF Report
<1>2. Grows(x.size, y.size) => y.size # 0
  BY <1>1 DEF Grows
<1>3. Grows(x.size, y.size) /\ Grows(y.size, z.size) => Grows(x.size, z.size)
  BY <1>1 DEF Grows
<1> QED  BY <1>2, <1>3 DEF Grew

LEMMA WholeQuotient ==
  ASSUME NEW a \in Int, NEW b \in Int, b > 0, a % b = 0
  PROVE  a \div b \in Int /\ (a \div b) * b = a
OBVIOUS

LEMMA ExactQuotient ==
  ASSUME NEW w \in Int, NEW k \in Nat \ {0}
  PROVE  (w * k) \div k = w
<1> DEFINE a == w * k  q == a \div k  r == a % k
<1>1. q \in Int /\ r \in 0 .. k - 1 /\ a = q * k + r
  OBVIOUS
<1>2. a = w * k
  OBVIOUS
<1> HIDE DEF a, q, r
<1>3. (w - q) * k = r
  BY <1>1, <1>2
<1>4. CASE w - q >= 1
  <2>1. (w - q) * k >= k
    BY <1>1, <1>4
  <2> QED  BY <1>1, <1>3, <2>1
<1>5. CASE w - q <= -1
  <2>1. (w - q) * k <= -k
    BY <1>1, <1>5
  <2> QED  BY <1>1, <1>3, <2>1
<1> QED  BY <1>1, <1>4, <1>5 DEF q, a

\* A report that has grown, by whole ticks a lot.
LEMMA GrowthPays ==
  ASSUME NEW x \in Report, NEW y \in Report, x # None, Grows(x.size, y.size), y.pnl = x.pnl,
         ~y.closed, WholeMean(x, y)
  PROVE  (y.size - x.size) * ReportPrice(x, y, y.size - x.size)
           = y.entry * y.size - x.entry * x.size
<1> DEFINE m == x.size  n == y.size  e == x.entry  f == y.entry
           a == f * Abs(n) - e * Abs(m)
           b == Abs(n - m)
           q == a \div b
<1>1. m \in Int /\ n \in Int /\ e \in Int /\ f \in Int
  BY DEF Report
<1>2. ReportPrice(x, y, n - m) = q
  BY DEF ReportPrice
<1>3. a % b = 0 /\ Grows(m, n)
  BY DEF WholeMean
<1>4. (n - m) * ReportPrice(x, y, n - m) = (n - m) * q
  BY <1>2
<1> SUFFICES (n - m) * q = f * n - e * m
  BY <1>4
<1> HIDE DEF m, n, e, f, q
<1>5. Abs(n) \in Int /\ Abs(m) \in Int /\ b \in Int /\ b > 0
  BY <1>1, <1>3 DEF Abs, Grows
<1>6. f * Abs(n) \in Int /\ e * Abs(m) \in Int
  BY <1>1, <1>5, Products
<1>7. a \in Int
  BY <1>6
<1> HIDE DEF a, b
<1>8. q \in Int /\ q * b = a
  BY <1>3, <1>5, <1>7, WholeQuotient DEF q
<1>9. CASE m > 0
  <2>1. Abs(n) = n /\ Abs(m) = m /\ b = n - m
    BY <1>1, <1>3, <1>9 DEF Abs, Grows, b
  <2>2. q * (n - m) = f * n - e * m
    BY <1>8, <2>1 DEF a
  <2>3. (n - m) * q = q * (n - m)
    BY <1>1, <1>8
  <2> QED  BY <2>2, <2>3
<1>10. CASE m < 0
  <2>1. Abs(n) = -n /\ Abs(m) = -m /\ b = m - n
    BY <1>1, <1>3, <1>10 DEF Abs, Grows, b
  <2>2. q * (m - n) = f * (-n) - e * (-m)
    BY <1>8, <2>1 DEF a
  <2>3. (n - m) * q = -(q * (m - n)) /\ f * (-n) = -(f * n) /\ e * (-m) = -(e * m)
    BY <1>1, <1>8
  <2>4. f * n \in Int /\ e * m \in Int
    BY <1>1, Products
  <2> QED  BY <2>2, <2>3, <2>4
<1> QED  BY <1>1, <1>3, <1>9, <1>10 DEF Grows

\* A report that has given lots back, whatever the profit on them.
LEMMA UnwindingPays ==
  ASSUME NEW x \in Report, NEW y \in Report, x # None, x.size # 0,
         NEW k \in Nat \ {0}, NEW p \in Nat \ {0}, GivenBack(x, y, k, p)
  PROVE  /\ ReportPrice(x, y, y.size - x.size) = p /\ y.size # x.size
         /\ Cost(y) - Cost(x) = (y.size - x.size) * p + (y.comm - x.comm)
<1> DEFINE s == IF x.size > 0 THEN 1 ELSE -1
           m == x.size  n == y.size  e == x.entry
           g == s * k * (p - e)
<1>1. /\ m \in Int /\ n \in Int /\ e \in Int /\ x.pnl \in Int /\ x.comm \in Int /\ y.pnl \in Int
      /\ y.comm \in Int
  BY DEF Report
<1>2. /\ k <= Abs(m) /\ n = m - s * k /\ y.entry = e /\ y.pnl = x.pnl + g
      /\ y.comm = x.comm + k /\ y.exit = p /\ (y.closed <=> k = Abs(m))
  BY DEF GivenBack
<1>3. s \in {1, -1} /\ (m > 0 => s = 1) /\ (m < 0 => s = -1) /\ m # 0
  BY <1>1
<1> HIDE DEF s, g, m, n, e
<1>4. /\ n # m /\ ~Grows(m, n) /\ Abs(n) = Abs(m) - k /\ Abs(n - m) = k
      /\ Abs(m) \in Int /\ n - m = -(s * k)
  BY <1>1, <1>2, <1>3 DEF Abs, Grows
<1>5. p - e \in Int
  BY <1>1
<1>6. g = s * (k * (p - e)) /\ k * (p - e) \in Int
  <2>1. g = s * k * (p - e)
    BY DEF g
  <2> QED  BY <1>1, <1>3, <1>5, <2>1, Products
<1>7. ReportPrice(x, y, n - m) = p
  <2>1. CASE y.closed
    <3>1. y.exit > 0
      BY <1>2
    <3> QED  BY <1>2, <2>1, <3>1 DEF ReportPrice
  <2>2. CASE ~y.closed
    <3>1. ReportPrice(x, y, n - m) = e + s * ((y.pnl - x.pnl) \div Abs(n - m))
      <4>1. Abs(n) < Abs(m)
        BY <1>1, <1>4
      <4> QED  BY <1>4, <2>2, <4>1 DEF ReportPrice, m, n, e, s
    <3>2. y.pnl - x.pnl = g
      <4>1. g \in Int
        BY <1>3, <1>6
      <4> QED  BY <1>1, <1>2, <4>1
    <3>3. g \div k = s * (p - e)
      <4> DEFINE z == p - e
      <4>1. z \in Int
        BY <1>5
      <4> HIDE DEF z
      <4>2. g = (s * z) * k
        BY <1>3, <1>6, <4>1 DEF z
      <4>3. s * z \in Int
        BY <1>3, <4>1
      <4> QED  BY <4>2, <4>3, ExactQuotient DEF z
    <3>4. e + s * (s * (p - e)) = p
      BY <1>1, <1>3
    <3> QED  BY <1>4, <3>1, <3>2, <3>3, <3>4
  <2> QED  BY <2>1, <2>2
<1>8. Cost(y) - Cost(x) = (n - m) * p + (y.comm - x.comm)
  <2> DEFINE a == e * m  b == s * k * e  c == s * k * p  f == e * n  h == (n - m) * p
  <2>1. a \in Int /\ b \in Int /\ c \in Int
    BY <1>1, <1>3
  <2>2. f = a - b
    BY <1>1, <1>2, <1>3
  <2>3. g = c - b
    BY <1>1, <1>3, <1>6
  <2>4. h = -c
    BY <1>1, <1>3, <1>4
  <2>5. Cost(y) = f - y.pnl + y.comm /\ Cost(x) = a - x.pnl + x.comm
    BY <1>2 DEF Cost, m, n, e
  <2> HIDE DEF a, b, c, f, h
  <2>6. Cost(y) - Cost(x) = h + (y.comm - x.comm)
    BY <1>1, <1>2, <2>1, <2>2, <2>3, <2>4, <2>5
  <2> QED  BY <2>6 DEF h
<1> QED  BY <1>4, <1>7, <1>8 DEF m, n

\* What a later report of an order brings, and what the first one does.
LEMMA ReportPays ==
  ASSUME \A p \in Prices : p > 0,
         NEW x \in Report, NEW y \in Report, x # None, x.size # 0,
         Grew(x, y) \/ Unwound(x, y), Grows(x.size, y.size) => WholeMean(x, y)
  PROVE  IF y.size = x.size THEN y = x
         ELSE Cost(y) - Cost(x)
                = (y.size - x.size) * ReportPrice(x, y, y.size - x.size) + (y.comm - x.comm)
<1>1. x.size \in Int /\ y.size \in Int
  BY DEF Report
<1>2. CASE y = x
  BY <1>2
<1>3. CASE Grew(x, y) /\ y # x
  <2>1. y.pnl = x.pnl /\ ~y.closed /\ Grows(x.size, y.size)
    BY <1>3 DEF Grew
  <2>2. y.size # x.size
    BY <1>1, <2>1 DEF Grows
  <2> DEFINE a == y.entry * y.size  b == x.entry * x.size
             c == (y.size - x.size) * ReportPrice(x, y, y.size - x.size)
  <2>3. c = a - b
    BY <2>1, GrowthPays
  <2>4. a \in Int /\ b \in Int
    BY Products DEF Report
  <2>5. /\ x.pnl \in Int /\ x.comm \in Int /\ y.comm \in Int
        /\ Cost(y) = a - y.pnl + y.comm /\ Cost(x) = b - x.pnl + x.comm
    BY DEF Report, Cost
  <2> HIDE DEF a, b, c
  <2>6. Cost(y) - Cost(x) = c + (y.comm - x.comm)
    BY <2>1, <2>3, <2>4, <2>5
  <2> QED  BY <2>2, <2>6 DEF c
<1>4. CASE Unwound(x, y)
  <2>1. PICK k \in Lots, p \in Prices : GivenBack(x, y, k, p)
    BY <1>4 DEF Unwound
  <2>2. k \in Nat \ {0} /\ p \in Nat \ {0}
    BY LiveAssumption
  <2> QED  BY <2>1, <2>2, UnwindingPays
<1> QED  BY <1>2, <1>3, <1>4

LEMMA FirstPays ==
  ASSUME NEW id, NEW y \in Report, Grew(Nothing(id), y) \/ Unwound(Nothing(id), y),
         y.size # 0 \/ y.closed
  PROVE  y.size # 0 /\ Cost(y) = y.size * y.entry + y.comm
<1>1. /\ Nothing(id).size = 0 /\ Nothing(id).pnl = 0 /\ ~Nothing(id).closed
      /\ Abs(Nothing(id).size) = 0
  BY DEF Nothing, Abs
<1>2. ~Unwound(Nothing(id), y)
  <2>1. ASSUME NEW k \in Lots, NEW p, GivenBack(Nothing(id), y, k, p) PROVE FALSE
    BY <1>1, <2>1, LiveAssumption DEF GivenBack
  <2> QED  BY <2>1 DEF Unwound
<1>3. y.size # 0 /\ y.pnl = 0
  BY <1>1, <1>2 DEF Grew
<1> DEFINE a == y.entry * y.size  b == y.size * y.entry
<1>4. a = b /\ a \in Int /\ y.comm \in Int
  BY DEF Report
<1>5. Cost(y) = a - y.pnl + y.comm
  BY DEF Cost
<1> HIDE DEF a, b
<1>6. Cost(y) = b + y.comm
  BY <1>3, <1>4, <1>5
<1> QED  BY <1>3, <1>6 DEF b
-----------------------------------------------------------------------------
(* The market, the report under way and the last one heard *)

TrackOf(id) ==
  /\ orders[id].lots > 0 => market[id].size >= 0
  /\ orders[id].lots < 0 => market[id].size <= 0
  /\ ~OnItsWay(id) => /\ Grew(LastHeard(id), market[id])
                      /\ id \in told => market[id] = LastHeard(id)
  /\ \A r : reports = <<r>> /\ r.id = id =>
       /\ Grew(LastHeard(id), r) \/ Unwound(LastHeard(id), r)
       /\ Grew(r, market[id])
       /\ id \in told => market[id] = r

\* From what was last heard of an order to what the market has is growth, or
\* one unwinding that is on its way, unless one has been dropped.
TrackInv == ~lost => \A id \in DOMAIN market : TrackOf(id)

LEMMA LastHeardType ==
  ASSUME ReportsInv, NEW id \in DOMAIN orders PROVE LastHeard(id) \in Report
<1>1. id \in Nat
  BY DEF ReportsInv, Lists
<1>2. Nothing(id) \in Report
  BY <1>1 DEF Nothing, Report
<1> QED  BY <1>2 DEF ReportsInv, HeardOK, HeardOf, LastHeard

\* An order of which neither side has moved.
LEMMA TrackStays ==
  ASSUME NEW id, TrackOf(id), reports' = reports, orders'[id].lots = orders[id].lots,
         heard'[id] = heard[id], market'[id] = market[id], id \in told' <=> id \in told
  PROVE  TrackOf(id)'
<1>1. LastHeard(id)' = LastHeard(id) /\ (OnItsWay(id)' <=> OnItsWay(id))
  BY DEF LastHeard, OnItsWay
<1> QED  BY <1>1 DEF TrackOf

LEMMA TheReport == ASSUME ReportsInv, NEW r, reports = <<r>> PROVE Sent(r)
<1>1. PICK s : Sent(s) /\ reports = <<s>>
  BY DEF ReportsInv, ReportsOK
<1>2. s = reports[1] /\ r = reports[1]
  BY <1>1
<1> QED  BY <1>1, <1>2

LEMMA ExecutesTracks ==
  ASSUME ReportsInv, TrackInv, NEW id \in DOMAIN market, NEW k \in Lots, NEW p \in Prices,
         MarketExecutes(id, k, p)
  PROVE  TrackInv'
<1> DEFINE m == market[id]
           n == IF orders[id].lots > 0 THEN k ELSE -k
           avg == AvgPrice(m.size, m.entry, n, p)
           new == [m EXCEPT !.size = m.size + n, !.entry = avg, !.comm = m.comm + k]
<1>1. /\ ~Finished(id) /\ Abs(m.size) + k <= Abs(orders[id].lots)
      /\ market' = [market EXCEPT ![id] = new]
      /\ told' = told \ {id} /\ UNCHANGED <<reports, orders, heard, lost>>
  BY DEF MarketExecutes
<1>2. /\ m \in Report /\ k \in Nat \ {0} /\ id \in DOMAIN orders /\ orders[id] \in LiveOrder
  BY LiveAssumption DEF ReportsInv, MarketOK, Lists
<1>3. new.size = m.size + n /\ new.pnl = m.pnl /\ new.exit = m.exit /\ new.closed = m.closed
  <2> HIDE DEF avg, n, m
  <2> QED  BY <1>2 DEF Report
<1>4. /\ DOMAIN market' = DOMAIN market
      /\ \A j \in DOMAIN market : market'[j] = IF j = id THEN new ELSE market[j]
  <2> HIDE DEF new
  <2> QED  BY <1>1
<1> SUFFICES ASSUME ~lost, NEW j \in DOMAIN market PROVE TrackOf(j)'
  BY <1>1, <1>4 DEF TrackInv
<1>5. TrackOf(j)
  BY DEF TrackInv
<1>6. CASE j # id
  <2> HIDE DEF new
  <2> QED  BY <1>1, <1>4, <1>5, <1>6, TrackStays
<1>7. CASE j = id
  <2>1. new \in Report /\ m \in Report /\ LastHeard(id) \in Report
    <3>1. ReportsInv'
      BY ExecutesKeeps
    <3>2. market'[id] = new
      <4> HIDE DEF new
      <4> QED  BY <1>4
    <3>3. new \in Report
      <4> HIDE DEF new
      <4> QED  BY <1>4, <3>1, <3>2 DEF ReportsInv, MarketOK
    <3> QED  BY <1>2, <3>3, LastHeardType
  <2>2. /\ Grew(m, new)
        /\ orders[id].lots > 0 => new.size >= 0
        /\ orders[id].lots < 0 => new.size <= 0
    <3> DEFINE a == m.size  b == orders[id].lots  c == new.size
    <3>1. a \in Int /\ b \in Int /\ (b > 0 => a >= 0) /\ (b < 0 => a <= 0)
      BY <1>2, <1>5, <1>7 DEF Report, LiveOrder, TrackOf
    <3>2. /\ Abs(a) + k <= Abs(b) /\ c = a + n /\ (b > 0 => n = k) /\ (~(b > 0) => n = -k)
      BY <1>1, <1>3
    <3>3. ~new.closed
      BY <1>1, <1>3 DEF Finished
    <3> HIDE DEF a, b, c, n
    <3>4. (a = 0 \/ Grows(a, c)) /\ (b > 0 => c >= 0) /\ (b < 0 => c <= 0)
      BY <1>2, <3>1, <3>2 DEF Abs, Grows
    <3> HIDE DEF m, new
    <3> QED  BY <1>3, <3>3, <3>4 DEF a, b, c, Grew
  <2> HIDE DEF new, m
  <2>3. /\ market'[id] = new /\ market[id] = m /\ LastHeard(id)' = LastHeard(id)
        /\ OnItsWay(id)' <=> OnItsWay(id)
    BY <1>1, <1>4 DEF LastHeard, OnItsWay, m
  <2>4. \A x \in Report : Grew(x, m) => Grew(x, new)
    BY <2>1, <2>2, GrewOn
  <2>5. ASSUME NEW r, reports = <<r>> PROVE r \in Report
    BY <2>5, TheReport DEF Sent
  <2> QED  BY <1>1, <1>5, <1>7, <2>1, <2>2, <2>3, <2>4, <2>5 DEF TrackOf
<1> QED  BY <1>6, <1>7

\* A report that is sent tells all there is of the order.
LEMMA SendingTracks ==
  ASSUME ReportsInv, TrackInv, reports = <<>>, NEW id \in DOMAIN market, NEW m,
         DOMAIN market' = DOMAIN market,
         \A j \in DOMAIN market : market'[j] = IF j = id THEN m ELSE market[j],
         told' = told \union {id}, reports' = <<m>>, m.id = id,
         UNCHANGED <<orders, heard, lost>>,
         ~lost => /\ Grew(LastHeard(id), m) \/ Unwound(LastHeard(id), m)
                  /\ orders[id].lots > 0 => m.size >= 0
                  /\ orders[id].lots < 0 => m.size <= 0
  PROVE  TrackInv'
<1> SUFFICES ASSUME ~lost, NEW j \in DOMAIN market PROVE TrackOf(j)'
  BY DEF TrackInv
<1>1. TrackOf(j) /\ ~OnItsWay(j) /\ (OnItsWay(j)' <=> j = id) /\ LastHeard(j)' = LastHeard(j)
  BY DEF TrackInv, OnItsWay, LastHeard
<1>2. \A r : reports' = <<r>> => r = m
  <2>1. \A r : <<m>> = <<r>> => <<m>>[1] = <<r>>[1]
    OBVIOUS
  <2> QED  BY <2>1
<1>3. Grew(m, m)
  BY DEF Grew
<1> QED  BY <1>1, <1>2, <1>3 DEF TrackOf

LEMMA MarketTracks ==
  ASSUME ReportsInv, TrackInv, MarketSteps PROVE TrackInv'
<1>1. PICK id \in DOMAIN market :
        \/ \E k \in Lots, p \in Prices : MarketExecutes(id, k, p)
        \/ reports = <<>> /\ MarketReports(id)
        \/ reports = <<>> /\ \E k \in Lots, p \in Prices : MarketUnwinds(id, k, p)
  BY DEF MarketSteps
<1>2. /\ market[id] \in Report /\ market[id].id = id /\ id \in DOMAIN orders
      /\ orders[id] \in LiveOrder
  BY DEF ReportsInv, MarketOK, Lists
<1>3. ~lost /\ reports = <<>> => TrackOf(id) /\ ~OnItsWay(id)
  BY DEF TrackInv, OnItsWay
<1>4. ASSUME reports = <<>>, MarketReports(id) PROVE TrackInv'
  <2>1. /\ told' = told \union {id} /\ reports' = <<market[id]>> /\ market' = market
        /\ UNCHANGED <<orders, heard, lost>>
    BY <1>4 DEF MarketReports
  <2>2. \A j \in DOMAIN market : market'[j] = IF j = id THEN market[id] ELSE market[j]
    BY <2>1
  <2>3. ~lost => /\ Grew(LastHeard(id), market[id])
                 /\ orders[id].lots > 0 => market[id].size >= 0
                 /\ orders[id].lots < 0 => market[id].size <= 0
    BY <1>3, <1>4 DEF TrackOf
  <2> QED  BY <1>2, <1>4, <2>1, <2>2, <2>3, SendingTracks
<1>5. ASSUME reports = <<>>, NEW k \in Lots, NEW p \in Prices, MarketUnwinds(id, k, p)
      PROVE  TrackInv'
  <2> DEFINE m == market[id]
             sign == IF m.size > 0 THEN 1 ELSE -1
             gain == m.pnl + sign * k * (p - m.entry)
             shut == k = Abs(m.size)
             u == [m EXCEPT !.size = m.size - sign * k, !.pnl = gain, !.comm = m.comm + k,
                            !.exit = p, !.closed = shut]
  <2>1. /\ id \in told /\ 0 < Abs(m.size) /\ k <= Abs(m.size)
        /\ market' = [market EXCEPT ![id] = u]
        /\ reports' = <<u>> /\ told' = told /\ UNCHANGED <<orders, heard, lost>>
    BY <1>5 DEF MarketUnwinds
  <2>2. /\ u.id = id /\ u.size = m.size - sign * k /\ u.entry = m.entry /\ u.pnl = gain
        /\ u.comm = m.comm + k /\ u.exit = p /\ (u.closed <=> shut)
    <3> HIDE DEF m, sign, gain, shut
    <3>1. m \in Report /\ m.id = id
      BY <1>2 DEF m
    <3> QED  BY <3>1 DEF Report
  <2> HIDE DEF u
  <2>3. /\ told' = told \union {id} /\ DOMAIN market' = DOMAIN market
        /\ \A j \in DOMAIN market : market'[j] = IF j = id THEN u ELSE market[j]
    BY <2>1
  <2>4. GivenBack(m, u, k, p)
    BY <2>1, <2>2 DEF GivenBack
  <2>5. ~lost => m = LastHeard(id)
    BY <1>3, <1>5, <2>1 DEF TrackOf
  <2>6. ~lost => /\ orders[id].lots > 0 => u.size >= 0
                 /\ orders[id].lots < 0 => u.size <= 0
    <3> SUFFICES ASSUME ~lost
                 PROVE  /\ orders[id].lots > 0 => u.size >= 0
                        /\ orders[id].lots < 0 => u.size <= 0
      OBVIOUS
    <3> DEFINE a == m.size  b == orders[id].lots
    <3>1. a \in Int /\ b \in Int /\ (b > 0 => a >= 0) /\ (b < 0 => a <= 0) /\ k \in Nat
      BY <1>2, <1>3, <1>5, LiveAssumption DEF Report, LiveOrder, TrackOf
    <3>2. u.size = a - sign * k /\ k <= Abs(a) /\ (a > 0 => sign = 1) /\ (~(a > 0) => sign = -1)
      BY <2>1, <2>2
    <3> HIDE DEF a, sign
    <3> QED  BY <3>1, <3>2 DEF Abs
  <2> HIDE DEF m
  <2> QED  BY <1>5, <2>1, <2>2, <2>3, <2>4, <2>5, <2>6, SendingTracks DEF Unwound
<1> QED  BY <1>1, <1>4, <1>5, ExecutesTracks

\* The report that comes in, or is dropped: of an unwinding, if it was that.
LEMMA DropTracks ==
  ASSUME \A p \in Prices : p > 0, ReportsInv, TrackInv, DropReport PROVE TrackInv'
<1>1. PICK r : Sent(r) /\ reports = <<r>>
  BY DEF ReportsInv, ReportsOK, DropReport
<1>2. /\ told' = told \ {r.id} /\ reports' = <<>> /\ lost' = (lost \/ r.exit > 0)
      /\ UNCHANGED <<orders, heard, market>>
  BY <1>1 DEF DropReport, DropFill
<1>0. ~lost' => ~lost /\ ~(r.exit > 0)
  BY <1>2, Zenon
<1> SUFFICES ASSUME ~lost, ~(r.exit > 0), NEW j \in DOMAIN market PROVE TrackOf(j)'
  BY <1>0, <1>2 DEF TrackInv
<1>3. TrackOf(j) /\ LastHeard(j)' = LastHeard(j) /\ (OnItsWay(j) <=> j = r.id) /\ ~OnItsWay(j)'
  BY <1>1, <1>2 DEF TrackInv, LastHeard, OnItsWay
<1>4. \A x : reports' # <<x>>
  BY <1>2
<1>5. CASE j # r.id
  BY <1>2, <1>3, <1>4, <1>5 DEF TrackOf
<1>6. CASE j = r.id
  <2>1. r \in Report /\ market[j] \in Report /\ LastHeard(j) \in Report
    BY <1>1, LastHeardType DEF Sent, ReportsInv, MarketOK, Lists
  <2>2. ~Unwound(LastHeard(j), r)
    BY DEF Unwound, GivenBack
  <2>3. Grew(LastHeard(j), r) /\ Grew(r, market[j])
    BY <1>1, <1>3, <1>6, <2>2 DEF TrackOf
  <2>4. Grew(LastHeard(j), market[j])
    BY <2>1, <2>3, GrewOn
  <2> QED  BY <1>2, <1>3, <1>4, <1>6, <2>4 DEF TrackOf
<1> QED  BY <1>5, <1>6

LEMMA FillTracks ==
  ASSUME ReportsInv, TrackInv, HandleFill PROVE TrackInv'
<1>1. PICK r : Sent(r) /\ reports = <<r>>
  BY DEF ReportsInv, ReportsOK, HandleFill
<1>2. /\ RecordFill(r) /\ reports' = <<>> /\ UNCHANGED <<market, told, lost>>
  BY <1>1 DEF HandleFill
<1>3. /\ heard' = [heard EXCEPT ![r.id] = r] /\ r # None /\ r.id \in DOMAIN orders
      /\ DOMAIN market \subseteq DOMAIN orders /\ DOMAIN heard = DOMAIN orders
  BY <1>1, <1>2, FillFacts DEF RecordFill, ReportsInv, Lists
<1>4. \A j \in DOMAIN orders : orders'[j].lots = orders[j].lots
  <2>1. orders' = orders \/ orders' = [orders EXCEPT ![r.id].status = StatusAfter(r)]
    BY <1>2 DEF RecordFill, ApplyExecution
  <2>2. orders \in Seq(LiveOrder) /\ StatusAfter(r) \in OrderStatuses
    BY DEF ReportsInv, Lists, StatusAfter, OrderStatuses, AliveStatuses
  <2> QED  BY <1>3, <2>1, <2>2, StatusSet
<1> SUFFICES ASSUME ~lost, NEW j \in DOMAIN market PROVE TrackOf(j)'
  BY <1>2 DEF TrackInv
<1>5. TrackOf(j) /\ ~OnItsWay(j)' /\ (OnItsWay(j) <=> j = r.id)
  BY <1>1, <1>2 DEF TrackInv, OnItsWay
<1>6. \A x : reports' # <<x>>
  BY <1>2
<1>7. LastHeard(j)' = IF j = r.id THEN r ELSE LastHeard(j)
  BY <1>3 DEF LastHeard
<1>8. orders'[j].lots = orders[j].lots /\ market'[j] = market[j]
  BY <1>2, <1>3, <1>4
<1> QED  BY <1>1, <1>2, <1>5, <1>6, <1>7, <1>8 DEF TrackOf

LEMMA CancelTracks ==
  ASSUME ReportsInv, TrackInv, NEW id \in DOMAIN orders, CancelLive(id) PROVE TrackInv'
<1> DEFINE status == IF orders[id].status \in AliveStatuses THEN "Canceled" ELSE orders[id].status
<1>1. /\ orders' = [orders EXCEPT ![id].status = status]
      /\ UNCHANGED <<heard, market, told, reports, lost>>
  BY DEF CancelLive
<1>2. orders \in Seq(LiveOrder) /\ DOMAIN market \subseteq DOMAIN orders
  BY DEF ReportsInv, Lists
<1>3. status \in OrderStatuses
  <2>1. orders[id] \in LiveOrder
    BY <1>2
  <2> QED  BY <2>1 DEF LiveOrder, OrderStatuses
<1> HIDE DEF status
<1>4. \A j \in DOMAIN market : orders'[j].lots = orders[j].lots
  BY <1>1, <1>2, <1>3, StatusSet
<1> QED  BY <1>1, <1>4, TrackStays DEF TrackInv

\* The market has done nothing yet for an order it has just been sent.
LEMMA PlaceTracks ==
  ASSUME ReportsInv, TrackInv, NEW T, NEW subs \in Seq(T), Place(subs) PROVE TrackInv'
<1> DEFINE ids == Len(orders) + 1 .. Len(orders) + Len(subs)
           sent == {id \in ids : subs[id - Len(orders)].sent}
           new == [i \in DOMAIN subs |-> NewOrder(subs[i])]
<1>1. /\ Len(orders) \in Nat /\ DOMAIN orders = 1 .. Len(orders) /\ Len(subs) \in Nat
      /\ DOMAIN subs = 1 .. Len(subs) /\ (\E S : orders \in Seq(S))
      /\ DOMAIN market \subseteq DOMAIN orders /\ told \subseteq DOMAIN market
  BY DEF ReportsInv, Lists
<1>2. /\ orders' = orders \o new
      /\ market' = [id \in DOMAIN market \union sent |->
                      IF id \in sent THEN Nothing(id) ELSE market[id]]
      /\ UNCHANGED <<told, reports, lost>>
  BY DEF Place
<1>3. sent \subseteq ids /\ \A id \in ids : id \notin DOMAIN orders /\ id \in Nat
  BY <1>1
<1>4. /\ \A j \in DOMAIN orders : orders'[j] = orders[j]
      /\ ids \subseteq DOMAIN orders'
  <2>1. new = [i \in 1 .. Len(subs) |-> new[i]]
    BY <1>1
  <2> HIDE DEF new
  <2>2. (\E S : new \in Seq(S)) /\ Len(new) = Len(subs)
    BY <1>1, <2>1, IndexedSeq
  <2>3. /\ \E S : orders \o new \in Seq(S)
        /\ Len(orders \o new) = Len(orders) + Len(subs)
        /\ \A i \in 1 .. Len(orders) : (orders \o new)[i] = orders[i]
    BY <1>1, <2>2, Extended
  <2>4. DOMAIN orders' = 1 .. Len(orders) + Len(subs)
    BY <1>1, <1>2, <2>3
  <2> QED  BY <1>1, <1>2, <2>3, <2>4
<1>5. BookStays /\ ReportsInv
  BY PlaceStays
<1> HIDE DEF ids, sent, new
<1> SUFFICES ASSUME ~lost, NEW j \in DOMAIN market' PROVE TrackOf(j)'
  BY <1>2 DEF TrackInv
<1>6. CASE j \in DOMAIN market
  <2>1. market'[j] = market[j]
    BY <1>1, <1>2, <1>3, <1>6
  <2>2. heard'[j] = heard[j] /\ orders'[j] = orders[j]
    BY <1>1, <1>4, <1>5, <1>6 DEF BookStays
  <2> QED  BY <1>2, <1>6, <2>1, <2>2, TrackStays DEF TrackInv
<1>7. CASE j \notin DOMAIN market
  <2>1. j \in sent /\ j \in ids /\ market'[j] = Nothing(j) /\ j \notin told'
    BY <1>1, <1>2, <1>3, <1>7
  <2>2. LastHeard(j)' = Nothing(j)
    <3>1. heard'[j] = None
      BY <1>3, <1>4, <1>5, <2>1 DEF BookStays
    <3> QED  BY <3>1 DEF LastHeard
  <2>3. \A r : reports' = <<r>> => r.id # j
    <3>1. reports' = reports
      BY <1>2
    <3> QED  BY <1>7, <3>1, TheReport DEF Sent
  <2>4. Nothing(j).size = 0 /\ Grew(Nothing(j), Nothing(j))
    BY DEF Nothing, Grew
  <2> QED  BY <2>1, <2>2, <2>3, <2>4 DEF TrackOf
<1> QED  BY <1>6, <1>7

LEMMA TrackStep ==
  ASSUME \A p \in Prices : p > 0, BrokerInv, TrackInv, [Next]_vars
  PROVE  TrackInv'
<1>1. CASE MarketSteps \/ DropReport
  BY <1>1, MarketTracks, DropTracks DEF BrokerInv
<1>2. CASE UNCHANGED <<orders, heard, market, told, reports, lost>>
  BY <1>2, TrackStays DEF TrackInv
<1>3. CASE HandleFill
  BY <1>3, FillTracks DEF BrokerInv
<1>4. CASE \E id \in DOMAIN orders : CancelLive(id)
  BY <1>4, CancelTracks DEF BrokerInv
<1>5. CASE \E subs : Place(subs) /\ \E T : subs \in Seq(T)
  BY <1>5, PlaceTracks DEF BrokerInv
<1> QED  BY <1>1, <1>2, <1>3, <1>4, <1>5, BookSteps

PaidOn(c) == {id \in Heard : Settle(orders[id].feed) = c}
PaidFor(c) == [id \in PaidOn(c) |-> Cost(heard[id])]

LEMMA CashByCost ==
  CashFollowsReports <=> \A c \in Currencies : cash[c] = Funding[c] - SumFunction(PaidFor(c))
BY DEF CashFollowsReports, PaidFor, PaidOn, Cost

LEMMA CashByCostNext ==
  CashFollowsReports'
    <=> \A c \in Currencies : cash'[c] = Funding[c] - SumFunction(PaidFor(c)')
BY DEF CashFollowsReports, PaidFor, PaidOn, Cost

\* record_live_fill rounds no price: what a report adds to a growing order has a
\* whole mean price.
NoReportRounds ==
  HandleFill =>
    LET r    == Head(reports)
        prev == snapshots[r.id]
    IN  prev # None /\ Grows(prev.size, r.size) => WholeMean(prev, r)

LEMMA CostType == ASSUME NEW x \in Report PROVE Cost(x) \in Int
<1> DEFINE a == x.entry * x.size
<1>1. a \in Int /\ x.pnl \in Int /\ x.comm \in Int
  BY Products DEF Report
<1>2. Cost(x) = a - x.pnl + x.comm
  BY DEF Cost
<1> HIDE DEF a
<1> QED  BY <1>1, <1>2

\* What a report costs beyond the one before it is what is taken from the cash.
LEMMA FillPays ==
  ASSUME \A p \in Prices : p > 0, ReportsInv, LedgerInv, TrackInv, ~lost,
         NEW r, Sent(r), reports = <<r>>, HandleFill, NoReportRounds
  PROVE  LET d   == orders[r.id].feed
             old == IF heard[r.id] = None THEN 0 ELSE Cost(heard[r.id])
         IN  \A c \in Currencies :
               cash'[c] = cash[c] - IF c = Settle(d) THEN Cost(r) - old ELSE 0
<1> DEFINE id == r.id
           prev == snapshots[id]
           delta == r.size - SizeOf(prev)
           price == ReportPrice(prev, r, delta)
           comm == r.comm - IF prev = None THEN 0 ELSE prev.comm
           old == IF heard[id] = None THEN 0 ELSE Cost(heard[id])
           d == orders[id].feed
<1>1. RecordFill(r)
  BY DEF HandleFill
<1>2. /\ id \in DOMAIN orders /\ id \in DOMAIN market /\ r \in Report /\ r.size \in Int
      /\ prev = heard[id] /\ d \in Feeds
      /\ prev # None => prev \in Report /\ prev.size \in Int /\ prev.size # 0
  BY FillFacts DEF LiveOrder
<1>3. Grew(LastHeard(id), r) \/ Unwound(LastHeard(id), r)
  BY <1>2 DEF TrackInv, TrackOf
<1>4. Settle(d) \in Currencies
  BY <1>2, LedgerAssumption DEF Settle
<1>5. \A x \in Report : Cost(x) \in Int
  BY CostType
<1>6. cash \in [Currencies -> Int]
  BY DEF LedgerInv, LedgerTypeOK
<1>7. prev # None => (Grows(prev.size, r.size) => WholeMean(prev, r))
  BY DEF NoReportRounds
<1>8. CASE delta = 0
  <2>1. cash' = cash
    BY <1>1, <1>8 DEF RecordFill, ledgerVars
  <2>2. prev # None
    <3> SUFFICES ASSUME prev = None PROVE FALSE
      OBVIOUS
    <3>1. LastHeard(id) = Nothing(id) /\ r.size = 0
      BY <1>2, <1>8 DEF LastHeard, SizeOf
    <3> QED  BY <1>2, <1>3, <3>1, FirstPays DEF Sent
  <2>3. r = prev
    <3>1. LastHeard(id) = prev /\ r.size = prev.size
      BY <1>2, <1>8, <2>2 DEF LastHeard, SizeOf
    <3> HIDE DEF prev
    <3> QED  BY <1>2, <1>3, <1>7, <2>2, <3>1, ReportPays
  <2>4. Cost(r) - old = 0
    BY <1>2, <1>5, <2>2, <2>3
  <2> HIDE DEF old, d
  <2> QED  BY <1>6, <2>1, <2>4 DEF old, d
<1>9. CASE delta # 0
  <2>1. cash' = [cash EXCEPT ![Settle(d)] = @ - (delta * price + comm)]
    BY <1>1, <1>9 DEF RecordFill, ApplyExecution
  <2>2. delta * price + comm = Cost(r) - old
    <3>1. CASE prev = None
      <4>1. LastHeard(id) = Nothing(id) /\ old = 0 /\ comm = r.comm - 0 /\ delta = r.size - 0
        BY <1>2, <3>1 DEF LastHeard, SizeOf
      <4>2. Cost(r) = r.size * r.entry + r.comm
        BY <1>2, <1>3, <4>1, FirstPays DEF Sent
      <4>3. price = r.entry
        BY <3>1 DEF ReportPrice
      <4>4. comm = r.comm /\ delta = r.size
        BY <1>2, <4>1 DEF Report
      <4>5. Cost(r) - old = Cost(r)
        BY <1>2, <1>5, <4>1
      <4> HIDE DEF comm, delta, price, old
      <4> QED  BY <4>2, <4>3, <4>4, <4>5
    <3>2. CASE prev # None
      <4>1. LastHeard(id) = prev /\ old = Cost(prev) /\ comm = r.comm - prev.comm
        BY <1>2, <3>2 DEF LastHeard
      <4>2. delta = r.size - prev.size
        BY <3>2 DEF SizeOf
      <4>3. r.size # prev.size
        BY <1>2, <1>9, <3>2, <4>2
      <4>4. Cost(r) - Cost(prev)
              = (r.size - prev.size) * ReportPrice(prev, r, r.size - prev.size)
                  + (r.comm - prev.comm)
        <5> HIDE DEF prev
        <5> QED  BY <1>2, <1>3, <1>7, <3>2, <4>1, <4>3, ReportPays
      <4>5. price = ReportPrice(prev, r, r.size - prev.size)
        BY <4>2
      <4> HIDE DEF comm, delta, price, old, prev
      <4> QED  BY <4>1, <4>2, <4>4, <4>5
    <3> QED  BY <3>1, <3>2
  <2> DEFINE due == delta * price + comm
  <2>3. due = Cost(r) - old
    BY <2>2
  <2>4. cash' = [cash EXCEPT ![Settle(d)] = cash[Settle(d)] - due]
    BY <2>1
  <2> HIDE DEF due, old, d
  <2>5. Cost(r) - old \in Int
    BY <1>2, <1>5 DEF old
  <2>6. \A c \in Currencies : cash'[c] = cash[c] - IF c = Settle(d) THEN due ELSE 0
    BY <1>4, <1>6, <2>3, <2>4, <2>5
  <2> QED  BY <2>3, <2>6 DEF old, d
<1> QED  BY <1>8, <1>9

LEMMA FillBooksCash ==
  ASSUME \A p \in Prices : p > 0, ReportsInv, LedgerInv, TrackInv, ~lost, CashFollowsReports,
         HandleFill, NoReportRounds
  PROVE  CashFollowsReports'
<1>1. PICK r : Sent(r) /\ reports = <<r>>
  BY DEF ReportsInv, ReportsOK, HandleFill
<1> DEFINE id == r.id
           d == orders[id].feed
           prev == heard[id]
           old == IF prev = None THEN 0 ELSE Cost(prev)
<1>2. /\ DOMAIN orders' = DOMAIN orders /\ IsFiniteSet(DOMAIN orders)
      /\ \A j \in DOMAIN orders : /\ orders'[j].feed = orders[j].feed
                                  /\ heard'[j] = IF j = id THEN r ELSE heard[j]
  BY <1>1, FillHears
<1>3. \A c \in Currencies : cash'[c] = cash[c] - IF c = Settle(d) THEN Cost(r) - old ELSE 0
  BY <1>1, FillPays
<1>4. id \in DOMAIN orders /\ r # None /\ r \in Report
  BY <1>1, FillFacts
<1>5. \A x \in Report : Cost(x) \in Int
  BY CostType
<1>6. \A j \in DOMAIN orders : heard[j] # None => heard[j] \in Report
  BY DEF ReportsInv, HeardOK, HeardOf
<1>7. ASSUME NEW c \in Currencies PROVE cash'[c] = Funding[c] - SumFunction(PaidFor(c)')
  <2>1. cash[c] = Funding[c] - SumFunction(PaidFor(c))
    BY CashByCost
  <2> DEFINE S == PaidOn(c)  T == PaidOn(c)'  g == PaidFor(c)  h == PaidFor(c)'
  <2>2. /\ DOMAIN g = S /\ (\A j \in S : g[j] = Cost(heard[j]))
        /\ DOMAIN h = T /\ (\A j \in T : h[j] = Cost(heard'[j]))
    BY DEF PaidFor, Cost
  <2>3. /\ S = {j \in DOMAIN orders : heard[j] # None /\ Settle(orders[j].feed) = c}
        /\ T = {j \in DOMAIN orders : heard'[j] # None /\ Settle(orders[j].feed) = c}
    <3>1. T = {j \in DOMAIN orders' : heard'[j] # None /\ Settle(orders'[j].feed) = c}
      BY DEF PaidOn, Heard, Settle
    <3>2. \A j \in DOMAIN orders : orders'[j].feed = orders[j].feed
      BY <1>2
    <3> HIDE DEF T
    <3> QED  BY <1>2, <3>1, <3>2 DEF PaidOn, Heard
  <2> HIDE DEF id, d, prev, old, S, T, g, h
  <2>4. IsFiniteSet(S) /\ IsFiniteSet(T)
    BY <1>2, <2>3, FS_Subset
  <2>5. (\A j \in S : g[j] \in Int) /\ (\A j \in T : h[j] \in Int)
    BY <1>2, <1>4, <1>5, <1>6, <2>2, <2>3
  <2>6. cash[c] \in Int /\ Funding[c] \in Int
    BY LedgerAssumption DEF LedgerInv, LedgerTypeOK
  <2>7. SumFunctionOnSet(g, S) \in Int
    BY <2>4, <2>5, SumType
  <2>8. cash[c] = Funding[c] - SumFunctionOnSet(g, S)
    BY <2>1, <2>2 DEF SumFunction, g
  <2>9. CASE c # Settle(d)
    <3>1. T = S /\ \A j \in S : h[j] = g[j]
      BY <1>2, <1>4, <2>2, <2>3, <2>9 DEF d
    <3>2. SumFunctionOnSet(h, S) = SumFunctionOnSet(g, S)
      BY <2>4, <3>1, SumSame
    <3>3. cash'[c] = cash[c] - 0
      BY <1>3, <2>9
    <3> QED  BY <2>2, <2>6, <2>8, <3>1, <3>2, <3>3 DEF SumFunction, h
  <2>10. CASE c = Settle(d)
    <3>1. /\ id \in T /\ h[id] = Cost(r)
          /\ \A j \in T \ {id} : j \in S /\ h[j] = g[j]
      BY <1>2, <1>4, <2>2, <2>3, <2>10 DEF d
    <3>2. cash'[c] = cash[c] - (Cost(r) - old)
      BY <1>3, <2>10
    <3>3. Cost(r) \in Int
      BY <1>4, <1>5
    <3>4. CASE prev = None
      <4>1. T \ {id} = S
        BY <1>2, <1>4, <2>3, <3>1, <3>4 DEF prev
      <4>2. SumFunctionOnSet(h, T) = SumFunctionOnSet(g, T \ {id}) + h[id]
        BY <2>4, <2>5, <3>1, SumGrows
      <4>3. old = 0
        BY <3>4 DEF old
      <4> DEFINE s == SumFunctionOnSet(g, S)  t == SumFunctionOnSet(h, T)  w == Cost(r)
      <4>4. t = s + w /\ cash[c] = Funding[c] - s /\ cash'[c] = cash[c] - (w - 0)
        BY <2>8, <3>1, <3>2, <4>1, <4>2, <4>3
      <4>5. s \in Int /\ w \in Int
        BY <2>7, <3>3
      <4> HIDE DEF s, t, w
      <4>6. cash'[c] = Funding[c] - t
        BY <2>6, <4>4, <4>5
      <4> QED  BY <2>2, <4>6 DEF SumFunction, h, t
    <3>5. CASE prev # None
      <4>1. T = S /\ id \in S /\ g[id] = Cost(prev)
        BY <1>2, <1>4, <2>2, <2>3, <2>10, <3>1, <3>5 DEF d, prev
      <4>2. g[id] \in Int /\ h[id] \in Int
        BY <2>5, <4>1
      <4>3. SumFunctionOnSet(h, S) = SumFunctionOnSet(g, S) + (h[id] - g[id])
        BY <2>4, <2>5, <3>1, <4>1, <4>2, SumMoves
      <4>4. old = g[id] /\ Cost(r) = h[id]
        BY <3>1, <3>5, <4>1 DEF old
      <4> DEFINE s == SumFunctionOnSet(g, S)  t == SumFunctionOnSet(h, S)
      <4>5. t = s + (h[id] - g[id]) /\ cash[c] = Funding[c] - s
            /\ cash'[c] = cash[c] - (h[id] - g[id]) /\ s \in Int
        BY <2>7, <2>8, <3>2, <4>3, <4>4
      <4> HIDE DEF s, t
      <4>6. cash'[c] = Funding[c] - t
        BY <2>6, <4>2, <4>5
      <4> QED  BY <2>2, <4>1, <4>6 DEF SumFunction, h, t
    <3> QED  BY <3>4, <3>5
  <2> QED  BY <2>9, <2>10
<1> QED  BY <1>7, CashByCostNext

LEMMA StayingCash ==
  ASSUME BookStays, CashFollowsReports PROVE CashFollowsReports'
<1>1. ASSUME NEW c PROVE PaidFor(c)' = PaidFor(c)
  <2>1. PaidOn(c)' = PaidOn(c)
    BY DEF PaidOn, Heard, BookStays, Settle
  <2>2. \A id \in PaidOn(c) : heard'[id] = heard[id]
    BY DEF PaidOn, Heard, BookStays
  <2> QED  BY <2>1, <2>2 DEF PaidFor, Cost
<1>2. cash' = cash
  BY DEF BookStays, ledgerVars
<1> QED  BY <1>1, <1>2, CashByCost, CashByCostNext

\* The account is what was paid for the orders, as long as no unwinding is lost.
CashInv == BooksInv /\ TrackInv /\ (~lost => CashFollowsReports)

LEMMA CashStep ==
  ASSUME \A p \in Prices : p > 0, CashInv, [Next]_vars, [NoReportRounds]_vars
  PROVE  CashInv'
<1>1. BooksInv' /\ TrackInv'
  BY BooksStep, TrackStep DEF CashInv, BooksInv
<1> SUFFICES ~lost' => CashFollowsReports'
  BY <1>1 DEF CashInv
<1> USE DEF CashInv, BooksInv, BrokerInv
<1>2. CASE HandleFill
  <2>1. lost' = lost
    BY <1>2 DEF HandleFill
  <2>2. NoReportRounds
    <3>1. reports' # reports
      <4>1. PICK r : Sent(r) /\ reports = <<r>>
        BY <1>2 DEF ReportsInv, ReportsOK, HandleFill
      <4> QED  BY <1>2, <4>1 DEF HandleFill
    <3> QED  BY <3>1 DEF vars, liveBrokerVars
  <2> QED  BY <1>2, <2>1, <2>2, FillBooksCash
<1>3. CASE UNCHANGED <<ledgerVars, orders, heard>>
           /\ (MarketSteps \/ DropReport \/ UNCHANGED <<market, told, reports, lost>>)
  <2>1. BookStays
    BY <1>3 DEF BookStays
  <2>2. MarketSteps => lost' = lost
    BY MarketLeaves DEF MarketFrame
  <2>3. DropReport /\ ~lost' => ~lost
    <3>1. DropReport => lost' = (lost \/ Head(reports).exit > 0)
      BY DEF DropReport, DropFill
    <3> QED  BY <3>1, Zenon
  <2>4. ~lost' => ~lost
    <3> HIDE DEF CashInv, BooksInv, BrokerInv
    <3> QED  BY <1>3, <2>2, <2>3
  <2> QED  BY <2>1, <2>4, StayingCash
<1>4. CASE \E id \in DOMAIN orders : CancelLive(id)
  <2>1. BookStays
    BY <1>4, CancelStays
  <2>2. lost' = lost
    BY <1>4 DEF CancelLive
  <2> QED  BY <2>1, <2>2, StayingCash
<1>5. CASE \E subs : Place(subs) /\ \E T : subs \in Seq(T)
  <2>1. BookStays
    BY <1>5, PlaceStays
  <2>2. lost' = lost
    BY <1>5 DEF Place
  <2> QED  BY <2>1, <2>2, StayingCash
<1> HIDE DEF CashInv, BooksInv, BrokerInv
<1>6. BrokerInv
  BY DEF CashInv, BooksInv
<1> QED  BY <1>2, <1>3, <1>4, <1>5, <1>6, BookSteps

LEMMA CashBegins == Init => CashInv
<1> SUFFICES ASSUME Init PROVE CashInv
  OBVIOUS
<1>1. DOMAIN market = {} /\ orders = <<>> /\ cash = Funding
  BY DEF Init, LiveBrokerInit, LedgerInit
<1>2. TrackInv
  BY <1>1 DEF TrackInv
<1>3. ASSUME NEW c \in Currencies PROVE cash[c] = Funding[c] - SumFunction(PaidFor(c))
  <2>1. PaidOn(c) = {}
    BY <1>1 DEF PaidOn, Heard
  <2>2. SumFunction(PaidFor(c)) = 0
    BY <2>1, SumStart DEF SumFunction, PaidFor
  <2>3. Funding[c] \in Int
    BY LedgerAssumption
  <2> QED  BY <1>1, <2>2, <2>3
<1> QED  BY <1>2, <1>3, BooksBegin, CashByCost DEF CashInv

\* The cash of every currency is what the last reports have cost, however the
\* executions were split over them: bought in parts, given back in parts at
\* any price, told late or twice.  Only a dropped report of an unwinding breaks
\* that, and a mean price that record_live_fill has to round.
THEOREM BookFollows ==
  ASSUME \A p \in Prices : p > 0
  PROVE  Spec /\ [][NoReportRounds]_vars => []BookFollowsReports
<1>1. CashInv => BookFollowsReports
  BY DEF CashInv, BooksInv, BookFollowsReports
<1>2. CashInv /\ [Next]_vars /\ [NoReportRounds]_vars => CashInv'
  BY CashStep
<1> QED  BY <1>1, <1>2, CashBegins, PTL DEF Spec
-----------------------------------------------------------------------------
(* flatten_positions *)

\* An order at the market stays there as it was sent.
ClosingsStay ==
  /\ DOMAIN market \subseteq DOMAIN market'
  /\ \A id \in DOMAIN market :
       /\ orders'[id].flatten = orders[id].flatten
       /\ orders'[id].feed = orders[id].feed
       /\ orders'[id].lots = orders[id].lots

LEMMA CoveredStays ==
  ASSUME ClosingsStay, NEW d, position'[d] = position[d], Covered(d) PROVE Covered(d)'
BY DEF ClosingsStay, Covered, ClosingSent

LEMMA PlaceCovers ==
  ASSUME ReportsInv, NEW T, NEW subs \in Seq(T), Place(subs)
  PROVE  /\ ClosingsStay /\ position' = position
         /\ \A d \in Feeds : (\E i \in 1 .. Len(subs) : subs[i] = ClosingOf(d)) => Covered(d)'
<1> DEFINE m == Len(orders)
           n == Len(subs)
           new == [i \in DOMAIN subs |-> NewOrder(subs[i])]
           ids == m + 1 .. m + n
           sent == {id \in ids : subs[id - m].sent}
<1>1. /\ m \in Nat /\ n \in Nat /\ DOMAIN subs = 1 .. n /\ DOMAIN orders = 1 .. m
      /\ (\E S : orders \in Seq(S)) /\ DOMAIN market \subseteq 1 .. m
  BY DEF ReportsInv, Lists
<1>2. /\ orders' = orders \o new /\ position' = position
      /\ DOMAIN market' = DOMAIN market \union sent
  BY DEF Place, ledgerVars
<1>3. \A i \in 1 .. n : new[i] = NewOrder(subs[i])
  BY <1>1
<1>4. new = [i \in 1 .. n |-> new[i]]
  BY <1>1
<1>5. \A i \in 1 .. n : m + i \in ids /\ (m + i) - m = i /\ (subs[i].sent => m + i \in sent)
  BY <1>1
<1> HIDE DEF m, n, new, sent
<1>6. (\E S : new \in Seq(S)) /\ Len(new) = n
  BY <1>1, <1>4, IndexedSeq
<1>7. /\ \A i \in 1 .. m : orders'[i] = orders[i]
      /\ \A i \in ids : orders'[i] = new[i - m]
  <2>1. /\ \A i \in 1 .. Len(orders) : (orders \o new)[i] = orders[i]
        /\ \A i \in Len(orders) + 1 .. Len(orders) + Len(new) :
             (orders \o new)[i] = new[i - Len(orders)]
    BY <1>1, <1>6, Extended
  <2> QED  BY <1>2, <1>6, <2>1 DEF m
<1>8. ClosingsStay
  BY <1>1, <1>2, <1>7 DEF ClosingsStay
<1>9. ASSUME NEW d \in Feeds, NEW i \in 1 .. n, subs[i] = ClosingOf(d) PROVE Covered(d)'
  <2>1. m + i \in DOMAIN market' /\ orders'[m + i] = NewOrder(ClosingOf(d))
    <3>1. subs[i].sent
      BY <1>9 DEF ClosingOf, Submission
    <3> QED  BY <1>2, <1>3, <1>5, <1>7, <1>9, <3>1
  <2>2. /\ orders'[m + i].flatten = TRUE /\ orders'[m + i].feed = d
        /\ orders'[m + i].lots = -position'[d].size
    BY <1>2, <2>1 DEF NewOrder, ClosingOf, Submission
  <2> QED  BY <2>1, <2>2 DEF Covered, ClosingSent
<1> QED  BY <1>2, <1>8, <1>9 DEF n

LEMMA ClosingsKept ==
  ASSUME BrokerInv, [Next]_vars
  PROVE  ClosingsStay /\ (HandleFill \/ position' = position)
<1>1. orders \in Seq(LiveOrder) /\ DOMAIN market \subseteq DOMAIN orders
  BY DEF BrokerInv, ReportsInv, Lists
<1>2. ASSUME NEW id \in DOMAIN orders, NEW status,
             orders' = [orders EXCEPT ![id].status = status], market' = market
      PROVE  ClosingsStay
  <2>1. \A j \in DOMAIN orders :
          orders'[j] = IF j = id THEN [orders[j] EXCEPT !.status = status] ELSE orders[j]
    BY <1>2
  <2>2. \A j \in DOMAIN orders : orders[j] \in LiveOrder
    BY <1>1
  <2> QED  BY <1>1, <1>2, <2>1, <2>2 DEF ClosingsStay, LiveOrder
<1>3. CASE HandleFill
  <2> DEFINE r == Head(reports)
  <2>1. market' = market /\ RecordFill(r)
    BY <1>3 DEF HandleFill
  <2>2. \/ orders' = orders
        \/ orders' = [orders EXCEPT ![r.id].status = StatusAfter(r)]
    BY <2>1 DEF RecordFill, ApplyExecution
  <2>3. r.id \in DOMAIN orders
    <3>1. reports # <<>>
      BY <1>3 DEF HandleFill
    <3> QED  BY <1>1, <3>1 DEF BrokerInv, ReportsInv, ReportsOK, Sent
  <2> HIDE DEF r
  <2> QED  BY <1>2, <1>3, <2>1, <2>2, <2>3 DEF ClosingsStay
<1>4. CASE UNCHANGED <<ledgerVars, orders>> /\ (MarketSteps \/ DropReport \/ market' = market)
  <2>1. MarketSteps => DOMAIN market' = DOMAIN market
    BY DEF MarketSteps, MarketExecutes, MarketReports, MarketUnwinds
  <2>2. DropReport => market' = market
    BY DEF DropReport
  <2> QED  BY <1>4, <2>1, <2>2 DEF ClosingsStay, ledgerVars
<1>5. ASSUME NEW id \in DOMAIN orders, CancelLive(id) PROVE ClosingsStay /\ position' = position
  BY <1>2, <1>5 DEF CancelLive, ledgerVars
<1>6. ASSUME NEW subs, NEW T, subs \in Seq(T), Place(subs)
      PROVE  ClosingsStay /\ position' = position
  BY <1>6, PlaceCovers DEF BrokerInv
<1> QED  BY <1>3, <1>4, <1>5, <1>6, BookSteps

LEMMA TripCovers ==
  ASSUME ReportsInv, TriggerKillSwitch PROVE \A d \in Feeds : Covered(d)'
<1>1. Place(AllClosings)
  BY DEF TriggerKillSwitch
<1>2. PICK T : AllClosings \in Seq(T)
  BY AllClosingsClose
<1>3. ASSUME NEW d \in Feeds PROVE Covered(d)'
  <2>1. CASE position[d].size = 0
    BY <1>1, <1>2, <2>1, PlaceCovers DEF Covered
  <2>2. CASE position[d].size # 0
    BY <1>1, <1>2, <2>2, PlaceCovers, AllClosingsClose
  <2> QED  BY <2>1, <2>2
<1> QED  BY <1>3

LEMMA SendsCovers ==
  ASSUME ReportsInv, NEW d \in Feeds, NEW lots, NEW flatten, NEW status,
         Sends(d, lots, flatten, status)
  PROVE  /\ OverRate => killed' /\ \A e \in Feeds : Covered(e)'
         /\ ~OverRate => (killed' <=> killed) /\ (flattening' <=> flattening)
         /\ /\ lots = -position[d].size /\ flatten = TRUE /\ status = "Accepted"
            /\ CheckOrderRate
            => Covered(d)'
<1>1. PICK subs :
        /\ Place(subs) /\ \E T : subs \in Seq(T)
        /\ 1 \in 1 .. Len(subs)
        /\ subs[1] = Submission(d, lots, flatten, status, CheckOrderRate)
        /\ OverRate => \A e \in Feeds : position[e].size # 0 =>
                         \E i \in 1 .. Len(subs) : subs[i] = ClosingOf(e)
  BY SendsPlaces
<1>2. PICK T : subs \in Seq(T)
  BY <1>1
<1>3. /\ position' = position
      /\ \A e \in Feeds : (\E i \in 1 .. Len(subs) : subs[i] = ClosingOf(e)) => Covered(e)'
  BY <1>1, <1>2, PlaceCovers
<1>4. (killed' <=> killed \/ OverRate) /\ (flattening' <=> flattening /\ ~OverRate)
  BY DEF Sends, OverRate
<1>5. ASSUME OverRate, NEW e \in Feeds PROVE Covered(e)'
  BY <1>1, <1>3, <1>5 DEF Covered
<1>6. ASSUME lots = -position[d].size, flatten = TRUE, status = "Accepted", CheckOrderRate
      PROVE  Covered(d)'
  <2>1. CheckOrderRate = TRUE
    BY <1>6 DEF CheckOrderRate
  <2>2. subs[1] = ClosingOf(d)
    BY <1>1, <1>6, <2>1 DEF ClosingOf
  <2> QED  BY <1>1, <1>3, <2>2
<1> QED  BY <1>4, <1>5, <1>6

LEMMA FlattensCovers ==
  ASSUME BrokerInv, NEW t \in {"timer", "stop"}, FlattensNext(t)
  PROVE  \E d \in Feeds :
           /\ walk[t] = d /\ walk' = [walk EXCEPT ![t] = d + 1]
           /\ \/ killed' /\ \A e \in Feeds : Covered(e)'
              \/ /\ (killed' <=> killed) /\ (flattening' <=> flattening)
                 /\ Unlimited \/ ~killed \/ flattening => Covered(d)'
<1>1. PICK d \in Feeds :
        /\ walk[t] = d /\ walk' = [walk EXCEPT ![t] = d + 1]
        /\ IF position[d].size = 0 THEN UNCHANGED <<liveBrokerVars, killed, flattening, stamps>>
           ELSE Sends(d, -position[d].size, TRUE, "Accepted")
  BY DEF FlattensNext
<1>2. ReportsInv /\ stamps \in Nat /\ (Unlimited \/ RateLimit \in Nat)
  BY LiveAssumption DEF BrokerInv, TypesInv, Unlimited
<1>3. ~OverRate /\ (Unlimited \/ ~killed \/ flattening) => CheckOrderRate
  BY <1>2 DEF OverRate, CheckOrderRate
<1>4. CASE position[d].size = 0
  <2>1. position' = position /\ killed' = killed /\ flattening' = flattening
    BY <1>1, <1>4 DEF liveBrokerVars, ledgerVars
  <2>2. Covered(d)'
    BY <1>4, <2>1 DEF Covered
  <2> QED  BY <1>1, <2>1, <2>2
<1>5. CASE position[d].size # 0
  <2>1. Sends(d, -position[d].size, TRUE, "Accepted")
    BY <1>1, <1>5
  <2>2. /\ OverRate => killed' /\ \A e \in Feeds : Covered(e)'
        /\ ~OverRate => (killed' <=> killed) /\ (flattening' <=> flattening)
        /\ CheckOrderRate => Covered(d)'
    BY <1>2, <2>1, SendsCovers
  <2> QED  BY <1>1, <1>3, <2>2
<1> QED  BY <1>4, <1>5

\* A walk over the feeds begins at the first, leaves none out and ends past
\* the last.
LEMMA WalkOrder ==
  ASSUME NEW n \in Nat
  PROVE  /\ \A d \in Feeds : 0 <= d /\ (n <= d => n = d \/ n + 1 <= d)
         /\ n \notin Feeds => \A d \in Feeds : ~(n <= d)
<1> DEFINE last == Cardinality(Feeds) - 1
<1>1. last \in Int /\ Feeds = 0 .. last
  BY LiveAssumption
<1> HIDE DEF last
<1> QED  BY <1>1

\* After the kill switch a position is at the market, unless a fill moved it
\* since, or the heartbeat has still to come to it and lets its order through.
KilledCover ==
  killed => \A d \in Feeds \ moved :
              \/ Covered(d)
              \/ timer = "flattening" /\ walk["timer"] <= d /\ (Unlimited \/ flattening)

\* Likewise for stop(), which nothing but the end of a heartbeat disturbs.
StopCover ==
  app = "stopping" =>
    \A d \in Feeds :
      \/ Covered(d)
      \/ walk["stop"] <= d /\ (Unlimited \/ ~killed \/ flattening)
      \/ ~Unlimited /\ crossed

StoppedCover == Stopped /\ (Unlimited \/ ~crossed) => \A d \in Feeds : Covered(d)

CoverInv ==
  /\ KilledCover
  /\ StopCover
  /\ StoppedCover
  /\ crossed => timer = "idle" /\ killed

LEMMA CoverKept ==
  ASSUME CoverInv, ClosingsStay, position' = position, killed' <=> killed,
         flattening' <=> flattening, UNCHANGED <<timer, walk, app, started, starts, crossed, moved>>
  PROVE  CoverInv'
<1>1. \A d : Covered(d) => Covered(d)'
  BY CoveredStays
<1> QED  BY <1>1 DEF CoverInv, KilledCover, StopCover, StoppedCover, Stopped

LEMMA HeartbeatCovers ==
  ASSUME CoverInv, BrokerInv, ControlInv, Heartbeat, ClosingsStay PROVE CoverInv'
<1> USE DEF CoverInv, KilledCover, StopCover, StoppedCover, Stopped
<1>0. walk \in [{"timer", "stop"} -> Nat] /\ \A d \in Feeds : 0 <= d
  BY WalkOrder DEF BrokerInv, TypesInv
<1>1. CASE HeartbeatStale
  BY <1>1, CoveredStays DEF HeartbeatStale, limitVars, liveBrokerVars, ledgerVars
<1>2. CASE HeartbeatKills
  BY <1>0, <1>2, CoveredStays DEF HeartbeatKills, liveBrokerVars, ledgerVars
<1>3. CASE HeartbeatReturns
  <2>1. \A d \in Feeds : ~(walk["timer"] <= d)
    BY <1>0, <1>3, WalkOrder DEF HeartbeatReturns
  <2>2. killed
    BY <1>3 DEF HeartbeatReturns, ControlInv
  <2> QED  BY <1>3, <2>1, <2>2, CoveredStays DEF HeartbeatReturns, liveBrokerVars, ledgerVars
<1>4. CASE HeartbeatCloses
  <2>1. /\ timer = "flattening" /\ killed /\ killed'
        /\ UNCHANGED <<position, timer, app, started, starts, crossed, moved>>
    BY <1>4, FlattensAccount DEF HeartbeatCloses, ControlInv
  <2>2. PICK d \in Feeds :
          /\ walk["timer"] = d /\ walk' = [walk EXCEPT !["timer"] = d + 1]
          /\ \/ \A e \in Feeds : Covered(e)'
             \/ /\ flattening' <=> flattening
                /\ Unlimited \/ flattening => Covered(d)'
    BY <1>4, <2>1, FlattensCovers DEF HeartbeatCloses
  <2>3. \A e \in Feeds : Covered(e) => Covered(e)'
    BY <2>1, CoveredStays
  <2>4. \A e \in Feeds : d <= e => e = d \/ d + 1 <= e
    <3>1. d \in Nat
      BY <1>0, <2>2
    <3> QED  BY <3>1, WalkOrder
  <2>5. walk'["timer"] = d + 1 /\ walk'["stop"] = walk["stop"]
    BY <1>0, <2>2
  <2> QED  BY <2>1, <2>2, <2>3, <2>4, <2>5
<1> QED  BY <1>1, <1>2, <1>3, <1>4 DEF Heartbeat

LEMMA StopCovers ==
  ASSUME CoverInv, BrokerInv, ControlInv, ClosingsStay, StopBegins \/ StopCloses \/ StopReturns
  PROVE  CoverInv'
<1> USE DEF CoverInv, KilledCover, StopCover, StoppedCover, Stopped
<1>0. walk \in [{"timer", "stop"} -> Nat] /\ \A d \in Feeds : 0 <= d
  BY WalkOrder DEF BrokerInv, TypesInv
<1>1. CASE StopBegins
  BY <1>0, <1>1, CoveredStays DEF StopBegins, liveBrokerVars, ledgerVars
<1>2. CASE StopReturns
  <2>1. \A d \in Feeds : ~(walk["stop"] <= d)
    BY <1>0, <1>2, WalkOrder DEF StopReturns
  <2> QED  BY <1>2, <2>1, CoveredStays DEF StopReturns, liveBrokerVars, ledgerVars
<1>3. CASE StopCloses
  <2>1. /\ app = "stopping" /\ (killed => killed')
        /\ UNCHANGED <<position, timer, app, started, starts, crossed, moved>>
    BY <1>3, FlattensAccount DEF StopCloses
  <2>2. PICK d \in Feeds :
          /\ walk["stop"] = d /\ walk' = [walk EXCEPT !["stop"] = d + 1]
          /\ \/ \A e \in Feeds : Covered(e)'
             \/ /\ (killed' <=> killed) /\ (flattening' <=> flattening)
                /\ Unlimited \/ ~killed \/ flattening => Covered(d)'
    BY <1>3, FlattensCovers DEF StopCloses
  <2>3. \A e \in Feeds : Covered(e) => Covered(e)'
    BY <2>1, CoveredStays
  <2>4. \A e \in Feeds : d <= e => e = d \/ d + 1 <= e
    <3>1. d \in Nat
      BY <1>0, <2>2
    <3> QED  BY <3>1, WalkOrder
  <2>5. walk'["stop"] = d + 1 /\ walk'["timer"] = walk["timer"]
    BY <1>0, <2>2
  <2> QED  BY <2>1, <2>2, <2>3, <2>4, <2>5
<1> QED  BY <1>1, <1>2, <1>3

\* A fill of an engine that is running, outside stop().
LEMMA FillCovers ==
  ASSUME CoverInv, ControlInv, ClosingsStay, HandleFill PROVE CoverInv'
<1>1. /\ started \/ app = "starting"
      /\ app # "stopping"
      /\ UNCHANGED <<killed, flattening, timer, walk, app, started, starts, crossed>>
  BY DEF HandleFill, Enters, Open, ControlInv, controlVars
<1>2. moved' = IF killed THEN moved \union {d \in Feeds : position'[d] # position[d]} ELSE moved
  BY DEF HandleFill
<1>3. ASSUME killed, NEW d \in Feeds \ moved'
      PROVE  d \in Feeds \ moved /\ position'[d] = position[d]
  BY <1>2, <1>3
<1>4. KilledCover'
  <2>1. ASSUME killed', NEW d \in Feeds \ moved'
        PROVE  \/ Covered(d)'
               \/ timer' = "flattening" /\ walk'["timer"] <= d /\ (Unlimited \/ flattening')
    BY <1>1, <1>3, <2>1, CoveredStays DEF CoverInv, KilledCover
  <2> QED  BY <2>1 DEF KilledCover
<1> QED  BY <1>1, <1>4 DEF CoverInv, StopCover, StoppedCover, Stopped

LEMMA CoverStep == CoverInv /\ BrokerInv /\ ControlInv /\ [Next]_vars => CoverInv'
<1> SUFFICES ASSUME CoverInv, BrokerInv, ControlInv, [Next]_vars PROVE CoverInv'
  OBVIOUS
<1>0. ClosingsStay /\ (HandleFill \/ position' = position)
  BY ClosingsKept
<1>1. CASE HandleFill
  BY <1>0, <1>1, FillCovers
<1>2. CASE Heartbeat
  BY <1>0, <1>2, HeartbeatCovers
<1>3. CASE StopBegins \/ StopCloses \/ StopReturns
  BY <1>0, <1>3, StopCovers
<1>4. ASSUME position' = position, UNCHANGED <<controlVars, moved>>,
             \/ (killed' <=> killed) /\ (flattening' <=> flattening)
             \/ killed' /\ ~killed /\ \A d \in Feeds : Covered(d)'
      PROVE  CoverInv'
  <2>1. UNCHANGED <<timer, walk, app, started, starts, crossed, moved>>
    BY <1>4 DEF controlVars
  <2>2. CASE (killed' <=> killed) /\ (flattening' <=> flattening)
    BY <1>0, <1>4, <2>1, <2>2, CoverKept
  <2>3. CASE killed' /\ ~killed /\ \A d \in Feeds : Covered(d)'
    BY <2>1, <2>3 DEF CoverInv, KilledCover, StopCover, StoppedCover, Stopped
  <2> QED  BY <1>4, <2>2, <2>3
<1> HIDE DEF controlVars
<1>5. ASSUME NEW r \in bound.requests, NEW status, StrategySubmits(r, status) PROVE CoverInv'
  <2>1. r.feed \in Feeds
    BY LiveAssumption DEF BrokerInv, TypesInv
  <2>2. /\ Sends(r.feed, r.lots, FALSE, status) /\ UNCHANGED <<controlVars, moved>>
        /\ position' = position
    BY <1>5, SendsAccount DEF StrategySubmits
  <2>3. /\ OverRate => killed' /\ \A e \in Feeds : Covered(e)'
        /\ ~OverRate => (killed' <=> killed) /\ (flattening' <=> flattening)
    BY <2>1, <2>2, SendsCovers DEF BrokerInv
  <2>4. OverRate => ~killed
    BY DEF OverRate
  <2> QED  BY <1>4, <2>2, <2>3, <2>4
<1>6. CASE EvaluateRisk \/ HandleDisconnect
  <2>1. UNCHANGED <<controlVars, moved>> /\ position' = position
    BY <1>6, TripAccount DEF EvaluateRisk, HandleDisconnect, liveBrokerVars, ledgerVars
  <2>2. \/ UNCHANGED <<killed, flattening>>
        \/ ~killed /\ TriggerKillSwitch
    BY <1>6 DEF EvaluateRisk, HandleDisconnect
  <2>3. TriggerKillSwitch => killed' /\ \A d \in Feeds : Covered(d)'
    BY TripAccount, TripCovers DEF BrokerInv
  <2> QED  BY <1>4, <2>1, <2>2, <2>3
<1>7. CASE MarketSteps \/ Data \/ Returns \/ DropReport \/ WindowPasses \/ UNCHANGED vars
  BY <1>4, <1>7, MarketLeaves
     DEF MarketFrame, Data, HandleMarketData, Returns, DropReport, WindowPasses, vars, limitVars,
         liveBrokerVars, ledgerVars
<1>8. ASSUME NEW id \in DOMAIN orders, StrategyCancels(id) PROVE CoverInv'
  BY <1>4, <1>8 DEF StrategyCancels, CancelLive, limitVars, ledgerVars
<1>9. CASE Start \/ Connected \/ Destroy \/ ReplaceStrategy \/ ResetNextstart
  BY <1>0, <1>9, CoveredStays
     DEF Start, Connected, Destroy, ReplaceStrategy, ResetNextstart, ControlInv, CoverInv,
         KilledCover, StopCover, StoppedCover, Stopped, limitVars, liveBrokerVars, ledgerVars
<1> QED
  BY <1>1, <1>2, <1>3, <1>5, <1>6, <1>7, <1>8, <1>9 DEF Next, Callback, Application

LEMMA CoverBegins == Init => CoverInv
BY DEF Init, CoverInv, KilledCover, StopCover, StoppedCover, Stopped

\* flatten_positions leaves no position out, whatever the rate limit and the
\* kill switch it trips itself do to its orders and whoever clears flattening_
\* meanwhile, but for a stop() under a rate limit that a heartbeat crossed.
THEOREM FlatteningCovers == Spec => []FlatteningIsComplete
<1>1. CoverInv => FlatteningIsComplete
  BY DEF CoverInv, KilledCover, StoppedCover, FlatteningIsComplete
<1>2. CoverInv /\ BrokerInv /\ ControlInv /\ [Next]_vars => CoverInv' /\ BrokerInv' /\ ControlInv'
  BY CoverStep, BrokerStep, ControlStep
<1> QED  BY <1>1, <1>2, CoverBegins, ReportsBegin, LiveInit, PTL DEF Spec
-----------------------------------------------------------------------------
(* A stopped engine *)

Silent ==
  /\ UNCHANGED <<ledgerVars, bars, close, calls>>
  /\ orders' # orders =>
       /\ timer = "flattening"
       /\ \E o \in Range(orders') : o.flatten /\ orders' = Append(orders, o)

LEMMA LateClosing ==
  ASSUME BrokerInv, ControlInv, HeartbeatCloses PROVE Silent
<1> DEFINE d == walk["timer"]
           one == Submission(d, -position[d].size, TRUE, "Accepted", CheckOrderRate)
           o == NewOrder(one)
<1>1. /\ timer = "flattening" /\ killed /\ strategyVars' = strategyVars
      /\ \/ UNCHANGED liveBrokerVars
         \/ Place(<<one>> \o <<>>)
  BY DEF HeartbeatCloses, FlattensNext, Sends, ControlInv
<1>2. CASE UNCHANGED liveBrokerVars
  BY <1>1, <1>2 DEF Silent, strategyVars, liveBrokerVars
<1>3. CASE Place(<<one>> \o <<>>)
  <2> HIDE DEF one
  <2>1. <<one>> \o <<>> = <<one>>
    OBVIOUS
  <2>2. UNCHANGED ledgerVars /\ orders' = orders \o [i \in DOMAIN <<one>> |-> NewOrder(<<one>>[i])]
    BY <1>3, <2>1 DEF Place
  <2>3. [i \in DOMAIN <<one>> |-> NewOrder(<<one>>[i])] = <<o>>
    OBVIOUS
  <2> HIDE DEF o
  <2>4. orders \in Seq(LiveOrder)
    BY DEF BrokerInv, ReportsInv, Lists
  <2>5. orders' = Append(orders, o)
    BY <2>2, <2>3, <2>4
  <2>6. Len(orders) + 1 \in DOMAIN orders' /\ orders'[Len(orders) + 1] = o
    BY <2>4, <2>5
  <2>7. o \in Range(orders')
    BY <2>6 DEF Range
  <2>8. o.flatten
    BY DEF o, one, NewOrder, Submission
  <2> QED  BY <1>1, <2>2, <2>5, <2>7, <2>8 DEF Silent, strategyVars
<1> QED  BY <1>1, <1>2, <1>3

LEMMA SilentStep == BrokerInv /\ ControlInv /\ [Next]_vars => (~Open /\ ~Open' => Silent)
<1> SUFFICES ASSUME BrokerInv, ControlInv, [Next]_vars, ~Open, ~Open' PROVE Silent
  OBVIOUS
<1>0. gate = "free" /\ ~started /\ app \notin {"starting", "replacing", "stopping"}
  BY DEF ControlInv
<1> USE <1>0 DEF Silent, Open, strategyVars, liveBrokerVars, controlVars
<1>1. CASE MarketSteps
  BY <1>1, MarketLeaves DEF MarketFrame
<1>2. CASE Data
  BY <1>2 DEF Data, HandleMarketData, Enters
<1>3. ASSUME NEW r, NEW status, StrategySubmits(r, status) PROVE Silent
  BY <1>3 DEF StrategySubmits
<1>4. ASSUME NEW id, StrategyCancels(id) PROVE Silent
  BY <1>4 DEF StrategyCancels
<1>5. CASE Returns \/ EvaluateRisk \/ HandleFill \/ HandleDisconnect
  BY <1>5 DEF Returns, EvaluateRisk, HandleFill, HandleDisconnect, Enters
<1>6. CASE DropReport
  BY <1>6 DEF DropReport
<1>7. CASE Start \/ Connected \/ StopBegins \/ StopCloses \/ StopReturns \/ Destroy
  BY <1>7 DEF Start, Connected, StopBegins, StopCloses, StopReturns, Destroy
<1>8. CASE ReplaceStrategy \/ ResetNextstart
  BY <1>8 DEF ReplaceStrategy, ResetNextstart
<1>9. CASE HeartbeatStale \/ HeartbeatKills \/ HeartbeatReturns
  BY <1>9 DEF HeartbeatStale, HeartbeatKills, HeartbeatReturns
<1>10. CASE HeartbeatCloses
  BY <1>10, LateClosing
<1>11. CASE WindowPasses \/ UNCHANGED vars
  BY <1>11 DEF WindowPasses, vars
<1> QED
  BY <1>1, <1>2, <1>3, <1>4, <1>5, <1>6, <1>7, <1>8, <1>9, <1>10, <1>11
     DEF Next, Callback, Application, Heartbeat

\* After stop() or the destructor of LiveEngine, callbacks that come late
\* change nothing (the gate of dispatch), and a heartbeat that was under way
\* adds closing orders and nothing else (flatten_positions).
THEOREM StopSilences == Spec => StoppedIsSilent
<1>1. BrokerInv /\ ControlInv /\ [Next]_vars
        => [~Open /\ ~Open' =>
              /\ UNCHANGED <<ledgerVars, bars, close, calls>>
              /\ orders' # orders =>
                   /\ timer = "flattening"
                   /\ \E o \in Range(orders') : o.flatten /\ orders' = Append(orders, o)]_vars
  BY SilentStep DEF Silent
<1>2. BrokerInv /\ ControlInv /\ [Next]_vars => BrokerInv' /\ ControlInv'
  BY BrokerStep, ControlStep
<1> QED  BY <1>1, <1>2, ReportsBegin, LiveInit, PTL DEF Spec, StoppedIsSilent
=============================================================================
