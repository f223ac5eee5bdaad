--------------------------- MODULE CerebroProofs ----------------------------
(***************************************************************************)
(* The bar loop, for any number of feeds and strategies, any timeframes    *)
(* and any bars in order of time.                                          *)
(*                                                                         *)
(* Nothing is looked at ahead: a context bar is delivered when it has      *)
(* ended by the close of the master bar of that moment.  That it still has *)
(* later needs the closes to be non-decreasing, which CloseGrows gets from *)
(* the order of the times and the monotony of the calendar; that it is the *)
(* bar the cursor shows needs the cursor to be one behind the count of     *)
(* delivered bars.                                                         *)
(*                                                                         *)
(* Nothing is held back either: DeliveryOK says, for each moment of the    *)
(* loop, up to which close a feed has delivered all it has.  KnownOK says  *)
(* the same of what the strategies were told, and from it follow that the  *)
(* engine implements the aligned clocks (ClocksAreAligned), that a warmup  *)
(* ends when it should (WarmupOK), on which bar an order fills (OrdersOK)  *)
(* and what an indicator has seen (UpdatesOK).                             *)
(*                                                                         *)
(* And each strategy is called in the order prenext, nextstart, next, for  *)
(* which no assumption is needed: entered says that nextstart was called.  *)
(*                                                                         *)
(* The evaluator walks over all bars and keeps the signals of a slice, as  *)
(* a recursive function: after i bars there have been i updates and what   *)
(* it has kept is what Heard says of them (SliceIsHeard).  The engine's    *)
(* side is UpdatesOK, WarmupOK, and that the strategies before strategyAt  *)
(* have been called (CalledOK).                                            *)
(***************************************************************************)
EXTENDS SignalEvaluation, FiniteSetTheorems, SequenceTheorems, WellFoundedInduction, TLAPS

\* The bars of the master feed are in order of time.
MasterSorted ==
  \A p \in Plans : \A b \in 1..Len(p.times[0]) :
    b + 1 <= Len(p.times[0]) => p.times[0][b] <= p.times[0][b + 1]

\* Every time is followed by a first start of a month.
MonthsGoOn ==
  \A t \in Int : \E e \in MonthStarts :
    e > t /\ \A s \in MonthStarts : s > t => e <= s
-----------------------------------------------------------------------------
(* The calendar *)

LEMMA DurationType == \A tf \in TimeFrames : DurationOf(tf) \in Nat \ {0}
<1> SUFFICES ASSUME NEW tf \in TimeFrames PROVE DurationOf(tf) \in Nat \ {0}
  OBVIOUS
<1>1. tf.n \in Nat \ {0} /\ DayLength \in Nat \ {0}
  BY IntervalAssumption DEF TimeFrames
<1>2. \A m, n \in Nat \ {0} : m * n \in Nat \ {0}
  OBVIOUS
<1> QED  BY <1>1, <1>2 DEF DurationOf

\* The start of the next month, and what makes it that.
LEMMA NextMonth ==
  ASSUME MonthsGoOn, NEW t \in Int
  PROVE  LET m == Min({s \in MonthStarts : s > t})
         IN  /\ m \in MonthStarts /\ m \in Int /\ m > t
             /\ \A s \in MonthStarts : s > t => m <= s
<1> DEFINE S == {s \in MonthStarts : s > t}
<1>1. PICK e \in S : \A s \in S : e <= s
  BY DEF MonthsGoOn
<1>2. Min(S) \in S /\ \A s \in S : Min(S) <= s
  BY <1>1 DEF Min
<1> QED  BY <1>2, IntervalAssumption

LEMMA PeriodEndType ==
  ASSUME MonthsGoOn, NEW t \in Int, NEW tf \in TimeFrames
  PROVE  PeriodEnd(t, tf) \in Int
<1>1. DurationOf(tf) \in Nat \ {0} /\ tf.unit \in Units /\ DayLength \in Nat \ {0}
  BY DurationType, IntervalAssumption DEF TimeFrames
<1>2. CASE tf.unit \in {"Minutes", "Days"}
  <2>1. t \div DurationOf(tf) \in Int
    BY <1>1
  <2> QED  BY <1>1, <1>2, <2>1 DEF PeriodEnd, PeriodStart
<1>3. CASE tf.unit = "Weeks"
  <2>1. t \div DayLength \in Int
    BY <1>1
  <2> QED  BY <1>1, <1>3, <2>1 DEF PeriodEnd, PeriodStart
<1>4. CASE tf.unit = "Months"
  BY <1>4, NextMonth DEF PeriodEnd
<1> QED  BY <1>1, <1>2, <1>3, <1>4 DEF Units

LEMMA DivGrows ==
  ASSUME NEW s \in Int, NEW t \in Int, NEW d \in Nat \ {0}, s <= t
  PROVE  s \div d <= t \div d
OBVIOUS

\* A later time is in no earlier period.
LEMMA CalendarGrows ==
  ASSUME MonthsGoOn, NEW s \in Int, NEW t \in Int, s <= t, NEW tf \in TimeFrames,
         IsCalendar(tf)
  PROVE  PeriodEnd(s, tf) <= PeriodEnd(t, tf)
<1>1. CASE tf.unit = "Weeks"
  <2> DEFINE c == s \div DayLength  d == t \div DayLength
  <2>1. DayLength \in Nat \ {0} /\ c \in Int /\ d \in Int /\ c <= d
    BY IntervalAssumption, DivGrows
  <2>2. /\ PeriodEnd(s, tf) = (c - ((c + 3) % 7)) * DayLength + 7 * DayLength
        /\ PeriodEnd(t, tf) = (d - ((d + 3) % 7)) * DayLength + 7 * DayLength
    BY <1>1 DEF PeriodEnd, PeriodStart
  <2> HIDE DEF c, d
  <2>3. c - ((c + 3) % 7) <= d - ((d + 3) % 7)
    BY <2>1
  <2>4. \A m, n \in Int : m <= n => m * DayLength <= n * DayLength
    BY <2>1
  <2>5. c - ((c + 3) % 7) \in Int /\ d - ((d + 3) % 7) \in Int
    BY <2>1
  <2>6. (c - ((c + 3) % 7)) * DayLength <= (d - ((d + 3) % 7)) * DayLength
    BY <2>3, <2>4, <2>5
  <2> QED  BY <2>1, <2>2, <2>5, <2>6
<1>2. CASE tf.unit = "Months"
  <2>1. PeriodEnd(s, tf) = Min({m \in MonthStarts : m > s})
        /\ PeriodEnd(t, tf) = Min({m \in MonthStarts : m > t})
    BY <1>2 DEF PeriodEnd
  <2>2. /\ PeriodEnd(t, tf) \in MonthStarts /\ PeriodEnd(t, tf) \in Int
        /\ PeriodEnd(t, tf) > t
    BY <2>1, NextMonth
  <2>3. \A m \in MonthStarts : m > s => PeriodEnd(s, tf) <= m
    BY <2>1, NextMonth
  <2>4. PeriodEnd(t, tf) > s
    BY <2>2
  <2> QED  BY <2>2, <2>3, <2>4
<1> QED  BY <1>1, <1>2 DEF IsCalendar
-----------------------------------------------------------------------------
(* The plan *)

LEMMA PlanType ==
  ASSUME plan \in Plans, NEW k \in Feeds
  PROVE  /\ plan.tf[k] \in TimeFrames /\ Length(k) \in Nat
         /\ \A i \in 1..Length(k) : BarTime(k, i) \in Int
         /\ \A s \in Strategies : plan.min[s][k] \in Nat
<1>1. /\ plan.tf \in [Feeds -> PeriodFrames] /\ plan.times \in [Feeds -> Seq(Int)]
      /\ plan.min \in [Strategies -> [Feeds -> Nat]]
  BY CerebroAssumption
<1>2. plan.times[k] \in Seq(Int)
  BY <1>1
<1> QED  BY <1>1, <1>2 DEF Length, BarTime, PeriodFrames

LEMMA MasterIsAFeed == 0 \in Feeds /\ \A k \in Contexts : k \in Feeds /\ k # 0
BY CerebroAssumption DEF Feeds, Contexts

\* The master bars close in order.
LEMMA CloseGrows ==
  ASSUME MasterSorted, MonthsGoOn, plan \in Plans, NEW b \in Nat \ {0}, b + 1 <= Length(0)
  PROVE  ExecClose(b) \in Int /\ ExecClose(b + 1) \in Int /\ ExecClose(b) <= ExecClose(b + 1)
<1>1. b \in 1..Length(0) /\ b + 1 \in 1..Length(0) /\ Length(0) \in Nat
  BY PlanType, MasterIsAFeed
<1>2. BarTime(0, b) \in Int /\ BarTime(0, b + 1) \in Int /\ plan.tf[0] \in TimeFrames
  BY <1>1, PlanType, MasterIsAFeed
<1>3. BarTime(0, b) <= BarTime(0, b + 1)
  BY <1>1 DEF MasterSorted, BarTime, Length
<1>4. DurationOf(plan.tf[0]) \in Nat
  BY <1>2, DurationType
<1>5. /\ PeriodEnd(BarTime(0, b), plan.tf[0]) \in Int
      /\ PeriodEnd(BarTime(0, b + 1), plan.tf[0]) \in Int
  BY <1>2, PeriodEndType
<1>6. IsCalendar(plan.tf[0]) =>
        PeriodEnd(BarTime(0, b), plan.tf[0]) <= PeriodEnd(BarTime(0, b + 1), plan.tf[0])
  BY <1>2, <1>3, CalendarGrows
<1> QED  BY <1>2, <1>3, <1>4, <1>5, <1>6 DEF ExecClose

LEMMA ClosedStaysClosed ==
  ASSUME MasterSorted, MonthsGoOn, plan \in Plans, NEW b \in Nat \ {0}, b + 1 <= Length(0),
         NEW k \in Contexts, NEW i \in 1..Length(k), ClosedBy(k, i, b)
  PROVE  ClosedBy(k, i, b + 1)
<1>1. k \in Feeds
  BY MasterIsAFeed
<1>2. BarTime(k, i) \in Int /\ plan.tf[k] \in TimeFrames
  BY <1>1, PlanType
<1>3. PeriodEnd(BarTime(k, i), plan.tf[k]) \in Int
  BY <1>2, PeriodEndType
<1> QED  BY <1>3, CloseGrows DEF ClosedBy
-----------------------------------------------------------------------------
(* The inductive invariant *)

Running == {"bar", "feeds", "orders", "strategies"}

ControlOK ==
  /\ plan \in Plans /\ phase \in Phases /\ bar \in Nat
  /\ feedAt \in 1..NumFeeds /\ strategyAt \in Nat
  /\ phase \in Running => bar < Length(0)
  /\ phase = "loaded" => bar = 0
  /\ bar = 0 \/ bar < Length(0)

\* The cursors of a context feed are where its count of delivered bars says.
CursorsOK ==
  /\ cursor \in [Feeds -> Nat] /\ delivered \in [Feeds -> Nat]
  /\ index \in [Feeds -> Nat] /\ advanced \in [Feeds -> BOOLEAN]
  /\ known \in [Feeds -> Nat]
  /\ index[0] = bar
  /\ \A k \in Contexts :
       /\ cursor[k] = delivered[k] /\ delivered[k] <= Length(k)
       /\ index[k] = IF delivered[k] = 0 THEN 0 ELSE delivered[k] - 1

\* The last bar a context feed has delivered has ended.
ShownIsClosed ==
  \A k \in Contexts : delivered[k] > 0 => ClosedBy(k, delivered[k], bar + 1)

StrategiesOK ==
  /\ entered \in [Strategies -> BOOLEAN] /\ called \in [Strategies -> Methods]
  /\ warmupEnd \in Int /\ sent \in 0..MaxOrders
  /\ updates \in [Strategies -> [Feeds -> Nat]]
  /\ orders \subseteq [feed : Feeds, known : Nat]

CInv == ControlOK /\ CursorsOK /\ ShownIsClosed /\ StrategiesOK

LEMMA InitInv == Init => CInv
<1> SUFFICES ASSUME Init PROVE CInv
  OBVIOUS
<1>1. ControlOK
  BY CerebroAssumption DEF Init, ControlOK, Phases, Running
<1>2. CursorsOK /\ ShownIsClosed
  <2>1. plan \in Plans
    BY DEF Init
  <2>2. \A k \in Contexts : Length(k) \in Nat /\ k \in Feeds
    BY <2>1, PlanType, MasterIsAFeed
  <2> QED  BY <2>2, MasterIsAFeed DEF Init, CursorsOK, ShownIsClosed
<1>3. StrategiesOK
  BY CerebroAssumption DEF Init, StrategiesOK, Methods
<1> QED  BY <1>1, <1>2, <1>3 DEF CInv

LEMMA SameClock ==
  ASSUME CursorsOK, ShownIsClosed, UNCHANGED <<plan, bar, cursor, delivered, index>>,
         advanced' \in [Feeds -> BOOLEAN], known' \in [Feeds -> Nat]
  PROVE  CursorsOK' /\ ShownIsClosed'
BY DEF CursorsOK, ShownIsClosed, ClosedBy, ExecClose, BarTime, Length

LEMMA SameStrategies ==
  StrategiesOK /\ UNCHANGED <<entered, called, warmupEnd, updates, orderVars>> => StrategiesOK'
BY DEF StrategiesOK, orderVars

LEMMA StartRunKeeps == CInv /\ StartRun => CInv'
<1> SUFFICES ASSUME CInv, StartRun PROVE CInv'
  OBVIOUS
<1>1. Length(0) \in Nat /\ plan \in Plans /\ bar = 0
  BY PlanType, MasterIsAFeed DEF CInv, ControlOK, StartRun
<1>2. UNCHANGED <<plan, bar, cursor, delivered, index, feedAt, strategyAt>>
  BY DEF StartRun, clockVars, strategyVars
<1>3. CursorsOK' /\ ShownIsClosed'
  BY <1>2, SameClock DEF StartRun, clockVars, CInv, CursorsOK
<1>4. StrategiesOK'
  BY SameStrategies DEF StartRun, strategyVars, CInv
<1>5. /\ phase' \in {"stopped", "failed", "bar"}
      /\ phase' = "bar" => Length(0) # 0
  BY DEF StartRun
<1>6. Length(0)' = Length(0)
  BY <1>2 DEF Length
<1>7. ControlOK'
  BY <1>1, <1>2, <1>5, <1>6 DEF CInv, ControlOK, Phases, Running
<1> QED  BY <1>3, <1>4, <1>7 DEF CInv

\* The steps of the loop that move no cursor.
LEMMA QuietStep ==
  ASSUME CInv, phase \in Running, phase' \in Running,
         UNCHANGED <<plan, bar, cursor, delivered, index>>,
         advanced' \in [Feeds -> BOOLEAN], known' \in [Feeds -> Nat],
         feedAt' \in 1..NumFeeds, strategyAt' \in Nat
  PROVE  ControlOK' /\ CursorsOK' /\ ShownIsClosed'
<1>1. CursorsOK' /\ ShownIsClosed'
  BY SameClock DEF CInv
<1>2. Length(0)' = Length(0)
  BY DEF Length
<1> QED  BY <1>1, <1>2 DEF CInv, ControlOK, Phases, Running

LEMMA BeginBarKeeps == CInv /\ BeginBar => CInv'
<1> SUFFICES ASSUME CInv, BeginBar PROVE CInv'
  OBVIOUS
<1> USE DEF BeginBar, CInv
<1>1. Length(0)' = Length(0) /\ Length(0) \in Nat /\ bar < Length(0) /\ bar \in Nat
  BY PlanType, MasterIsAFeed DEF Length, ControlOK, Running
<1>2. ControlOK'
  BY <1>1, CerebroAssumption DEF ControlOK, Phases, Running, strategyVars
<1>3. delivered' \in [Feeds -> Nat] /\ \A k \in Contexts : delivered'[k] = delivered[k]
  BY <1>1, MasterIsAFeed DEF CursorsOK
<1>4. CursorsOK'
  BY <1>3 DEF CursorsOK, Length
<1>5. ShownIsClosed'
  BY <1>3 DEF ShownIsClosed, ClosedBy, ExecClose, BarTime
<1>6. StrategiesOK'
  BY SameStrategies DEF strategyVars
<1> QED  BY <1>2, <1>4, <1>5, <1>6

LEMMA DeliverContextKeeps == CInv /\ DeliverContext => CInv'
<1> SUFFICES ASSUME CInv, DeliverContext PROVE CInv'
  OBVIOUS
<1> USE DEF DeliverContext, CInv
<1>1. /\ feedAt \in Contexts /\ feedAt \in Feeds
  BY CerebroAssumption, MasterIsAFeed DEF ControlOK, Contexts
<1>2. Length(feedAt) \in Nat /\ \A k \in Feeds : Length(k)' = Length(k)
  BY <1>1, PlanType DEF ControlOK, Length
<1>3. ControlOK'
  BY <1>2, MasterIsAFeed DEF ControlOK, strategyVars
<1>4. /\ cursor[feedAt] < Length(feedAt) /\ ClosedBy(feedAt, cursor[feedAt] + 1, bar + 1)
      /\ cursor[feedAt] = delivered[feedAt] /\ delivered[feedAt] \in Nat
  BY <1>1 DEF Deliverable, CursorsOK
<1>5. /\ index' \in [Feeds -> Nat] /\ index'[0] = index[0]
      /\ index'[feedAt] = delivered[feedAt]
      /\ \A k \in Contexts : k # feedAt => index'[k] = index[k]
  <2>1. index \in [Feeds -> Nat]
        /\ index[feedAt] = IF delivered[feedAt] = 0 THEN 0 ELSE delivered[feedAt] - 1
    BY <1>1 DEF CursorsOK
  <2>2. index' = [index EXCEPT ![feedAt] =
                    IF delivered[feedAt] > 0 /\ index[feedAt] + 1 < Length(feedAt)
                    THEN index[feedAt] + 1 ELSE index[feedAt]]
    BY DEF Advance
  <2>3. (IF delivered[feedAt] > 0 /\ index[feedAt] + 1 < Length(feedAt)
         THEN index[feedAt] + 1 ELSE index[feedAt]) = delivered[feedAt]
    BY <2>1, <1>2, <1>4
  <2>4. index' = [index EXCEPT ![feedAt] = delivered[feedAt]]
    BY <2>2, <2>3
  <2> QED  BY <2>1, <2>4, <1>1, <1>4, MasterIsAFeed
<1>6. /\ delivered' \in [Feeds -> Nat] /\ cursor' \in [Feeds -> Nat]
      /\ delivered'[feedAt] = delivered[feedAt] + 1
      /\ cursor'[feedAt] = delivered[feedAt] + 1
      /\ \A k \in Contexts : k # feedAt =>
           delivered'[k] = delivered[k] /\ cursor'[k] = cursor[k]
  BY <1>1, <1>4, MasterIsAFeed DEF CursorsOK
<1>7. CursorsOK'
  <2>1. /\ advanced' \in [Feeds -> BOOLEAN] /\ known' \in [Feeds -> Nat]
        /\ index'[0] = bar'
    BY <1>5 DEF CursorsOK
  <2>2. ASSUME NEW k \in Contexts
        PROVE  /\ cursor'[k] = delivered'[k] /\ delivered'[k] <= Length(k)'
               /\ index'[k] = IF delivered'[k] = 0 THEN 0 ELSE delivered'[k] - 1
    <3>1. CASE k = feedAt
      BY <3>1, <1>1, <1>2, <1>4, <1>5, <1>6
    <3>2. CASE k # feedAt
      BY <3>2, <1>2, <1>5, <1>6, MasterIsAFeed DEF CursorsOK
    <3> QED  BY <3>1, <3>2
  <2> QED  BY <2>1, <2>2, <1>5, <1>6 DEF CursorsOK
<1>8. ShownIsClosed'
  BY <1>4, <1>6 DEF ShownIsClosed, ClosedBy, ExecClose, BarTime
<1>9. StrategiesOK'
  BY SameStrategies DEF strategyVars
<1> QED  BY <1>3, <1>7, <1>8, <1>9

LEMMA NextFeedKeeps == CInv /\ NextFeed => CInv'
<1> SUFFICES ASSUME CInv, NextFeed PROVE CInv'
  OBVIOUS
<1>1. /\ phase \in Running /\ phase' \in Running
      /\ feedAt' \in 1..NumFeeds /\ strategyAt' \in Nat
      /\ advanced' \in [Feeds -> BOOLEAN] /\ known' \in [Feeds -> Nat]
  BY CerebroAssumption DEF NextFeed, CInv, ControlOK, CursorsOK, Running, strategyVars
<1>2. UNCHANGED <<plan, bar, cursor, delivered, index>>
  BY DEF NextFeed
<1>3. StrategiesOK'
  BY SameStrategies DEF NextFeed, strategyVars, CInv
<1> QED  BY <1>1, <1>2, <1>3, QuietStep DEF CInv

LEMMA PublishKeeps == CInv /\ Publish => CInv'
<1> SUFFICES ASSUME CInv, Publish PROVE CInv'
  OBVIOUS
<1>1. /\ phase \in Running /\ phase' \in Running
      /\ feedAt' \in 1..NumFeeds /\ strategyAt' \in Nat
      /\ advanced' \in [Feeds -> BOOLEAN] /\ known' \in [Feeds -> Nat]
  BY DEF Publish, CInv, ControlOK, CursorsOK, Running, strategyVars, clockVars
<1>2. UNCHANGED <<plan, bar, cursor, delivered, index>>
  BY DEF Publish, clockVars
<1>3. StrategiesOK'
  BY SameStrategies DEF Publish, strategyVars, CInv
<1> QED  BY <1>1, <1>2, <1>3, QuietStep DEF CInv

LEMMA ProcessOrdersKeeps == CInv /\ ProcessOrders => CInv'
<1> SUFFICES ASSUME CInv, ProcessOrders PROVE CInv'
  OBVIOUS
<1>1. /\ phase \in Running /\ phase' \in Running
      /\ feedAt' \in 1..NumFeeds /\ strategyAt' \in Nat
      /\ advanced' \in [Feeds -> BOOLEAN] /\ known' \in [Feeds -> Nat]
  BY DEF ProcessOrders, CInv, ControlOK, CursorsOK, Running, clockVars
<1>2. UNCHANGED <<plan, bar, cursor, delivered, index>>
  BY DEF ProcessOrders, clockVars
<1>3. StrategiesOK'
  BY DEF ProcessOrders, CInv, StrategiesOK
<1> QED  BY <1>1, <1>2, <1>3, QuietStep DEF CInv

LEMMA SubmitType ==
  ASSUME StrategiesOK, known \in [Feeds -> Nat], Submit
  PROVE  orders' \subseteq [feed : Feeds, known : Nat] /\ sent' \in 0..MaxOrders
<1>1. MaxOrders \in Nat
  BY CerebroAssumption
<1>2. CASE UNCHANGED orderVars
  BY <1>2 DEF orderVars, StrategiesOK
<1>3. ASSUME NEW k \in Feeds, sent < MaxOrders, sent' = sent + 1,
             orders' = orders \union {[feed |-> k, known |-> known[k]]}
      PROVE  orders' \subseteq [feed : Feeds, known : Nat] /\ sent' \in 0..MaxOrders
  BY <1>1, <1>3 DEF StrategiesOK
<1> QED  BY <1>2, <1>3 DEF Submit

LEMMA CallKeeps ==
  ASSUME CInv, NEW s \in Strategies, CallNext(s) \/ CallNextStart(s) \/ CallPrenext(s)
  PROVE  CInv'
<1>1. Calling(s) /\ Returns(s)
  BY DEF CallNext, CallNextStart, CallPrenext
<1>2. s \in Nat /\ plan \in Plans /\ bar \in Nat /\ phase = "strategies"
  BY <1>1, CerebroAssumption DEF Strategies, CInv, ControlOK, Calling
<1>3. UNCHANGED <<plan, bar, cursor, delivered, index>>
  BY <1>1 DEF Returns, clockVars
<1>4. /\ phase \in Running /\ phase' \in Running
      /\ feedAt' \in 1..NumFeeds /\ strategyAt' \in Nat
      /\ advanced' \in [Feeds -> BOOLEAN] /\ known' \in [Feeds -> Nat]
  BY <1>1, <1>2 DEF Returns, clockVars, CInv, ControlOK, CursorsOK, Running
<1>5. ControlOK' /\ CursorsOK' /\ ShownIsClosed'
  BY <1>3, <1>4, QuietStep DEF Running
<1>6. orders' \subseteq [feed : Feeds, known : Nat] /\ sent' \in 0..MaxOrders
  BY <1>1, SubmitType DEF Returns, CInv, CursorsOK
<1>7. entered' \in [Strategies -> BOOLEAN] /\ called' \in [Strategies -> Methods]
  BY DEF CallNext, CallNextStart, CallPrenext, CInv, StrategiesOK, Methods
<1>8. warmupEnd' \in Int
  <2>1. BarTime(0, bar + 1) \in Int
    <3>1. bar + 1 \in 1..Length(0)
      BY <1>2, PlanType, MasterIsAFeed DEF CInv, ControlOK, Running
    <3> QED  BY <3>1, <1>2, PlanType, MasterIsAFeed
  <2> QED  BY <2>1 DEF CallNext, CallNextStart, CallPrenext, CInv, StrategiesOK
<1>9. updates' \in [Strategies -> [Feeds -> Nat]]
  <2>1. AdvanceIndicators(s)
    BY DEF CallNext, CallNextStart, CallPrenext
  <2>2. \A k \in Feeds : updates[s][k] + (IF advanced[k] THEN 1 ELSE 0) \in Nat
    BY DEF CInv, StrategiesOK
  <2> QED  BY <2>1, <2>2 DEF AdvanceIndicators, CInv, StrategiesOK
<1> QED  BY <1>5, <1>6, <1>7, <1>8, <1>9 DEF CInv, StrategiesOK

LEMMA EndBarKeeps == MasterSorted /\ MonthsGoOn /\ CInv /\ EndBar => CInv'
<1> SUFFICES ASSUME MasterSorted, MonthsGoOn, CInv, EndBar PROVE CInv'
  OBVIOUS
<1> USE DEF CInv
<1>1. /\ UNCHANGED <<plan, known, feedAt, cursor, delivered, advanced>>
      /\ UNCHANGED strategyVars /\ UNCHANGED orderVars
  BY DEF EndBar
<1>2. StrategiesOK'
  BY <1>1, SameStrategies DEF strategyVars
<1>3. plan \in Plans /\ bar \in Nat /\ \A k \in Feeds : Length(k)' = Length(k)
  BY <1>1 DEF ControlOK, Length
<1>4. CASE bar + 1 < Length(0)
  <2>1. bar' = bar + 1 /\ phase' = "bar" /\ index' = [index EXCEPT ![0] = @ + 1]
    BY <1>4 DEF EndBar
  <2>2. ControlOK'
    BY <2>1, <1>1, <1>3, <1>4, MasterIsAFeed DEF ControlOK, Phases, Running, strategyVars
  <2>3. /\ index' \in [Feeds -> Nat] /\ index'[0] = bar'
        /\ \A k \in Contexts : index'[k] = index[k]
    BY <2>1, MasterIsAFeed DEF CursorsOK
  <2>4. CursorsOK'
    BY <2>3, <1>1, <1>3, MasterIsAFeed DEF CursorsOK
  <2>5. ASSUME NEW k \in Contexts, delivered[k] > 0
        PROVE  ClosedBy(k, delivered[k], (bar + 1) + 1)
    <3>1. delivered[k] \in 1..Length(k)
      BY <2>5, <1>3, PlanType, MasterIsAFeed DEF CursorsOK
    <3>2. ClosedBy(k, delivered[k], bar + 1)
      BY <2>5 DEF ShownIsClosed
    <3>3. bar + 1 \in Nat \ {0} /\ (bar + 1) + 1 <= Length(0)
      BY <1>3, <1>4, PlanType, MasterIsAFeed
    <3> QED  BY <3>1, <3>2, <3>3, <1>3, ClosedStaysClosed
  <2>6. ShownIsClosed'
    BY <2>1, <2>5, <1>1 DEF ShownIsClosed, ClosedBy, ExecClose, BarTime
  <2> QED  BY <1>2, <2>2, <2>4, <2>6
<1>5. CASE ~(bar + 1 < Length(0))
  <2>1. phase' = "stopped" /\ UNCHANGED <<bar, index>>
    BY <1>5 DEF EndBar
  <2>2. ControlOK'
    BY <2>1, <1>1, <1>3, MasterIsAFeed DEF ControlOK, Phases, Running, strategyVars
  <2>3. CursorsOK' /\ ShownIsClosed'
    BY <2>1, <1>1, SameClock DEF CursorsOK
  <2> QED  BY <1>2, <2>2, <2>3
<1> QED  BY <1>4, <1>5

LEMMA StutterKeeps == CInv /\ UNCHANGED vars => CInv'
<1> SUFFICES ASSUME CInv, UNCHANGED vars PROVE CInv'
  OBVIOUS
<1>1. CursorsOK' /\ ShownIsClosed'
  BY SameClock DEF vars, clockVars, CInv, CursorsOK
<1>2. StrategiesOK'
  BY SameStrategies DEF vars, strategyVars, CInv
<1>3. ControlOK'
  BY DEF vars, clockVars, strategyVars, CInv, ControlOK, Length
<1> QED  BY <1>1, <1>2, <1>3 DEF CInv

LEMMA StepKeeps == MasterSorted /\ MonthsGoOn /\ CInv /\ [Next]_vars => CInv'
<1> SUFFICES ASSUME MasterSorted, MonthsGoOn, CInv, [Next]_vars PROVE CInv'
  OBVIOUS
<1> QED
  BY StartRunKeeps, BeginBarKeeps, DeliverContextKeeps, NextFeedKeeps, PublishKeeps,
     ProcessOrdersKeeps, CallKeeps, EndBarKeeps, StutterKeeps DEF Next
-----------------------------------------------------------------------------
(* What it gives *)

LEMMA InvGivesTypes == CInv => TypeOK
<1> SUFFICES ASSUME CInv PROVE TypeOK
  OBVIOUS
<1>1. ASSUME NEW k \in Feeds PROVE index[k] = 0 \/ index[k] < Length(k)
  <2>1. Length(k) \in Nat
    BY PlanType DEF CInv, ControlOK
  <2>2. CASE k = 0
    BY <2>2 DEF CInv, CursorsOK, ControlOK, Running
  <2>3. CASE k # 0
    <3>1. k \in Contexts
      BY <2>3, CerebroAssumption DEF Feeds, Contexts
    <3> QED  BY <3>1, <2>1 DEF CInv, CursorsOK
  <2> QED  BY <2>2, <2>3
<1> QED  BY <1>1 DEF CInv, ControlOK, CursorsOK, StrategiesOK, TypeOK

LEMMA InvGivesNoLookahead == CInv => NoLookahead
<1> SUFFICES ASSUME CInv, NEW k \in Contexts, delivered[k] > 0
             PROVE  ClosedBy(k, index[k] + 1, bar + 1)
  BY DEF NoLookahead
<1>1. delivered[k] \in Nat /\ index[k] + 1 = delivered[k]
  BY MasterIsAFeed DEF CInv, CursorsOK
<1> QED  BY <1>1 DEF CInv, ShownIsClosed

\* The cursors stay in their feeds, and of a context feed that has delivered
\* a bar only bars are read and filled on that have ended by the close of the
\* master bar, whatever the timeframes, and whether bars are missing or not.
THEOREM NeverLooksAhead ==
  ASSUME MasterSorted, MonthsGoOn
  PROVE  Spec => [](TypeOK /\ NoLookahead)
<1>1. Init => CInv
  BY InitInv
<1>2. CInv /\ [Next]_vars => CInv'
  BY StepKeeps
<1>3. CInv => TypeOK /\ NoLookahead
  BY InvGivesTypes, InvGivesNoLookahead
<1> QED  BY <1>1, <1>2, <1>3, PTL DEF Spec
-----------------------------------------------------------------------------
(* The order of the calls *)

CallsInv ==
  /\ entered \in [Strategies -> BOOLEAN] /\ called \in [Strategies -> Methods]
  /\ \A s \in Strategies : entered[s] <=> called[s] \in {"nextstart", "next"}

LEMMA EnteredStays ==
  UNCHANGED <<entered, called>> /\ CallsInv => CallsInv'
BY DEF CallsInv

LEMMA CallsInvStep ==
  ASSUME CallsInv, [Next]_vars
  PROVE  CallsInv'
<1>1. CASE StartRun \/ BeginBar \/ DeliverContext \/ NextFeed \/ Publish \/ ProcessOrders
             \/ EndBar \/ UNCHANGED vars
  BY <1>1, EnteredStays DEF StartRun, BeginBar, DeliverContext, NextFeed, Publish,
       ProcessOrders, EndBar, vars, strategyVars
<1>2. ASSUME NEW s \in Strategies, CallNext(s) \/ CallNextStart(s) \/ CallPrenext(s)
      PROVE  CallsInv'
  BY <1>2 DEF CallsInv, CallNext, CallNextStart, CallPrenext, Methods
<1> QED  BY <1>1, <1>2 DEF Next

\* The call a strategy returns from follows the one before.
InOrder(s) ==
  called'[s] \in IF called[s] \in {"none", "prenext"} THEN {"prenext", "nextstart"} ELSE {"next"}

LEMMA CallsStepInOrder ==
  ASSUME CallsInv, [Next]_vars,
         NEW s \in Strategies, strategyAt = s, strategyAt' = s + 1
  PROVE  InOrder(s)
<1>1. s \in Nat \ {0} /\ s + 1 # s
  BY CerebroAssumption DEF Strategies
<1>2. CASE StartRun \/ BeginBar \/ DeliverContext \/ NextFeed \/ Publish \/ EndBar
             \/ UNCHANGED vars
  BY <1>1, <1>2 DEF StartRun, BeginBar, DeliverContext, NextFeed, Publish, EndBar, vars,
       strategyVars
<1>3. CASE ProcessOrders
  BY <1>1, <1>3 DEF ProcessOrders
<1>4. ASSUME NEW r \in Strategies, CallNext(r) \/ CallNextStart(r) \/ CallPrenext(r)
      PROVE  InOrder(s)
  <2>1. r = s /\ called[s] \in Methods
    BY <1>4 DEF CallsInv, CallNext, CallNextStart, CallPrenext, Calling
  <2> QED  BY <1>4, <2>1 DEF CallsInv, CallNext, CallNextStart, CallPrenext, InOrder, Methods
<1> QED  BY <1>2, <1>3, <1>4 DEF Next

\* Whatever the feeds and the warmups, a strategy is called prenext while it
\* warms up, nextstart once, and next from then on.
THEOREM CallsOrdered == Spec => CallsInOrder
<1>1. Init => CallsInv
  BY DEF Init, CallsInv, Methods
<1>2. CallsInv /\ [Next]_vars => CallsInv'
  BY CallsInvStep
<1>3. CallsInv /\ [Next]_vars =>
        [\A s \in Strategies : (strategyAt = s /\ strategyAt' = s + 1) =>
           called'[s] \in IF called[s] \in {"none", "prenext"} THEN {"prenext", "nextstart"}
                                                             ELSE {"next"}]_vars
  BY CallsStepInOrder DEF InOrder
<1> QED  BY <1>1, <1>2, <1>3, PTL DEF Spec, CallsInOrder
-----------------------------------------------------------------------------
(* What each feed has delivered, bar by bar *)

\* Every feed's bars are in order of time.
FeedsSorted ==
  \A p \in Plans : \A k \in Feeds : \A i, j \in 1..Len(p.times[k]) :
    i <= j => p.times[k][i] <= p.times[k][j]

Clocked == {"feeds", "orders", "strategies"}

\* When a bar begins, feed k has delivered what had closed by the bar before.
DeliveredBefore(k) ==
  \A i \in 1..Length(k) : i <= delivered[k] <=> bar > 0 /\ ClosedBy(k, i, bar)

\* While it goes on: what feed k has delivered has closed, nothing that had
\* closed before is missing, and the flag says that something was delivered.
DeliveringNow(k) ==
  /\ \A i \in 1..Length(k) :
       /\ i <= delivered[k] => ClosedBy(k, i, bar + 1)
       /\ bar > 0 /\ ClosedBy(k, i, bar) => i <= delivered[k]
  /\ advanced[k] <=> delivered[k] > 0 /\ (bar > 0 => ~ClosedBy(k, delivered[k], bar))

\* Feed k's turn is over: it has delivered all that has closed.
DeliveredAll(k) == \A i \in 1..Length(k) : ClosedBy(k, i, bar + 1) => i <= delivered[k]

DeliveryOK ==
  /\ phase \in {"loaded", "bar"} => delivered[0] = bar /\ \A k \in Contexts : DeliveredBefore(k)
  /\ phase \in Clocked =>
       /\ delivered[0] = bar + 1 /\ advanced[0]
       /\ \A k \in Contexts : DeliveringNow(k) /\ (k < feedAt => DeliveredAll(k))
  /\ phase \in {"orders", "strategies"} => feedAt = NumFeeds

\* The strategies know what the feeds had delivered at the last Publish.
KnownOK ==
  /\ phase \in {"loaded", "bar", "feeds"} => known[0] = bar
  /\ phase \in {"orders", "strategies"} => known = delivered

\* A strategy that has entered next stays ready, and one that has not was not.
WarmupOK ==
  /\ \A s \in Strategies : entered[s] <=> called[s] \in {"nextstart", "next"}
  /\ \A s \in Strategies : entered[s] => AllReady(s)
  /\ phase = "strategies" =>
       \A s \in Strategies : s < strategyAt /\ ~entered[s] => ~AllReady(s)

\* Master bar b brought something new of feed k.
Fresh(k, b) ==
  \E i \in 1..Length(k) : ClosedBy(k, i, b) /\ (b = 1 \/ ~ClosedBy(k, i, b - 1))

FreshAmong(k, n) == {b \in 1..n : Fresh(k, b)}

\* How many bars strategy s has returned from.
Seen(s) == IF phase = "strategies" /\ s < strategyAt THEN bar + 1 ELSE bar

UpdatesOK ==
  /\ strategyAt # 0
  /\ phase \in Running \union {"loaded"} => \A s \in Strategies :
       /\ updates[s][0] = Seen(s)
       /\ \A k \in Contexts : updates[s][k] = Cardinality(FreshAmong(k, Seen(s)))

\* The feeds with the bars of the master feed, itself among them.
Lockstep(k) == plan.tf[k] = plan.tf[0] /\ plan.times[k] = plan.times[0]

OrdersOK ==
  \A o \in orders : Lockstep(o.feed) =>
    /\ phase \in {"loaded", "bar", "feeds", "orders"} => o.known = bar
    /\ phase = "strategies" => o.known = bar + 1

LEMMA SortedMaster == FeedsSorted => MasterSorted
<1> SUFFICES ASSUME FeedsSorted, NEW p \in Plans, NEW b \in 1..Len(p.times[0]),
                    b + 1 <= Len(p.times[0])
             PROVE  p.times[0][b] <= p.times[0][b + 1]
  BY DEF MasterSorted
<1>1. p.times[0] \in Seq(Int) /\ 0 \in Feeds
  BY CerebroAssumption, MasterIsAFeed
<1>2. b + 1 \in 1..Len(p.times[0]) /\ b <= b + 1
  BY <1>1
<1> QED  BY <1>1, <1>2 DEF FeedsSorted

\* Bars end in the order they begin.
LEMMA PeriodGrows ==
  ASSUME MonthsGoOn, NEW s \in Int, NEW t \in Int, s <= t, NEW tf \in TimeFrames
  PROVE  PeriodEnd(s, tf) <= PeriodEnd(t, tf)
<1>1. CASE IsCalendar(tf)
  BY <1>1, CalendarGrows
<1>2. CASE ~IsCalendar(tf)
  <2> DEFINE d == DurationOf(tf)  m == s \div d  n == t \div d
  <2>1. d \in Nat \ {0} /\ tf.unit \in {"Minutes", "Days"}
    BY <1>2, DurationType DEF IsCalendar, TimeFrames, Units
  <2>2. PeriodEnd(s, tf) = m * d + d /\ PeriodEnd(t, tf) = n * d + d
    BY <2>1 DEF PeriodEnd, PeriodStart
  <2> HIDE DEF d
  <2>3. m \in Int /\ n \in Int /\ m <= n
    BY <2>1, DivGrows
  <2> HIDE DEF m, n
  <2>4. m * d \in Int /\ n * d \in Int /\ m * d <= n * d
    BY <2>1, <2>3
  <2> QED  BY <2>1, <2>2, <2>4
<1> QED  BY <1>1, <1>2

\* What has closed of a context feed is a prefix of it.
LEMMA EarlierCloses ==
  ASSUME FeedsSorted, MonthsGoOn, plan \in Plans, NEW b \in 1..Length(0), NEW k \in Contexts,
         NEW i \in 1..Length(k), NEW j \in 1..Length(k), i <= j, ClosedBy(k, j, b)
  PROVE  ClosedBy(k, i, b)
<1>1. k \in Feeds /\ 0 \in Feeds
  BY MasterIsAFeed
<1>2. BarTime(k, i) \in Int /\ BarTime(k, j) \in Int /\ plan.tf[k] \in TimeFrames
  BY <1>1, PlanType
<1>3. BarTime(k, i) <= BarTime(k, j)
  BY <1>1 DEF FeedsSorted, BarTime, Length
<1>4. PeriodEnd(BarTime(k, i), plan.tf[k]) <= PeriodEnd(BarTime(k, j), plan.tf[k])
  BY <1>2, <1>3, PeriodGrows
<1>5. /\ PeriodEnd(BarTime(k, i), plan.tf[k]) \in Int
      /\ PeriodEnd(BarTime(k, j), plan.tf[k]) \in Int
  BY <1>2, PeriodEndType
<1>6. ExecClose(b) \in Int
  <2>1. BarTime(0, b) \in Int /\ plan.tf[0] \in TimeFrames
    BY <1>1, PlanType
  <2> QED  BY <2>1, PeriodEndType, DurationType DEF ExecClose
<1> QED  BY <1>4, <1>5, <1>6 DEF ClosedBy

LEMMA PlanFixed ==
  ASSUME [Next]_vars
  PROVE  /\ plan' = plan
         /\ \A k : Length(k)' = Length(k)
         /\ \A k, i, b : ClosedBy(k, i, b)' <=> ClosedBy(k, i, b)
         /\ \A k : Lockstep(k)' <=> Lockstep(k)
<1>1. plan' = plan
  BY DEF Next, StartRun, BeginBar, DeliverContext, NextFeed, Publish, ProcessOrders,
         CallNext, CallNextStart, CallPrenext, Returns, EndBar, vars
<1> QED  BY <1>1 DEF Length, ClosedBy, ExecClose, BarTime, Lockstep

\* The counts of the feeds whose turn it is not stay what they are.
LEMMA SameFeed ==
  ASSUME [Next]_vars, NEW k, UNCHANGED <<bar, delivered[k], advanced[k]>>
  PROVE  /\ DeliveredBefore(k)' <=> DeliveredBefore(k)
         /\ DeliveringNow(k)' <=> DeliveringNow(k)
         /\ DeliveredAll(k)' <=> DeliveredAll(k)
BY PlanFixed DEF DeliveredBefore, DeliveringNow, DeliveredAll


LEMMA FeedFacts ==
  ASSUME CInv
  PROVE  /\ bar \in Nat /\ Length(0) \in Nat /\ feedAt \in 1..NumFeeds /\ NumFeeds \in Nat
         /\ phase \in Running => bar + 1 \in 1..Length(0) /\ (bar > 0 => bar \in 1..Length(0))
         /\ phase = "loaded" => bar = 0
         /\ \A k \in Contexts :
              /\ k \in Feeds /\ k # 0 /\ Length(k) \in Nat /\ k \in 1..(NumFeeds - 1)
              /\ delivered[k] \in 0..Length(k) /\ cursor[k] = delivered[k]
<1>1. bar \in Nat /\ Length(0) \in Nat /\ feedAt \in 1..NumFeeds /\ NumFeeds \in Nat
  BY PlanType, MasterIsAFeed, CerebroAssumption DEF CInv, ControlOK
<1>2. phase \in Running => bar + 1 \in 1..Length(0) /\ (bar > 0 => bar \in 1..Length(0))
  BY <1>1 DEF CInv, ControlOK
<1>3. ASSUME NEW k \in Contexts
      PROVE  /\ k \in Feeds /\ k # 0 /\ Length(k) \in Nat /\ k \in 1..(NumFeeds - 1)
             /\ delivered[k] \in 0..Length(k) /\ cursor[k] = delivered[k]
  <2>1. k \in Feeds /\ k # 0 /\ k \in 1..(NumFeeds - 1)
    BY MasterIsAFeed DEF Contexts
  <2>2. Length(k) \in Nat
    BY <2>1, PlanType DEF CInv, ControlOK
  <2> QED  BY <2>1, <2>2 DEF CInv, CursorsOK
<1> QED  BY <1>1, <1>2, <1>3 DEF CInv, ControlOK

LEMMA BeginBarDelivers ==
  ASSUME FeedsSorted, MonthsGoOn, CInv, DeliveryOK, BeginBar
  PROVE  DeliveryOK'
<1>1. /\ phase = "bar" /\ phase' = "feeds" /\ feedAt' = 1 /\ UNCHANGED <<plan, bar>>
      /\ advanced' = [k \in Feeds |-> k = 0]
      /\ delivered' = [delivered EXCEPT ![0] = bar + 1]
  BY DEF BeginBar
<1>2. delivered'[0] = bar' + 1 /\ advanced'[0]
  BY <1>1, MasterIsAFeed DEF CInv, CursorsOK
<1>3. ASSUME NEW k \in Contexts PROVE DeliveringNow(k)' /\ ~(k < feedAt')
  <2>1. delivered'[k] = delivered[k] /\ ~advanced'[k]
    BY <1>1, MasterIsAFeed DEF CInv, CursorsOK
  <2>2. \A i \in 1..Length(k) : i <= delivered[k] <=> bar > 0 /\ ClosedBy(k, i, bar)
    BY <1>1 DEF DeliveryOK, DeliveredBefore
  <2>3. bar > 0 => \A i \in 1..Length(k) : ClosedBy(k, i, bar) => ClosedBy(k, i, bar + 1)
    <3>1. bar > 0 => bar \in Nat \ {0} /\ bar + 1 <= Length(0)
      BY <1>1, FeedFacts DEF Running
    <3> QED  BY <3>1, ClosedStaysClosed, SortedMaster DEF CInv, ControlOK
  <2>4. delivered[k] > 0 => bar > 0 /\ ClosedBy(k, delivered[k], bar)
    BY <2>2, FeedFacts
  <2>5. /\ \A i \in 1..Length(k) : i <= delivered[k] => ClosedBy(k, i, bar + 1)
        /\ \A i \in 1..Length(k) : bar > 0 /\ ClosedBy(k, i, bar) => i <= delivered[k]
    BY <2>2, <2>3
  <2>6. [Next]_vars
    BY DEF Next
  <2>7. DeliveringNow(k)'
    BY <1>1, <2>1, <2>4, <2>5, <2>6, PlanFixed DEF DeliveringNow
  <2> QED  BY <1>1, <2>7, FeedFacts
<1> QED  BY <1>1, <1>2, <1>3 DEF DeliveryOK, Clocked

LEMMA DeliverContextDelivers ==
  ASSUME FeedsSorted, MonthsGoOn, CInv, DeliveryOK, DeliverContext
  PROVE  DeliveryOK'
<1> DEFINE f == feedAt
<1>1. /\ phase = "feeds" /\ UNCHANGED <<plan, phase, bar, feedAt>> /\ f < NumFeeds
      /\ advanced' = [advanced EXCEPT ![f] = TRUE]
      /\ delivered' = [delivered EXCEPT ![f] = @ + 1]
      /\ cursor[f] < Length(f) /\ ClosedBy(f, cursor[f] + 1, bar + 1)
  BY DEF DeliverContext, Deliverable
<1>2. f \in Contexts /\ f # 0 /\ f \in Feeds
  BY <1>1, FeedFacts, MasterIsAFeed DEF Contexts
<1>3. delivered \in [Feeds -> Nat] /\ advanced \in [Feeds -> BOOLEAN]
  BY DEF CInv, CursorsOK
<1>4. [Next]_vars
  BY DEF Next
<1>5. delivered[0] = bar + 1 /\ advanced[0] /\ \A k \in Contexts : DeliveringNow(k)
      /\ (k < f => DeliveredAll(k))
  BY <1>1 DEF DeliveryOK, Clocked
<1>6. delivered'[0] = bar' + 1 /\ advanced'[0]
  BY <1>1, <1>2, <1>3, <1>5, MasterIsAFeed
<1>7. ASSUME NEW k \in Contexts, k # f
      PROVE  DeliveringNow(k)' /\ (k < feedAt' => DeliveredAll(k)')
  <2>1. delivered'[k] = delivered[k] /\ advanced'[k] = advanced[k]
    BY <1>1, <1>3, <1>7, MasterIsAFeed
  <2> QED  BY <1>1, <1>4, <1>5, <2>1, SameFeed
<1>8. DeliveringNow(f)'
  <2> DEFINE d == delivered[f]
  <2>1. d \in Nat /\ d + 1 \in 1..Length(f) /\ ClosedBy(f, d + 1, bar + 1) /\ Length(f) \in Nat
    BY <1>1, <1>2, FeedFacts
  <2>2. delivered'[f] = d + 1 /\ advanced'[f]
    BY <1>1, <1>2, <1>3
  <2>3. \A i \in 1..Length(f) :
          /\ i <= d => ClosedBy(f, i, bar + 1)
          /\ bar > 0 /\ ClosedBy(f, i, bar) => i <= d
    BY <1>2, <1>5 DEF DeliveringNow
  <2> HIDE DEF d, f
  <2>4. ASSUME NEW i \in 1..Length(f)
        PROVE  /\ i <= d + 1 => ClosedBy(f, i, bar + 1)
               /\ bar > 0 /\ ClosedBy(f, i, bar) => i <= d + 1
    <3>1. i <= d \/ i = d + 1 \/ d + 1 < i
      BY <2>1
    <3>2. i <= d => i <= d + 1
      BY <2>1
    <3>3. d + 1 < i => ~(i <= d + 1)
      BY <2>1
    <3> QED  BY <2>1, <2>3, <3>1, <3>2, <3>3
  <2>5. bar > 0 => ~ClosedBy(f, d + 1, bar)
    <3>1. ~(d + 1 <= d)
      BY <2>1
    <3> QED  BY <2>1, <2>3, <3>1
  <2>6. d + 1 > 0
    BY <2>1
  <2>7. /\ \A i \in 1..Length(f) : /\ i <= d + 1 => ClosedBy(f, i, bar + 1)
                                   /\ bar > 0 /\ ClosedBy(f, i, bar) => i <= d + 1
        /\ TRUE <=> d + 1 > 0 /\ (bar > 0 => ~ClosedBy(f, d + 1, bar))
    BY <2>4, <2>5, <2>6
  <2> USE DEF f
  <2> QED  BY <1>1, <1>4, <2>2, <2>7, PlanFixed DEF DeliveringNow
<1>9. ~(f < f)
  BY FeedFacts
<1> QED  BY <1>1, <1>6, <1>7, <1>8, <1>9 DEF DeliveryOK, Clocked

LEMMA NextFeedDelivers ==
  ASSUME FeedsSorted, MonthsGoOn, CInv, DeliveryOK, NextFeed
  PROVE  DeliveryOK'
<1> DEFINE f == feedAt
<1>1. /\ phase = "feeds" /\ UNCHANGED <<plan, phase, bar, advanced, delivered>>
      /\ feedAt' = f + 1 /\ ~Deliverable(f) /\ f < NumFeeds
  BY DEF NextFeed
<1>2. f \in Contexts /\ f \in Nat
  BY <1>1, FeedFacts DEF Contexts
<1>3. [Next]_vars
  BY DEF Next
<1>4. delivered[0] = bar + 1 /\ advanced[0] /\ \A k \in Contexts : DeliveringNow(k)
      /\ (k < f => DeliveredAll(k))
  BY <1>1 DEF DeliveryOK, Clocked
<1>5. DeliveredAll(f)
  <2> SUFFICES ASSUME NEW i \in 1..Length(f), ClosedBy(f, i, bar + 1)
               PROVE  i <= delivered[f]
    BY DEF DeliveredAll
  <2> DEFINE d == delivered[f]
  <2>1. d \in 0..Length(f) /\ Length(f) \in Nat /\ cursor[f] = d
    BY <1>2, FeedFacts
  <2>2. SUFFICES ASSUME ~(i <= d) PROVE FALSE
    OBVIOUS
  <2>3. d < Length(f) /\ d + 1 \in 1..Length(f) /\ d + 1 <= i
    BY <2>1, <2>2
  <2>4. bar + 1 \in 1..Length(0)
    BY <1>1, FeedFacts DEF Running
  <2>5. ClosedBy(f, d + 1, bar + 1)
    BY <1>2, <2>3, <2>4, EarlierCloses DEF CInv, ControlOK
  <2> QED  BY <1>1, <2>1, <2>3, <2>5 DEF Deliverable
<1>6. ASSUME NEW k \in Contexts PROVE DeliveringNow(k)' /\ (k < feedAt' => DeliveredAll(k)')
  <2>1. k < f + 1 => k < f \/ k = f
    BY <1>2, FeedFacts
  <2> QED  BY <1>1, <1>3, <1>4, <1>5, <2>1, SameFeed
<1> QED  BY <1>1, <1>4, <1>6 DEF DeliveryOK, Clocked

LEMMA EndBarDelivers ==
  ASSUME CInv, DeliveryOK, EndBar
  PROVE  DeliveryOK'
<1>1. [Next]_vars
  BY DEF Next
<1>2. phase = "strategies" /\ UNCHANGED <<feedAt, delivered, advanced>>
  BY DEF EndBar
<1>3. CASE bar + 1 < Length(0)
  <2>1. bar' = bar + 1 /\ phase' = "bar"
    BY <1>3 DEF EndBar
  <2>2. ASSUME NEW k \in Contexts PROVE DeliveredBefore(k)'
    <3>1. DeliveringNow(k) /\ DeliveredAll(k)
      <4>1. feedAt = NumFeeds /\ k < NumFeeds
        BY <1>2, FeedFacts DEF DeliveryOK
      <4> QED  BY <1>2, <4>1 DEF DeliveryOK, Clocked
    <3>2. \A i \in 1..Length(k) : i <= delivered[k] <=> bar + 1 > 0 /\ ClosedBy(k, i, bar + 1)
      BY <3>1, FeedFacts DEF DeliveringNow, DeliveredAll
    <3> QED  BY <1>1, <1>2, <2>1, <3>2, PlanFixed DEF DeliveredBefore
  <2>3. delivered'[0] = bar'
    BY <1>2, <2>1 DEF DeliveryOK, Clocked
  <2> QED  BY <2>1, <2>2, <2>3 DEF DeliveryOK, Clocked
<1>4. CASE ~(bar + 1 < Length(0))
  BY <1>4 DEF EndBar, DeliveryOK, Clocked
<1> QED  BY <1>3, <1>4

LEMMA DeliveryKeeps ==
  ASSUME FeedsSorted, MonthsGoOn, CInv, DeliveryOK, [Next]_vars
  PROVE  DeliveryOK'
<1>1. ASSUME UNCHANGED <<bar, delivered, advanced, feedAt>>,
             \/ phase' \in {"stopped", "failed"} \/ phase' = phase
             \/ phase = "loaded" /\ phase' = "bar"
             \/ phase = "feeds" /\ feedAt = NumFeeds /\ phase' = "orders"
             \/ phase = "orders" /\ phase' = "strategies"
      PROVE  DeliveryOK'
  <2>1. \A k \in Contexts :
          /\ DeliveredBefore(k)' <=> DeliveredBefore(k)
          /\ DeliveringNow(k)' <=> DeliveringNow(k)
          /\ DeliveredAll(k)' <=> DeliveredAll(k)
    BY <1>1, SameFeed
  <2> QED  BY <1>1, <2>1 DEF DeliveryOK, Clocked
<1>2. CASE StartRun
  BY <1>1, <1>2 DEF StartRun, clockVars
<1>3. CASE Publish
  BY <1>1, <1>3 DEF Publish, clockVars
<1>4. CASE ProcessOrders
  BY <1>1, <1>4 DEF ProcessOrders, clockVars
<1>5. ASSUME NEW s \in Strategies, CallNext(s) \/ CallNextStart(s) \/ CallPrenext(s)
      PROVE  DeliveryOK'
  BY <1>1, <1>5 DEF CallNext, CallNextStart, CallPrenext, Returns, clockVars
<1>6. CASE UNCHANGED vars
  BY <1>1, <1>6 DEF vars, clockVars
<1> QED
  BY <1>2, <1>3, <1>4, <1>5, <1>6, BeginBarDelivers, DeliverContextDelivers,
     NextFeedDelivers, EndBarDelivers DEF Next


\* When every feed has had its turn, a feed has delivered what has closed.
LEMMA ExactlyClosed ==
  ASSUME CInv, DeliveryOK, phase \in Clocked, feedAt = NumFeeds, NEW k \in Contexts
  PROVE  \A i \in 1..Length(k) : i <= delivered[k] <=> ClosedBy(k, i, bar + 1)
<1>1. k < feedAt
  BY FeedFacts
<1>2. DeliveringNow(k) /\ DeliveredAll(k)
  BY <1>1 DEF DeliveryOK, Clocked
<1> QED  BY <1>2 DEF DeliveringNow, DeliveredAll

LEMMA DeliveryBegins == Init => DeliveryOK
<1> SUFFICES ASSUME Init PROVE DeliveryOK
  OBVIOUS
<1>1. /\ phase = "loaded" /\ bar = 0 /\ delivered = [k \in Feeds |-> 0] /\ plan \in Plans
  BY DEF Init
<1>2. \A k \in Contexts : DeliveredBefore(k)
  BY <1>1, MasterIsAFeed, PlanType DEF DeliveredBefore
<1>3. delivered[0] = 0
  BY <1>1, MasterIsAFeed
<1> QED  BY <1>1, <1>2, <1>3 DEF DeliveryOK, Clocked

LEMMA KnownKeeps ==
  ASSUME CInv, DeliveryOK, KnownOK, [Next]_vars
  PROVE  KnownOK'
<1>1. CASE Publish
  BY <1>1 DEF Publish, KnownOK, clockVars
<1>2. CASE EndBar
  <2>1. known[0] = bar + 1
    BY <1>2 DEF EndBar, KnownOK, DeliveryOK, Clocked
  <2> QED  BY <1>2, <2>1 DEF EndBar, KnownOK
<1>3. ASSUME UNCHANGED <<bar, known, delivered>>,
             \/ phase' \in {"stopped", "failed"} \/ phase' = phase
             \/ phase = "loaded" /\ phase' = "bar"
             \/ phase = "orders" /\ phase' = "strategies"
      PROVE  KnownOK'
  BY <1>3 DEF KnownOK
<1>4. CASE StartRun
  BY <1>3, <1>4 DEF StartRun, clockVars
<1>5. CASE ProcessOrders
  BY <1>3, <1>5 DEF ProcessOrders, clockVars
<1>6. ASSUME NEW s \in Strategies, CallNext(s) \/ CallNextStart(s) \/ CallPrenext(s)
      PROVE  KnownOK'
  BY <1>3, <1>6 DEF CallNext, CallNextStart, CallPrenext, Returns, clockVars
<1>7. CASE UNCHANGED vars
  BY <1>3, <1>7 DEF vars, clockVars
<1>8. CASE BeginBar
  BY <1>8 DEF BeginBar, KnownOK
<1>9. CASE DeliverContext \/ NextFeed
  BY <1>9 DEF DeliverContext, NextFeed, KnownOK
<1> QED  BY <1>1, <1>2, <1>4, <1>5, <1>6, <1>7, <1>8, <1>9 DEF Next

ClocksInv == CInv /\ DeliveryOK /\ KnownOK

LEMMA ClocksHold ==
  ASSUME FeedsSorted, MonthsGoOn
  PROVE  Spec => []ClocksInv
<1>1. Init => ClocksInv
  <2>1. Init => KnownOK
    BY MasterIsAFeed DEF Init, KnownOK
  <2> QED  BY <2>1, InitInv, DeliveryBegins DEF ClocksInv
<1>2. ClocksInv /\ [Next]_vars => ClocksInv'
  BY StepKeeps, SortedMaster, DeliveryKeeps, KnownKeeps DEF ClocksInv
<1> QED  BY <1>1, <1>2, PTL DEF Spec

Ends   == [k \in Feeds |-> [i \in 1..Length(k) |-> PeriodEnd(BarTime(k, i), plan.tf[k])]]
Closes == [b \in 1..Length(0) |-> ExecClose(b)]

\* The times at which bars end, as the abstract clocks see them.
LEMMA ClockTimes ==
  ASSUME CInv
  PROVE  /\ Len(Closes) = Length(0)
         /\ \A b \in 1..Length(0) : Closes[b] = ExecClose(b)
         /\ \A k \in Contexts :
              /\ Len(Ends[k]) = Length(k)
              /\ \A i \in 1..Length(k) : Ends[k][i] = PeriodEnd(BarTime(k, i), plan.tf[k])
<1>1. \A n \in Nat : \A f : f = [i \in 1..n |-> f[i]] => Len(f) = n
  <2> SUFFICES ASSUME NEW n \in Nat, NEW f, f = [i \in 1..n |-> f[i]] PROVE Len(f) = n
    OBVIOUS
  <2> DEFINE S == {f[i] : i \in 1..n}
  <2>1. f \in [1..n -> S]
    OBVIOUS
  <2> HIDE DEF S
  <2>2. f \in Seq(S) /\ Len(f) = n
    BY <2>1
  <2> QED  BY <2>2
<1>2. Length(0) \in Nat /\ \A k \in Contexts : k \in Feeds /\ Length(k) \in Nat
  BY FeedFacts
<1>3. Len(Closes) = Length(0)
  <2>1. Closes = [i \in 1..Length(0) |-> Closes[i]]
    BY DEF Closes
  <2> QED  BY <1>1, <1>2, <2>1
<1>4. ASSUME NEW k \in Contexts
      PROVE  /\ Len(Ends[k]) = Length(k)
             /\ \A i \in 1..Length(k) : Ends[k][i] = PeriodEnd(BarTime(k, i), plan.tf[k])
  <2> DEFINE e == Ends[k]
  <2>1. e = [i \in 1..Length(k) |-> PeriodEnd(BarTime(k, i), plan.tf[k])]
    BY <1>2 DEF Ends
  <2>2. e = [i \in 1..Length(k) |-> e[i]]
    BY <2>1
  <2> HIDE DEF e
  <2>3. Len(e) = Length(k)
    BY <1>1, <1>2, <2>2
  <2> QED  BY <2>1, <2>3 DEF e
<1> QED  BY <1>3, <1>4 DEF Closes

LEMMA PublishTicks ==
  ASSUME ClocksInv, Publish
  PROVE  Clocks!Tick
<1>1. [Next]_vars
  BY DEF Next
<1>2. /\ phase = "feeds" /\ feedAt = NumFeeds /\ known' = delivered /\ plan' = plan
      /\ known[0] = bar /\ delivered[0] = bar + 1
  BY DEF Publish, ClocksInv, KnownOK, DeliveryOK, Clocked
<1>3. bar + 1 \in 1..Length(0) /\ bar \in Nat /\ Length(0) \in Nat
  BY <1>2, FeedFacts DEF ClocksInv, Running
<1>4. Ends' = Ends /\ Closes' = Closes
  BY <1>2 DEF Ends, Closes, Length, BarTime, ExecClose
<1>5. known[0] < Len(Closes) /\ known'[0] = known[0] + 1 /\ DOMAIN known' = Feeds
  BY <1>2, <1>3, ClockTimes DEF ClocksInv, CInv, CursorsOK
<1>6. ASSUME NEW k \in Feeds \ {0}
      PROVE  /\ known'[k] \in 0..Len(Ends[k])
             /\ \A i \in 1..Len(Ends[k]) : i <= known'[k] <=> Ends[k][i] <= Closes[known'[0]]
  <2>1. k \in Contexts
    BY CerebroAssumption DEF Feeds, Contexts
  <2>2. \A i \in 1..Length(k) : i <= delivered[k] <=> ClosedBy(k, i, bar + 1)
    BY <1>2, <2>1, ExactlyClosed DEF ClocksInv, Clocked
  <2>3. /\ Len(Ends[k]) = Length(k) /\ Closes[bar + 1] = ExecClose(bar + 1)
        /\ \A i \in 1..Length(k) : Ends[k][i] = PeriodEnd(BarTime(k, i), plan.tf[k])
    BY <1>3, <2>1, ClockTimes DEF ClocksInv
  <2>4. delivered[k] \in 0..Length(k)
    BY <2>1, FeedFacts DEF ClocksInv
  <2> QED  BY <1>2, <2>2, <2>3, <2>4 DEF ClosedBy
<1> QED  BY <1>4, <1>5, <1>6 DEF Clocks!Tick, Ends, Closes

\* The engine implements the aligned clocks: the strategies are told of whole
\* master bars, and with each of exactly the context bars that have closed.
THEOREM ClocksAreAligned ==
  ASSUME FeedsSorted, MonthsGoOn
  PROVE  Spec => ImplementsAlignedClocks
<1>1. Init => Clocks!ClocksInit
  BY DEF Init, Clocks!ClocksInit
<1>2. ClocksInv /\ [Next]_vars => [Clocks!Tick]_<<Ends, Closes, known>>
  <2> SUFFICES ASSUME ClocksInv, [Next]_vars, ~Publish
               PROVE  UNCHANGED <<Ends, Closes, known>>
    BY PublishTicks
  <2>1. plan' = plan
    BY PlanFixed
  <2>2. known' = known
    BY DEF Next, StartRun, BeginBar, DeliverContext, NextFeed, ProcessOrders, CallNext,
           CallNextStart, CallPrenext, Returns, EndBar, vars
  <2> QED  BY <2>1, <2>2 DEF Ends, Closes, Length, BarTime, ExecClose
<1> QED  BY <1>1, <1>2, ClocksHold, PTL DEF Spec, ImplementsAlignedClocks, Clocks!ClocksSpec,
            Ends, Closes

-----------------------------------------------------------------------------
(* The warmup *)

\* A strategy is ready when every feed has closed the bars it asked for.
LEMMA ReadyIsReady ==
  ASSUME ClocksInv, phase = "strategies", NEW s \in Strategies
  PROVE  AllReady(s) <=> ReadyBy(s, bar + 1)
<1>1. phase \in Clocked /\ feedAt = NumFeeds /\ delivered[0] = bar + 1
  BY DEF ClocksInv, DeliveryOK, Clocked
<1>2. ASSUME NEW k \in Feeds
      PROVE  LET min == plan.min[s][k]
             IN  delivered[k] >= min <=>
                   \/ min = 0
                   \/ k = 0 /\ min <= bar + 1
                   \/ k # 0 /\ min <= Length(k) /\ ClosedBy(k, min, bar + 1)
  <2> DEFINE min == plan.min[s][k]
  <2>1. min \in Nat
    BY PlanType DEF ClocksInv, CInv, ControlOK
  <2>2. CASE k = 0
    BY <1>1, <2>1, <2>2, FeedFacts DEF ClocksInv
  <2>3. CASE k # 0
    <3>1. k \in Contexts
      BY <2>3, CerebroAssumption DEF Feeds, Contexts
    <3>2. \A i \in 1..Length(k) : i <= delivered[k] <=> ClosedBy(k, i, bar + 1)
      BY <1>1, <3>1, ExactlyClosed DEF ClocksInv
    <3>3. delivered[k] \in 0..Length(k) /\ Length(k) \in Nat
      BY <3>1, FeedFacts DEF ClocksInv
    <3> HIDE DEF min
    <3>4. CASE min = 0
      BY <3>3, <3>4 DEF min
    <3>5. CASE min \in 1..Length(k)
      <4>1. delivered[k] >= min <=> ClosedBy(k, min, bar + 1)
        BY <3>2, <3>3, <3>5
      <4> QED  BY <2>3, <3>3, <3>5, <4>1 DEF min
    <3>6. CASE min > Length(k)
      BY <2>1, <2>3, <3>3, <3>6 DEF min
    <3> QED  BY <2>1, <3>3, <3>4, <3>5, <3>6
  <2> QED  BY <2>2, <2>3
<1> QED  BY <1>2 DEF AllReady, ReadyBy

LEMMA StaysReady ==
  ASSUME CInv, DeliveryOK, [Next]_vars, NEW s \in Strategies
  PROVE  AllReady(s) => AllReady(s)'
<1>1. /\ plan' = plan /\ delivered \in [Feeds -> Nat] /\ bar \in Nat
      /\ \A k \in Feeds : plan.min[s][k] \in Nat
  BY PlanFixed, PlanType DEF CInv, CursorsOK, ControlOK
<1>2. \A k \in Feeds : delivered'[k] \in Nat /\ delivered'[k] >= delivered[k]
  <2>1. CASE BeginBar
    <3>1. delivered[0] = bar
      BY <2>1 DEF BeginBar, DeliveryOK
    <3> QED  BY <1>1, <2>1, <3>1 DEF BeginBar
  <2>2. CASE DeliverContext
    BY <1>1, <2>2 DEF DeliverContext
  <2>3. CASE ~BeginBar /\ ~DeliverContext
    <3>1. delivered' = delivered
      BY <2>3 DEF Next, StartRun, NextFeed, Publish, ProcessOrders, CallNext, CallNextStart,
           CallPrenext, Returns, EndBar, vars, clockVars
    <3> QED  BY <1>1, <3>1
  <2> QED  BY <2>1, <2>2, <2>3
<1>3. \A k \in Feeds : delivered[k] >= plan.min[s][k] => delivered'[k] >= plan'.min[s][k]
  BY <1>1, <1>2
<1> QED  BY <1>3 DEF AllReady

LEMMA WarmupKeeps ==
  ASSUME CInv, DeliveryOK, WarmupOK, [Next]_vars
  PROVE  WarmupOK'
<1>1. \A s \in Strategies : AllReady(s) => AllReady(s)'
  BY StaysReady
<1>2. ASSUME UNCHANGED <<entered, called>>, phase' # "strategies" PROVE WarmupOK'
  BY <1>1, <1>2 DEF WarmupOK
<1>3. CASE StartRun \/ BeginBar \/ DeliverContext \/ NextFeed \/ Publish \/ EndBar
  BY <1>2, <1>3 DEF StartRun, BeginBar, DeliverContext, NextFeed, Publish, EndBar, strategyVars
<1>4. CASE ProcessOrders
  <2>1. \A s \in Strategies : ~(s < 1)
    BY CerebroAssumption DEF Strategies
  <2> QED  BY <1>1, <1>4, <2>1 DEF ProcessOrders, WarmupOK
<1>5. CASE UNCHANGED vars
  BY <1>5 DEF vars, clockVars, strategyVars, WarmupOK, AllReady
<1>6. ASSUME NEW s \in Strategies, CallNext(s) \/ CallNextStart(s) \/ CallPrenext(s)
      PROVE  WarmupOK'
  <2>1. /\ Calling(s) /\ UNCHANGED <<plan, delivered>> /\ strategyAt' = s + 1
        /\ phase = "strategies" /\ strategyAt = s
    BY <1>6 DEF CallNext, CallNextStart, CallPrenext, Returns, clockVars, Calling
  <2>2. \A r \in Strategies : AllReady(r)' <=> AllReady(r)
    BY <2>1 DEF AllReady
  <2>3. \A r \in Strategies : r < strategyAt' => r < strategyAt \/ r = s
    BY <2>1, CerebroAssumption DEF Strategies
  <2>4. /\ entered \in [Strategies -> BOOLEAN] /\ called \in [Strategies -> Methods]
    BY DEF CInv, StrategiesOK
  <2>5. /\ \A r \in Strategies : r # s => entered'[r] = entered[r] /\ called'[r] = called[r]
        /\ entered'[s] <=> called'[s] \in {"nextstart", "next"}
        /\ ~entered[s] /\ entered'[s] => AllReady(s)
        /\ ~entered'[s] => ~AllReady(s)
        /\ entered[s] => entered'[s]
    BY <1>6, <2>4 DEF CallNext, CallNextStart, CallPrenext
  <2>6. \A r \in Strategies : /\ entered'[r] <=> called'[r] \in {"nextstart", "next"}
                              /\ entered'[r] => AllReady(r)'
    BY <2>2, <2>5 DEF WarmupOK
  <2>7. \A r \in Strategies : r < strategyAt' /\ ~entered'[r] => ~AllReady(r)'
    BY <2>1, <2>2, <2>3, <2>5 DEF WarmupOK
  <2> QED  BY <2>6, <2>7 DEF WarmupOK
<1> QED  BY <1>3, <1>4, <1>5, <1>6 DEF Next

LEMMA WarmupBegins == Init => WarmupOK
BY DEF Init, WarmupOK

\* A strategy gets next, or nextstart, from the master bar on by which every
\* feed has closed the bars it asked for, on that very bar, and prenext before.
THEOREM WarmupIsRespected ==
  ASSUME FeedsSorted, MonthsGoOn
  PROVE  Spec => []WarmupRespected
<1>1. Init => WarmupOK
  BY WarmupBegins
<1>2. ClocksInv /\ WarmupOK /\ [Next]_vars => WarmupOK'
  BY WarmupKeeps DEF ClocksInv
<1>3. ClocksInv /\ WarmupOK => WarmupRespected
  <2> SUFFICES ASSUME ClocksInv, WarmupOK, phase = "strategies",
                      NEW s \in Strategies, s < strategyAt
               PROVE  called[s] \in {"nextstart", "next"} <=> ReadyBy(s, bar + 1)
    BY DEF WarmupRespected
  <2>1. called[s] \in {"nextstart", "next"} <=> AllReady(s)
    BY DEF WarmupOK
  <2> QED  BY <2>1, ReadyIsReady
<1> QED  BY <1>1, <1>2, <1>3, ClocksHold, PTL DEF Spec

-----------------------------------------------------------------------------
(* The bar an order fills on *)

\* Every bar of the master feed ends after the close of the bar before it.
MasterApart ==
  \A p \in Plans : \A b \in 1..Len(p.times[0]) : b + 1 <= Len(p.times[0]) =>
    LET t == p.times[0][b]  end == PeriodEnd(p.times[0][b + 1], p.tf[0])
    IN  end > IF IsCalendar(p.tf[0]) THEN PeriodEnd(t, p.tf[0]) ELSE t + DurationOf(p.tf[0])

LEMMA EndsInTime ==
  ASSUME NEW t \in Int, NEW tf \in TimeFrames, ~IsCalendar(tf)
  PROVE  PeriodEnd(t, tf) <= t + DurationOf(tf)
<1> DEFINE d == DurationOf(tf)
<1>1. d \in Nat \ {0} /\ tf.unit \in {"Minutes", "Days"}
  BY DurationType DEF IsCalendar, TimeFrames, Units
<1>2. PeriodEnd(t, tf) = (t \div d) * d + d
  BY <1>1 DEF PeriodEnd, PeriodStart
<1> HIDE DEF d
<1>3. (t \div d) * d \in Int /\ (t \div d) * d <= t
  BY <1>1
<1> QED  BY <1>1, <1>2, <1>3 DEF d

\* A feed with the bars of the master feed delivers each with its own.
LEMMA LockstepCount ==
  ASSUME MasterApart, MonthsGoOn, ClocksInv, phase \in {"orders", "strategies"},
         NEW k \in Feeds, Lockstep(k)
  PROVE  delivered[k] = bar + 1 /\ index[k] = bar
<1>1. /\ phase \in Clocked /\ feedAt = NumFeeds /\ delivered[0] = bar + 1 /\ index[0] = bar
  BY DEF ClocksInv, DeliveryOK, Clocked, CInv, CursorsOK
<1>2. CASE k = 0
  BY <1>1, <1>2
<1>3. CASE k # 0
  <2> DEFINE n == delivered[k]
  <2>1. k \in Contexts /\ NumFeeds # 1
    BY <1>3, CerebroAssumption DEF Feeds, Contexts
  <2>2. /\ n \in 0..Length(0) /\ bar \in Nat /\ Length(0) \in Nat /\ bar + 1 \in 1..Length(0)
        /\ Length(k) = Length(0)
    BY <1>1, <2>1, FeedFacts DEF ClocksInv, Running, Lockstep, Length
  <2>3. \A i \in 1..Length(0) : i <= n <=> ClosedBy(k, i, bar + 1)
    BY <1>1, <2>1, <2>2, ExactlyClosed DEF ClocksInv
  <2>4. /\ plan \in Plans /\ plan.tf[0] \in TimeFrames
        /\ \A i \in 1..Length(0) : BarTime(0, i) \in Int /\ BarTime(k, i) = BarTime(0, i)
    BY PlanType, MasterIsAFeed DEF ClocksInv, CInv, ControlOK, BarTime, Lockstep
  <2>5. ExecClose(bar + 1) = IF IsCalendar(plan.tf[0])
                             THEN PeriodEnd(BarTime(0, bar + 1), plan.tf[0])
                             ELSE BarTime(0, bar + 1) + DurationOf(plan.tf[0])
    BY <2>1 DEF ExecClose
  <2>6. ClosedBy(k, bar + 1, bar + 1)
    <3>1. PeriodEnd(BarTime(0, bar + 1), plan.tf[0]) \in Int
      BY <2>2, <2>4, PeriodEndType
    <3> QED  BY <2>2, <2>4, <2>5, <3>1, EndsInTime DEF ClosedBy, Lockstep
  <2>7. bar + 2 <= Length(0) => ~ClosedBy(k, bar + 2, bar + 1)
    <3> SUFFICES ASSUME bar + 2 <= Length(0) PROVE ~ClosedBy(k, bar + 2, bar + 1)
      OBVIOUS
    <3>1. bar + 2 \in 1..Length(0) /\ (bar + 1) + 1 = bar + 2
      BY <2>2
    <3>2. PeriodEnd(BarTime(0, bar + 2), plan.tf[0]) > ExecClose(bar + 1)
      BY <2>2, <2>4, <2>5, <3>1 DEF MasterApart, BarTime, Length
    <3>3. PeriodEnd(BarTime(0, bar + 2), plan.tf[0]) \in Int
      BY <2>4, <3>1, PeriodEndType
    <3>4. ExecClose(bar + 1) \in Int
      BY <2>2, <2>4, <2>5, PeriodEndType, DurationType
    <3> QED  BY <2>4, <3>1, <3>2, <3>3, <3>4 DEF ClosedBy, Lockstep
  <2> HIDE DEF n
  <2>8. n = bar + 1
    <3>1. bar + 1 <= n
      BY <2>2, <2>3, <2>6
    <3>2. ~(bar + 2 <= n)
      BY <2>2, <2>3, <2>7
    <3> QED  BY <2>2, <3>1, <3>2
  <2>9. index[k] = IF delivered[k] = 0 THEN 0 ELSE delivered[k] - 1
    BY <2>1 DEF ClocksInv, CInv, CursorsOK
  <2> QED  BY <2>2, <2>8, <2>9 DEF n
<1> QED  BY <1>2, <1>3

LEMMA OrdersKeep ==
  ASSUME MasterApart, MonthsGoOn, ClocksInv, OrdersOK, [Next]_vars
  PROVE  OrdersOK'
<1>1. \A k : Lockstep(k)' <=> Lockstep(k)
  BY PlanFixed
<1>2. ASSUME UNCHANGED <<bar, orders>>,
             \/ phase' \in {"stopped", "failed"} \/ phase' = phase
             \/ phase \in {"loaded", "bar", "feeds"} /\ phase' \in {"bar", "feeds", "orders"}
      PROVE  OrdersOK'
  BY <1>1, <1>2 DEF OrdersOK
<1>3. CASE StartRun
  BY <1>2, <1>3 DEF StartRun, orderVars
<1>4. CASE BeginBar
  BY <1>2, <1>4 DEF BeginBar, orderVars
<1>5. CASE DeliverContext \/ NextFeed
  BY <1>2, <1>5 DEF DeliverContext, NextFeed, orderVars
<1>6. CASE Publish
  BY <1>2, <1>6 DEF Publish, orderVars
<1>7. CASE UNCHANGED vars
  BY <1>2, <1>7 DEF vars, orderVars
<1>8. CASE ProcessOrders
  <2>1. Length(0) # 0
    BY <1>8, FeedFacts DEF ProcessOrders, ClocksInv, Running
  <2>2. \A o \in orders' : Length(o.feed) = 0
    BY <1>8 DEF ProcessOrders
  <2>3. \A o \in orders' : ~Lockstep(o.feed)
    BY <2>1, <2>2 DEF Lockstep, Length
  <2> QED  BY <1>1, <2>3 DEF OrdersOK
<1>9. CASE EndBar
  BY <1>1, <1>9 DEF EndBar, OrdersOK, orderVars
<1>10. ASSUME NEW s \in Strategies, CallNext(s) \/ CallNextStart(s) \/ CallPrenext(s)
       PROVE  OrdersOK'
  <2>1. phase = "strategies" /\ UNCHANGED <<phase, bar>> /\ Submit
    BY <1>10 DEF CallNext, CallNextStart, CallPrenext, Returns, Calling
  <2>2. CASE orders' = orders
    BY <1>2, <2>1, <2>2
  <2>3. ASSUME NEW k \in Feeds, orders' = orders \union {[feed |-> k, known |-> known[k]]}
        PROVE  OrdersOK'
    <3>1. Lockstep(k) => known[k] = bar + 1
      BY <2>1, LockstepCount DEF ClocksInv, KnownOK
    <3>2. ASSUME NEW o \in orders', Lockstep(o.feed)' PROVE o.known = bar + 1
      <4>1. CASE o \in orders
        BY <1>1, <2>1, <3>2, <4>1 DEF OrdersOK
      <4>2. CASE o = [feed |-> k, known |-> known[k]]
        BY <1>1, <3>1, <3>2, <4>2
      <4> QED  BY <2>3, <4>1, <4>2
    <3> QED  BY <2>1, <3>2 DEF OrdersOK
  <2> QED  BY <2>1, <2>2, <2>3 DEF Submit, orderVars
<1> QED  BY <1>3, <1>4, <1>5, <1>6, <1>7, <1>8, <1>9, <1>10 DEF Next

\* On the master feed, or on one with the same bars, an order fills on the bar
\* after the last one its strategy had been told of: never on that one, and
\* no bar is skipped.
THEOREM LockstepFillsNext ==
  ASSUME FeedsSorted, MasterApart, MonthsGoOn
  PROVE  Spec => []LockstepFillsOnNextBar
<1>1. Init => OrdersOK
  BY DEF Init, OrdersOK
<1>2. ClocksInv /\ OrdersOK /\ [Next]_vars => OrdersOK'
  BY OrdersKeep
<1>3. ClocksInv /\ OrdersOK => LockstepFillsOnNextBar
  <2> SUFFICES ASSUME ClocksInv, OrdersOK, phase = "orders", NEW o \in orders,
                      Lockstep(o.feed)
               PROVE  index[o.feed] + 1 = o.known + 1
    BY DEF LockstepFillsOnNextBar, Lockstep
  <2>1. o.feed \in Feeds
    BY DEF ClocksInv, CInv, StrategiesOK
  <2>2. index[o.feed] = bar /\ o.known = bar
    BY <2>1, LockstepCount DEF OrdersOK
  <2> QED  BY <2>2
<1> QED  BY <1>1, <1>2, <1>3, ClocksHold, PTL DEF Spec

-----------------------------------------------------------------------------
(* The generated indicators *)

LEMMA FreshCount ==
  ASSUME NEW k, NEW n \in Nat
  PROVE  /\ Cardinality(FreshAmong(k, n)) \in Nat
         /\ Cardinality(FreshAmong(k, n + 1)) =
              Cardinality(FreshAmong(k, n)) + IF Fresh(k, n + 1) THEN 1 ELSE 0
<1> DEFINE S == FreshAmong(k, n)  T == FreshAmong(k, n + 1)
<1>1. IsFiniteSet(S) /\ Cardinality(S) \in Nat /\ n + 1 \notin S
  <2>1. IsFiniteSet(1..n)
    BY FS_Interval
  <2>2. S \in SUBSET (1..n)
    BY DEF FreshAmong
  <2>3. n + 1 \notin 1..n
    OBVIOUS
  <2> HIDE DEF S
  <2> QED  BY <2>1, <2>2, <2>3, FS_Subset, FS_CardinalityType
<1>2. T = IF Fresh(k, n + 1) THEN S \union {n + 1} ELSE S
  <2>1. \A b : b \in 1..(n + 1) <=> b \in 1..n \/ b = n + 1
    OBVIOUS
  <2>2. \A b : b \in T <=> b \in S \/ (b = n + 1 /\ Fresh(k, n + 1))
    BY <2>1 DEF FreshAmong
  <2> HIDE DEF S, T
  <2> QED  BY <2>2
<1> HIDE DEF S, T
<1>3. Cardinality(S \union {n + 1}) = Cardinality(S) + 1
  BY <1>1, FS_AddElement
<1>4. Cardinality(T) = Cardinality(S) + IF Fresh(k, n + 1) THEN 1 ELSE 0
  BY <1>1, <1>2, <1>3
<1> QED  BY <1>1, <1>4 DEF S, T

\* feed_advanced tells a strategy of the feeds that have something new.
LEMMA FlagIsFresh ==
  ASSUME FeedsSorted, MonthsGoOn, ClocksInv, phase = "strategies", NEW k \in Contexts
  PROVE  advanced[k] <=> Fresh(k, bar + 1)
<1> DEFINE d == delivered[k]
<1>1. phase \in Clocked /\ feedAt = NumFeeds
  BY DEF ClocksInv, DeliveryOK, Clocked
<1>2. \A i \in 1..Length(k) : i <= d <=> ClosedBy(k, i, bar + 1)
  BY <1>1, ExactlyClosed DEF ClocksInv
<1>3. advanced[k] <=> d > 0 /\ (bar > 0 => ~ClosedBy(k, d, bar))
  BY <1>1 DEF ClocksInv, DeliveryOK, DeliveringNow
<1>4. d \in 0..Length(k) /\ bar \in Nat /\ (bar > 0 => bar \in 1..Length(0)) /\ Length(k) \in Nat
  BY FeedFacts DEF ClocksInv, Running
<1>5. (bar + 1 = 1 <=> ~(bar > 0)) /\ (bar + 1) - 1 = bar
  BY <1>4
<1> HIDE DEF d
<1>6. Fresh(k, bar + 1) <=>
        \E i \in 1..Length(k) : ClosedBy(k, i, bar + 1) /\ (bar > 0 => ~ClosedBy(k, i, bar))
  BY <1>5 DEF Fresh
<1>7. ASSUME advanced[k] PROVE Fresh(k, bar + 1)
  <2>1. d \in 1..Length(k) /\ d <= d
    BY <1>3, <1>4, <1>7
  <2> QED  BY <1>2, <1>3, <1>6, <1>7, <2>1
<1>8. ASSUME NEW i \in 1..Length(k), ClosedBy(k, i, bar + 1), bar > 0 => ~ClosedBy(k, i, bar)
      PROVE  advanced[k]
  <2>1. i <= d /\ d \in 1..Length(k) /\ d > 0
    BY <1>2, <1>4, <1>8
  <2>2. bar > 0 => ~ClosedBy(k, d, bar)
    BY <1>4, <1>8, <2>1, EarlierCloses DEF ClocksInv, CInv, ControlOK
  <2> QED  BY <1>3, <2>1, <2>2
<1> QED  BY <1>6, <1>7, <1>8

LEMMA SameUpdates ==
  ASSUME UpdatesOK, [Next]_vars, UNCHANGED updates, strategyAt' # 0,
         phase \in Running \union {"loaded"},
         \A s \in Strategies : Seen(s)' = Seen(s)
  PROVE  UpdatesOK'
<1>1. \A k, b : Fresh(k, b)' <=> Fresh(k, b)
  BY PlanFixed DEF Fresh
<1>2. \A s \in Strategies, k \in Contexts : FreshAmong(k, Seen(s))' = FreshAmong(k, Seen(s))
  BY <1>1 DEF FreshAmong
<1> QED  BY <1>2 DEF UpdatesOK

LEMMA CallUpdates ==
  ASSUME FeedsSorted, MonthsGoOn, ClocksInv, UpdatesOK,
         NEW s \in Strategies, CallNext(s) \/ CallNextStart(s) \/ CallPrenext(s)
  PROVE  UpdatesOK'
<1>1. /\ phase = "strategies" /\ strategyAt = s /\ strategyAt' = s + 1
      /\ UNCHANGED <<phase, bar>> /\ AdvanceIndicators(s) /\ s \in Nat /\ bar \in Nat
  BY CerebroAssumption DEF CallNext, CallNextStart, CallPrenext, Returns, Calling, Strategies,
     ClocksInv, CInv, ControlOK
<1>2. [Next]_vars
  BY DEF Next
<1>3. \A k, b : Fresh(k, b)' <=> Fresh(k, b)
  BY <1>2, PlanFixed DEF Fresh
<1>4. \A n : \A k : FreshAmong(k, n)' = FreshAmong(k, n)
  BY <1>3 DEF FreshAmong
<1>5. Seen(s) = bar /\ Seen(s)' = bar + 1
  BY <1>1 DEF Seen
<1>6. \A r \in Strategies : r # s => Seen(r)' = Seen(r)
  <2>1. \A r \in Strategies : r # s => (r < s + 1 <=> r < s)
    BY <1>1, CerebroAssumption DEF Strategies
  <2> QED  BY <1>1, <2>1 DEF Seen
<1>7. /\ updates \in [Strategies -> [Feeds -> Nat]]
      /\ updates' = [updates EXCEPT ![s] =
                       [k \in Feeds |-> updates[s][k] + IF advanced[k] THEN 1 ELSE 0]]
  BY <1>1 DEF AdvanceIndicators, ClocksInv, CInv, StrategiesOK
<1>8. /\ \A k \in Feeds : updates'[s][k] = updates[s][k] + IF advanced[k] THEN 1 ELSE 0
      /\ \A r \in Strategies : r # s => updates'[r] = updates[r]
  BY <1>7
<1>9. updates'[s][0] = bar + 1
  <2>1. advanced[0] /\ updates[s][0] = bar
    BY <1>1, <1>5 DEF ClocksInv, DeliveryOK, Clocked, UpdatesOK, Running
  <2> QED  BY <1>8, <2>1, MasterIsAFeed
<1>10. ASSUME NEW k \in Contexts
       PROVE  updates'[s][k] = Cardinality(FreshAmong(k, bar + 1))
  <2>1. updates[s][k] = Cardinality(FreshAmong(k, bar)) /\ k \in Feeds
    BY <1>1, <1>5, MasterIsAFeed DEF UpdatesOK, Running
  <2>2. advanced[k] <=> Fresh(k, bar + 1)
    BY <1>1, FlagIsFresh
  <2> QED  BY <1>1, <1>8, <2>1, <2>2, FreshCount
<1>11. ASSUME NEW r \in Strategies
       PROVE  /\ updates'[r][0] = Seen(r)'
              /\ \A k \in Contexts : updates'[r][k] = Cardinality(FreshAmong(k, Seen(r)))'
  <2>1. CASE r = s
    <3>1. \A k \in Contexts : FreshAmong(k, Seen(s))' = FreshAmong(k, bar + 1)
      BY <1>3, <1>5 DEF FreshAmong
    <3> QED  BY <1>5, <1>9, <1>10, <2>1, <3>1
  <2>2. CASE r # s
    <3>1. \A k \in Contexts : FreshAmong(k, Seen(r))' = FreshAmong(k, Seen(r))
      BY <1>3, <1>6, <2>2 DEF FreshAmong
    <3> QED  BY <1>1, <1>6, <1>8, <2>2, <3>1 DEF UpdatesOK, Running
  <2> QED  BY <2>1, <2>2
<1>12. strategyAt' # 0
  BY <1>1
<1> QED  BY <1>11, <1>12 DEF UpdatesOK

LEMMA UpdatesKeep ==
  ASSUME FeedsSorted, MonthsGoOn, ClocksInv, UpdatesOK, [Next]_vars
  PROVE  UpdatesOK'
<1>1. CASE StartRun \/ BeginBar \/ DeliverContext \/ NextFeed \/ Publish
  <2>1. /\ UNCHANGED <<bar, updates, strategyAt>>
        /\ phase \in Running \union {"loaded"} /\ phase # "strategies"
        /\ phase' # "strategies"
    BY <1>1 DEF StartRun, BeginBar, DeliverContext, NextFeed, Publish, strategyVars, Running
  <2> QED  BY <2>1, SameUpdates DEF Seen, UpdatesOK
<1>2. CASE ProcessOrders
  <2>1. \A s \in Strategies : ~(s < 1)
    BY CerebroAssumption DEF Strategies
  <2>2. \A s \in Strategies : Seen(s)' = Seen(s)
    BY <1>2, <2>1 DEF ProcessOrders, Seen
  <2> QED  BY <1>2, <2>2, SameUpdates DEF ProcessOrders, Running
<1>3. CASE EndBar
  <2>1. phase = "strategies" /\ strategyAt \notin Strategies /\ UNCHANGED <<updates, strategyAt>>
    BY <1>3 DEF EndBar, strategyVars
  <2>2. \A s \in Strategies : s < strategyAt
    BY <2>1, CerebroAssumption DEF Strategies, ClocksInv, CInv, ControlOK, UpdatesOK
  <2>3. CASE phase' = "bar" /\ bar' = bar + 1
    <3>1. \A s \in Strategies : Seen(s)' = Seen(s)
      BY <2>1, <2>2, <2>3 DEF Seen
    <3> QED  BY <2>1, <3>1, SameUpdates DEF UpdatesOK, Running
  <2>4. CASE phase' = "stopped"
    BY <2>1, <2>4 DEF UpdatesOK, Running
  <2> QED  BY <1>3, <2>3, <2>4 DEF EndBar
<1>4. CASE UNCHANGED vars
  <2>1. CASE phase \in Running \union {"loaded"}
    BY <1>4, <2>1, SameUpdates DEF vars, strategyVars, Seen, UpdatesOK
  <2>2. CASE phase \notin Running \union {"loaded"}
    BY <1>4, <2>2 DEF vars, strategyVars, UpdatesOK
  <2> QED  BY <2>1, <2>2
<1>5. ASSUME NEW s \in Strategies, CallNext(s) \/ CallNextStart(s) \/ CallPrenext(s)
      PROVE  UpdatesOK'
  BY <1>5, CallUpdates
<1> QED  BY <1>1, <1>2, <1>3, <1>4, <1>5 DEF Next

LEMMA UpdatesBegin == Init => UpdatesOK
<1> SUFFICES ASSUME Init PROVE UpdatesOK
  OBVIOUS
<1>1. /\ bar = 0 /\ phase = "loaded" /\ strategyAt = 1
      /\ updates = [s \in Strategies |-> [k \in Feeds |-> 0]]
  BY DEF Init
<1>2. \A s \in Strategies : Seen(s) = 0 /\ updates[s][0] = 0
  BY <1>1, MasterIsAFeed DEF Seen
<1>3. \A k \in Contexts : Cardinality(FreshAmong(k, 0)) = 0
  BY FS_EmptySet DEF FreshAmong
<1> QED  BY <1>1, <1>2, <1>3, MasterIsAFeed DEF UpdatesOK

\* When a strategy decides, its indicators have seen every master bar once,
\* and a context feed's once for each master bar that closed something of it.
THEOREM IndicatorsKeepPace ==
  ASSUME FeedsSorted, MonthsGoOn
  PROVE  Spec => []IndicatorsKeepUp
<1>1. Init => UpdatesOK
  BY UpdatesBegin
<1>2. ClocksInv /\ UpdatesOK /\ [Next]_vars => UpdatesOK'
  BY UpdatesKeep
<1>3. UpdatesOK => IndicatorsKeepUp
  <2> SUFFICES ASSUME UpdatesOK, phase = "strategies", NEW s \in Strategies, s < strategyAt
               PROVE  /\ updates[s][0] = bar + 1
                      /\ \A k \in Contexts : updates[s][k] = Cardinality(FreshBars(k))
    BY DEF IndicatorsKeepUp
  <2>1. Seen(s) = bar + 1
    BY DEF Seen
  <2>2. \A k : FreshBars(k) = FreshAmong(k, bar + 1)
    BY DEF FreshBars, FreshAmong, Fresh
  <2> QED  BY <2>1, <2>2 DEF UpdatesOK, Running
<1> QED  BY <1>1, <1>2, <1>3, ClocksHold, PTL DEF Spec
-----------------------------------------------------------------------------
(* The signals of the evaluator *)

\* A set of natural numbers with 0 that is closed under successor has all.
LEMMA Induction ==
  ASSUME NEW T \in SUBSET Nat, 0 \in T, \A n \in T : n + 1 \in T
  PROVE  T = Nat
<1> DEFINE R == OpToRel(<, Nat)
           Bad == Nat \ T
<1>1. IsWellFoundedOn(R, Nat)
  BY NatLessThanWellFounded
<1>2. \A m, n \in Nat : m < n => <<m, n>> \in R
  BY DEF OpToRel
<1> HIDE DEF R
<1> SUFFICES ASSUME Bad # {} PROVE FALSE
  OBVIOUS
<1>3. PICK n \in Bad : \A m \in Bad : ~(<<m, n>> \in R)
  <2> Bad \in SUBSET Nat
    OBVIOUS
  <2> HIDE DEF Bad
  <2> QED  BY <1>1, WFMin
<1>4. n \in Nat /\ n # 0 /\ n \notin T
  OBVIOUS
<1>5. n - 1 \in Nat /\ n - 1 < n /\ (n - 1) + 1 = n
  BY <1>4
<1>6. n - 1 \notin Bad
  BY <1>2, <1>3, <1>4, <1>5
<1> QED  BY <1>4, <1>5, <1>6

Signals == [updates : Nat, index : Nat]

\* What the strategy says on bar i, and how many bars a slice has by then.
Advanced(hook, i) == IF hook = "plain" THEN i ELSE 0
Heard(hook, i, min) == IF i >= min THEN Signal(Advanced(hook, i), i - 1) ELSE Neutral
Taken(i, from, to) == IF i <= from THEN 0 ELSE IF i <= to THEN i - from ELSE to - from

\* The loop has turned i times, and the function that evaluate_slice is.
Turned(hook, i, n, min, from, to) ==
  [updated |-> Advanced(hook, i),
   at      |-> IF i = 0 \/ i < n THEN i ELSE i - 1,
   out     |-> [k \in 1 .. Taken(i, from, to) |-> Heard(hook, from + k, min)]]

IsRun(hook, f, n, min, from, to) ==
  f = [i \in 0 .. n |->
         IF i = 0 THEN [updated |-> 0, at |-> 0, out |-> <<>>]
         ELSE EvaluateBar(hook, f[i - 1], i, n, min, from, to)]

LEMMA SliceDef ==
  \A hook, n, min, from, to :
    EvaluateSlice(hook, n, min, from, to) = (CHOOSE f : IsRun(hook, f, n, min, from, to))[n].out
BY DEF EvaluateSlice, IsRun

LEMMA RunAt ==
  ASSUME NEW hook, NEW n, NEW min, NEW from, NEW to,
         NEW f, IsRun(hook, f, n, min, from, to), NEW i \in 0 .. n
  PROVE  f[i] = IF i = 0 THEN [updated |-> 0, at |-> 0, out |-> <<>>]
                ELSE EvaluateBar(hook, f[i - 1], i, n, min, from, to)
<1> DEFINE g == [j \in 0 .. n |->
                   IF j = 0 THEN [updated |-> 0, at |-> 0, out |-> <<>>]
                   ELSE EvaluateBar(hook, f[j - 1], j, n, min, from, to)]
<1>1. g[i] = IF i = 0 THEN [updated |-> 0, at |-> 0, out |-> <<>>]
             ELSE EvaluateBar(hook, f[i - 1], i, n, min, from, to)
  OBVIOUS
<1>2. f = g
  BY DEF IsRun
<1> HIDE DEF g
<1> QED  BY <1>1, <1>2

\* The slice gets one bar more.
LEMMA HeardMore ==
  ASSUME NEW hook, NEW min \in Nat, NEW from \in Nat, NEW m \in Nat
  PROVE  [k \in 1 .. m + 1 |-> Heard(hook, from + k, min)]
           = Append([k \in 1 .. m |-> Heard(hook, from + k, min)], Heard(hook, from + m + 1, min))
<1> DEFINE a == [k \in 1 .. m |-> Heard(hook, from + k, min)]
           b == [k \in 1 .. m + 1 |-> Heard(hook, from + k, min)]
           e == Heard(hook, from + m + 1, min)
<1>1. \A i \in Nat \ {0} : Heard(hook, i, min) \in Signals
  BY DEF Heard, Signal, Neutral, Signals, Advanced
<1>2. /\ \A k \in 1 .. m : from + k \in Nat \ {0}
      /\ \A k \in 1 .. m + 1 : k \in 1 .. m \/ k = m + 1
      /\ from + (m + 1) = from + m + 1 /\ from + m + 1 \in Nat \ {0}
  OBVIOUS
<1>3. a \in [1 .. m -> Signals] /\ e \in Signals
  BY <1>1, <1>2
<1>4. /\ a \in Seq(Signals) /\ Len(a) = m
  <2> HIDE DEF a
  <2> QED  BY <1>3
<1>5. b[m + 1] = e /\ \A k \in 1 .. m : b[k] = a[k]
  BY <1>2
<1>6. DOMAIN b = 1 .. m + 1 /\ b = [k \in 1 .. m + 1 |-> b[k]]
  OBVIOUS
<1> HIDE DEF a, b, e
<1> DEFINE c == Append(a, e)
<1>7. /\ c \in Seq(Signals) /\ Len(c) = m + 1 /\ c[m + 1] = e
      /\ \A k \in 1 .. m : c[k] = a[k]
  BY <1>3, <1>4, AppendProperties, LenProperties
<1> HIDE DEF c
<1>8. \A k \in 1 .. m + 1 : b[k] = c[k] /\ b[k] \in Signals
  <2>1. \A k \in 1 .. m + 1 : c[k] \in Signals
    BY <1>7, ElementOfSeq
  <2>2. ASSUME NEW k \in 1 .. m + 1 PROVE b[k] = c[k]
    <3>1. CASE k \in 1 .. m
      BY <1>5, <1>7, <3>1
    <3>2. CASE k = m + 1
      BY <1>5, <1>7, <3>2
    <3> QED  BY <1>2, <3>1, <3>2
  <2> QED  BY <2>1, <2>2
<1>9. b \in [1 .. m + 1 -> Signals]
  BY <1>6, <1>8
<1>10. b \in Seq(Signals) /\ Len(b) = m + 1
  BY <1>9
<1>11. b = c
  BY <1>7, <1>8, <1>10, SeqEqual
<1> QED  BY <1>11 DEF a, b, c, e

LEMMA TurnOnce ==
  ASSUME NEW hook, NEW n \in Nat, NEW min \in Nat, NEW from \in Nat, NEW to \in Nat, from <= to,
         NEW i \in 1 .. n
  PROVE  Turned(hook, i, n, min, from, to)
           = EvaluateBar(hook, Turned(hook, i - 1, n, min, from, to), i, n, min, from, to)
<1> DEFINE run == Turned(hook, i - 1, n, min, from, to)
           t == Taken(i - 1, from, to)
<1>1. /\ i \in Nat /\ i > 0 /\ i <= n /\ (i - 1) + 1 = i /\ i - 1 < n
  OBVIOUS
<1>2. /\ run.updated = Advanced(hook, i - 1) /\ run.at = i - 1
      /\ run.out = [k \in 1 .. t |-> Heard(hook, from + k, min)]
  BY <1>1 DEF Turned
<1> HIDE DEF run
<1>3. (IF i >= min THEN Signal(UpdateIndicators(hook, run.updated), run.at) ELSE Neutral) = Heard(hook, i, min)
  BY <1>1, <1>2 DEF Heard, UpdateIndicators, Advanced
<1>4. (IF from < i /\ i <= to THEN Append(run.out, Heard(hook, i, min)) ELSE run.out)
        = [k \in 1 .. Taken(i, from, to) |-> Heard(hook, from + k, min)]
  <2>1. CASE from < i /\ i <= to
    <3>1. t \in Nat /\ Taken(i, from, to) = t + 1 /\ from + t + 1 = i
      BY <1>1, <2>1 DEF Taken
    <3> HIDE DEF t
    <3>2. Append([k \in 1 .. t |-> Heard(hook, from + k, min)], Heard(hook, i, min))
            = [k \in 1 .. t + 1 |-> Heard(hook, from + k, min)]
      BY <3>1, HeardMore
    <3> QED  BY <1>2, <2>1, <3>1, <3>2
  <2>2. CASE ~(from < i /\ i <= to)
    <3>1. Taken(i, from, to) = t
      BY <1>1, <2>2 DEF Taken
    <3> QED  BY <1>2, <2>2, <3>1
  <2> QED  BY <2>1, <2>2
<1>5. (IF i < n THEN run.at + 1 ELSE run.at) = (IF i = 0 \/ i < n THEN i ELSE i - 1)
  BY <1>1, <1>2
<1>6. UpdateIndicators(hook, run.updated) = Advanced(hook, i)
  BY <1>1, <1>2 DEF UpdateIndicators, Advanced
<1> QED  BY <1>3, <1>4, <1>5, <1>6 DEF Turned, EvaluateBar, run

\* evaluate_slice says what the strategy says on each bar of the slice.
LEMMA SliceIsHeard ==
  ASSUME NEW hook, NEW n \in Nat, NEW min \in Nat,
         NEW from \in Nat, NEW to \in Nat, from <= to, to <= n
  PROVE  \A k \in 1 .. to - from :
           EvaluateSlice(hook, n, min, from, to)[k] = Heard(hook, from + k, min)
<1> DEFINE g == [i \in 0 .. n |-> Turned(hook, i, n, min, from, to)]
           Base == [updated |-> 0, at |-> 0, out |-> <<>>]
<1>1. Turned(hook, 0, n, min, from, to) = Base
  BY DEF Turned, Taken, Advanced
<1>2. ASSUME NEW i \in 0 .. n
      PROVE  g[i] = IF i = 0 THEN Base ELSE EvaluateBar(hook, g[i - 1], i, n, min, from, to)
  <2>1. CASE i = 0
    BY <1>1, <2>1
  <2>2. CASE i # 0
    <3>1. i \in 1 .. n /\ i - 1 \in 0 .. n
      BY <2>2
    <3>2. g[i] = Turned(hook, i, n, min, from, to) /\ g[i - 1] = Turned(hook, i - 1, n, min, from, to)
      BY <3>1
    <3> HIDE DEF g
    <3> QED  BY <2>2, <3>1, <3>2, TurnOnce
  <2> QED  BY <2>1, <2>2
<1>3. IsRun(hook, g, n, min, from, to)
  <2>1. g = [i \in 0 .. n |-> g[i]]
    OBVIOUS
  <2> HIDE DEF g
  <2> QED  BY <1>2, <2>1 DEF IsRun
<1>4. ASSUME NEW f, IsRun(hook, f, n, min, from, to) PROVE f[n] = g[n]
  <2> DEFINE T == {k \in Nat : k <= n => f[k] = g[k]}
  <2>1. 0 \in T
    <3>1. 0 \in 0 .. n
      OBVIOUS
    <3>2. f[0] = Base
      BY <1>4, <3>1, RunAt
    <3>3. g[0] = Base
      BY <1>2, <3>1
    <3> QED  BY <3>2, <3>3
  <2>2. ASSUME NEW k \in T PROVE k + 1 \in T
    <3> SUFFICES ASSUME k + 1 <= n PROVE f[k + 1] = g[k + 1]
      OBVIOUS
    <3>1. k + 1 \in 0 .. n /\ k + 1 # 0 /\ (k + 1) - 1 = k
      OBVIOUS
    <3>2. f[k] = g[k]
      BY <3>1
    <3> HIDE DEF g
    <3>3. f[k + 1] = EvaluateBar(hook, f[k], k + 1, n, min, from, to)
      BY <1>4, <3>1, RunAt
    <3>4. g[k + 1] = EvaluateBar(hook, g[k], k + 1, n, min, from, to)
      BY <1>2, <3>1
    <3> QED  BY <3>2, <3>3, <3>4
  <2> HIDE DEF T
  <2>3. T \in SUBSET Nat
    BY DEF T
  <2>4. T = Nat
    BY <2>1, <2>2, <2>3, Induction
  <2> HIDE DEF g
  <2> QED  BY <2>4 DEF T
<1>5. g[n] = Turned(hook, n, n, min, from, to)
  OBVIOUS
<1> HIDE DEF g
<1>6. EvaluateSlice(hook, n, min, from, to) = g[n].out
  <2> DEFINE f == CHOOSE f : IsRun(hook, f, n, min, from, to)
  <2>1. IsRun(hook, f, n, min, from, to)
    BY <1>3
  <2>2. EvaluateSlice(hook, n, min, from, to) = f[n].out
    BY SliceDef
  <2> HIDE DEF f
  <2> QED  BY <1>4, <2>1, <2>2
<1>7. Taken(n, from, to) = to - from
  BY DEF Taken
<1> QED  BY <1>5, <1>6, <1>7 DEF Turned

\* Who has been passed in this bar has been called.
CalledOK == phase = "strategies" => \A s \in Strategies : s < strategyAt => called[s] # "none"

LEMMA CalledKeeps ==
  ASSUME CInv, CalledOK, [Next]_vars
  PROVE  CalledOK'
<1>1. CASE StartRun \/ BeginBar \/ DeliverContext \/ NextFeed \/ Publish \/ EndBar
  BY <1>1 DEF StartRun, BeginBar, DeliverContext, NextFeed, Publish, EndBar, CalledOK
<1>2. CASE ProcessOrders
  <2>1. \A s \in Strategies : ~(s < 1)
    BY CerebroAssumption DEF Strategies
  <2> QED  BY <1>2, <2>1 DEF ProcessOrders, CalledOK
<1>3. CASE UNCHANGED vars
  BY <1>3 DEF vars, strategyVars, CalledOK
<1>4. ASSUME NEW s \in Strategies, CallNext(s) \/ CallNextStart(s) \/ CallPrenext(s)
      PROVE  CalledOK'
  <2>1. called \in [Strategies -> Methods]
    BY DEF CInv, StrategiesOK
  <2>2. /\ phase = "strategies" /\ strategyAt = s /\ strategyAt' = s + 1
        /\ called'[s] # "none" /\ \A r \in Strategies : r # s => called'[r] = called[r]
    BY <1>4, <2>1 DEF CallNext, CallNextStart, CallPrenext, Returns, Calling
  <2>3. \A r \in Strategies : r < s + 1 => r < s \/ r = s
    BY CerebroAssumption DEF Strategies
  <2> QED  BY <2>2, <2>3 DEF CalledOK
<1> QED  BY <1>1, <1>2, <1>3, <1>4 DEF Next

\* Of a strategy on the master feed alone, evaluate_slice gives for the bar
\* the engine is at the signal the strategy has just come to, and a neutral
\* one while it warms up, whatever slice is taken; its indicators are as often
\* advanced if it does that in the overload the evaluator calls.
THEOREM EvaluatorIsCerebro ==
  ASSUME FeedsSorted, MonthsGoOn
  PROVE  Spec => []EvaluatorAgrees
<1>1. Init => WarmupOK /\ UpdatesOK /\ CalledOK
  BY WarmupBegins, UpdatesBegin DEF Init, CalledOK
<1>2. ClocksInv /\ WarmupOK /\ UpdatesOK /\ CalledOK /\ [Next]_vars
        => WarmupOK' /\ UpdatesOK' /\ CalledOK'
  BY WarmupKeeps, UpdatesKeep, CalledKeeps DEF ClocksInv
<1>3. ClocksInv /\ WarmupOK /\ UpdatesOK /\ CalledOK => EvaluatorAgrees
  <2> SUFFICES ASSUME ClocksInv, WarmupOK, UpdatesOK, CalledOK, phase = "strategies",
                      NEW s \in Strategies, s < strategyAt, MasterAlone(s),
                      NEW hook \in Hooks, NEW from \in 0 .. bar, NEW to \in bar + 1 .. Length(0)
               PROVE  LET signal == EvaluateSlice(hook, Length(0), plan.min[s][0], from, to)
                                      [bar + 1 - from]
                      IN  IF called[s] = "prenext" THEN signal = Neutral
                          ELSE /\ signal.index = index[0]
                               /\ hook = "plain" => signal.updates = updates[s][0]
    BY DEF EvaluatorAgrees
  <2> DEFINE n == Length(0)
             min == plan.min[s][0]
             signal == EvaluateSlice(hook, n, min, from, to)[bar + 1 - from]
  <2>1. bar \in Nat /\ bar < n /\ delivered[0] = bar + 1 /\ index[0] = bar
    BY DEF ClocksInv, CInv, ControlOK, CursorsOK, DeliveryOK, Running, Clocked
  <2>2. min \in Nat /\ n \in Nat /\ delivered \in [Feeds -> Nat]
    <3>1. plan \in Plans /\ 0 \in Feeds /\ delivered \in [Feeds -> Nat]
      BY MasterIsAFeed DEF ClocksInv, CInv, ControlOK, CursorsOK
    <3>2. plan.min[s][0] \in Nat
      BY <3>1, CerebroAssumption
    <3>3. Length(0) \in Nat
      BY <3>1, FeedFacts DEF ClocksInv
    <3> QED  BY <3>1, <3>2, <3>3
  <2>3. updates[s][0] = bar + 1
    BY DEF UpdatesOK, Running, Seen
  <2>4. AllReady(s) <=> bar + 1 >= min
    <3>1. \A k \in Feeds : k = 0 \/ k \in Contexts
      BY CerebroAssumption DEF Feeds, Contexts
    <3>2. \A k \in Contexts : k \in Feeds /\ delivered[k] >= plan.min[s][k]
      BY <2>2, MasterIsAFeed DEF MasterAlone
    <3> QED  BY <2>1, <3>1, <3>2, MasterIsAFeed DEF AllReady
  <2>5. called[s] = "prenext" <=> ~(bar + 1 >= min)
    <3>1. called[s] \in Methods /\ called[s] # "none"
      BY DEF ClocksInv, CInv, StrategiesOK, CalledOK
    <3>2. called[s] \in {"nextstart", "next"} <=> AllReady(s)
      BY DEF WarmupOK
    <3> QED  BY <2>4, <3>1, <3>2 DEF Methods
  <2> HIDE DEF n, min, signal
  <2>6. /\ from \in Nat /\ to \in Nat /\ from <= to /\ to <= n
        /\ bar + 1 - from \in 1 .. to - from /\ from + (bar + 1 - from) = bar + 1
    BY <2>1, <2>2 DEF n
  <2>7. signal = Heard(hook, bar + 1, min)
    <3>1. \A k \in 1 .. to - from :
            EvaluateSlice(hook, n, min, from, to)[k] = Heard(hook, from + k, min)
      BY <2>2, <2>6, SliceIsHeard
    <3> QED  BY <2>6, <3>1 DEF signal
  <2>8. (bar + 1) - 1 = bar
    BY <2>1
  <2>9. IF called[s] = "prenext" THEN signal = Neutral
        ELSE signal.index = bar /\ signal.updates = Advanced(hook, bar + 1)
    BY <2>5, <2>7, <2>8 DEF Heard, Signal
  <2> QED  BY <2>1, <2>3, <2>9 DEF Advanced, signal, n, min
<1> QED  BY <1>1, <1>2, <1>3, ClocksHold, PTL DEF Spec
=============================================================================
