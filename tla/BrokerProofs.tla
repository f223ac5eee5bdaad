---------------------------- MODULE BrokerProofs ----------------------------
(***************************************************************************)
(* The broker for every set of feeds, requests, brackets, hooks and        *)
(* slippage settings, as long as no order has size 0.                      *)
(*                                                                         *)
(* Part 1, whatever the callbacks do: every reachable state is well typed, *)
(* its trades and positions agree, fills are in time and limits are        *)
(* respected.  A step of process_orders replaces one pending order by a    *)
(* changed copy of itself, may copy it to all_orders_ and to               *)
(* still_pending, and moves on.  The lemmas on single orders show that     *)
(* each kind of change keeps an order good; LoopStep puts such a step      *)
(* together; then there is one lemma per action.                           *)
(*                                                                         *)
(* Part 2, where the copies of an order are, and what follows from it.     *)
(* Whatever the callbacks do (BInv): a fill is never taken back, the legs  *)
(* of a bracket fill after their main order and a trailing stop follows    *)
(* the bar.  Without calls from inside notify_order (AInv): the copies     *)
(* agree, a market order is decided on its first bar, an OCO group closes  *)
(* behind a fill, a failed main order leaves no leg behind, the broker     *)
(* implements the order book, and every position is the sum of the         *)
(* completed orders.  A step of the broker is of one of a few kinds        *)
(* (Touch, Withdraw, Decide, KeepAs, Quieten, Pushes): one set of lemmas   *)
(* shows which kind each action is, another what each kind keeps.          *)
(***************************************************************************)
EXTENDS Broker, FillProofs, FiniteSetTheorems

NoEmptyOrders ==
  /\ \A r \in Requests : r.size # 0
  /\ \A size \in HookResults : \A leg \in {"main", "limit", "stop"} : size[leg] # 0

\* Only the legs of a bracket have a parent, and they come after it.
Linked(o) == o.parent # 0 => o.type \in {"Limit", "Stop"} /\ o.parent < o.id

\* An order as all three vectors may hold it.
Good == {o \in OrderRecords : /\ o.size # 0 /\ InTime(o) /\ WithinLimit(o) /\ Linked(o)
                              /\ o.status # "Completed" => o.execBar = None}

\* p is a later copy of o: what the strategy asked for never changes.
Copy(o, p) ==
  /\ p.id = o.id /\ p.born = o.born /\ p.feed = o.feed /\ p.valid = o.valid
  /\ p.type = o.type /\ p.side = o.side /\ p.size = o.size /\ p.price = o.price
  /\ p.stop = o.stop /\ p.trail = o.trail /\ p.oco = o.oco
  /\ p.parent = o.parent /\ p.children = o.children

Failing == OrderStatuses \ {"Completed"}
-----------------------------------------------------------------------------
(* One order *)

LEMMA MoveKeepsGood ==
  ASSUME NEW o \in Good, NEW s \in Failing
  PROVE  Move(o, s) \in Good /\ Copy(o, Move(o, s))
<1>1. CASE ~Alive(o)
  BY <1>1 DEF Move, Copy
<1>2. CASE Alive(o)
  <2> DEFINE p == [o EXCEPT !.status = s]
  <2>1. p \in OrderRecords /\ p.status = s /\ p.size = o.size
    BY DEF Good, OrderRecords, Failing
  <2>2. InTime(p) /\ WithinLimit(p)
    BY <2>1 DEF InTime, WithinLimit, Failing
  <2>3. Copy(o, p) /\ p.execBar = o.execBar
    BY DEF Good, OrderRecords, Copy
  <2>4. Move(o, s) = p
    BY <1>2 DEF Move
  <2>5. o.execBar = None /\ Linked(o)
    BY <1>2 DEF Good, Alive, AliveStatuses
  <2>6. Linked(p)
    BY <2>3, <2>5 DEF Linked, Copy
  <2> HIDE DEF p
  <2> QED  BY <2>1, <2>2, <2>3, <2>4, <2>5, <2>6 DEF Good
<1> QED  BY <1>1, <1>2

LEMMA TransmitKeepsGood ==
  ASSUME NEW o \in Good
  PROVE  LET p == [o EXCEPT !.transmit = TRUE] IN p \in Good /\ Copy(o, p)
<1> DEFINE p == [o EXCEPT !.transmit = TRUE]
<1>1. p \in OrderRecords /\ p.size = o.size /\ p.status = o.status /\ p.type = o.type
      /\ p.side = o.side /\ p.price = o.price /\ p.execPrice = o.execPrice
      /\ p.execBar = o.execBar /\ p.born = o.born /\ p.valid = o.valid
  BY DEF Good, OrderRecords
<1>2. Copy(o, p)
  BY DEF Good, OrderRecords, Copy
<1> HIDE DEF p
<1>3. InTime(p) /\ WithinLimit(p) /\ Linked(p)
  BY <1>1, <1>2 DEF Good, InTime, WithinLimit, Linked, Copy
<1> QED  BY <1>1, <1>2, <1>3 DEF Good, p

LEMMA ReleaseKeepsGood ==
  ASSUME NEW o \in Good
  PROVE  Released(o) \in Good /\ Copy(o, Released(o))
BY TransmitKeepsGood DEF Released, Copy

LEMMA SlipType == IsSlip(slip)
BY BrokerAssumption DEF IsSlip

LEMMA BarType == \A b \in Bars : IsBar(b)
BY BrokerAssumption

LEMMA GoodTriable == \A o \in Good : ~LacksStop(o) => IsTriable(o)
<1> SUFFICES ASSUME NEW o \in Good, ~LacksStop(o) PROVE IsTriable(o)
  OBVIOUS
<1>1. /\ o.type \in OrderTypes /\ o.side \in OrderSides /\ o.price \in Int
      /\ o.trailStop \in Int /\ o.stop \in Int \union {None}
  BY DEF Good, OrderRecords
<1> QED  BY <1>1 DEF IsTriable, LacksStop

LEMMA TrailKeepsGood ==
  ASSUME NEW o \in Good, NEW b \in Bars
  PROVE  UpdateTrailStop(o, b) \in Good /\ Copy(o, UpdateTrailStop(o, b))
<1> DEFINE target == TrailTarget(o, b)
           p      == [o EXCEPT !.trailStop = target]
<1>1. o.trail.perc \in Int /\ o.trail.amount \in Int
  BY DEF Good, OrderRecords
<1>2. target \in Int
  BY <1>1, BarType, TrailTargetType
<1> HIDE DEF target
<1>3. p \in OrderRecords /\ p.size = o.size /\ p.status = o.status /\ p.type = o.type
      /\ p.side = o.side /\ p.price = o.price /\ p.execPrice = o.execPrice
      /\ p.execBar = o.execBar /\ p.born = o.born /\ p.valid = o.valid
  BY <1>2 DEF Good, OrderRecords
<1>4. Copy(o, p)
  BY DEF Good, OrderRecords, Copy
<1>6. UpdateTrailStop(o, b) = p \/ UpdateTrailStop(o, b) = o
  BY DEF UpdateTrailStop, target
<1> HIDE DEF p
<1>5. InTime(p) /\ WithinLimit(p) /\ Linked(p)
  BY <1>3, <1>4 DEF Good, InTime, WithinLimit, Linked, Copy
<1>7. Copy(o, o)
  BY DEF Copy
<1> QED  BY <1>3, <1>4, <1>5, <1>6, <1>7 DEF Good

\* The record a fill leaves, when the order is tried in time on bar b.
LEMMA FillKeepsGood ==
  ASSUME NEW o \in Good, NEW b \in Bars, NEW k \in Nat,
         ~LacksStop(o), FillPrice(slip, o, b) # None,
         o.born < k, ~(o.valid # None /\ k > o.valid)
  PROVE  LET p == [Execute(o, FillPrice(slip, o, b), o.size) EXCEPT !.execBar = k]
         IN  Alive(o) => p \in Good /\ Copy(o, p)
<1> DEFINE q == FillPrice(slip, o, b)
           p == [Execute(o, q, o.size) EXCEPT !.execBar = k]
<1> SUFFICES ASSUME Alive(o) PROVE p \in Good /\ Copy(o, p)
  OBVIOUS
<1>1. IsTriable(o) /\ IsBar(b)
  BY GoodTriable, BarType
<1>2. q \in Int
  BY <1>1, SlipType, FillPriceType
<1>3. (o.type \in LimitTypes /\ ~slip.limit)
        => IF o.side = "Buy" THEN q <= o.price ELSE q >= o.price
  BY <1>1, LimitIsALimit
<1> HIDE DEF q
<1>4. p = [o EXCEPT !.status = "Completed", !.execPrice = q, !.execSize = o.size,
                    !.execBar = k]
  BY DEF Execute, Good, OrderRecords
<1> HIDE DEF p
<1>5. p \in OrderRecords /\ p.status = "Completed" /\ p.execPrice = q /\ p.execBar = k
  BY <1>2, <1>4 DEF Good, OrderRecords, OrderStatuses
<1>6. Copy(o, p)
  BY <1>4 DEF Good, OrderRecords, Copy
<1>7. InTime(p)
  <2>1. o.born \in Nat
    BY DEF Good, OrderRecords
  <2> QED  BY <1>5, <1>6, <2>1 DEF InTime, Copy
<1>8. WithinLimit(p) /\ Linked(p) /\ p.size # 0
  BY <1>3, <1>5, <1>6 DEF WithinLimit, LimitTypes, Linked, Copy, Good
<1> QED  BY <1>5, <1>6, <1>7, <1>8 DEF Good

LEMMA NewOrderIsGood ==
  ASSUME NEW r \in RequestRecords, r.size # 0, NEW id \in Nat, NEW parent \in Nat,
         NEW children \in SUBSET Nat, NEW transmit \in BOOLEAN, bar \in Nat,
         parent # 0 => r.type \in {"Limit", "Stop"} /\ parent < id
  PROVE  LET o == NewOrder(id, r, parent, children, transmit)
         IN  o \in Good /\ o.id = id /\ o.born = bar
<1> DEFINE o == NewOrder(id, r, parent, children, transmit)
<1>1. o \in OrderRecords
  BY DEF NewOrder, RequestRecords, OrderRecords, OrderStatuses, AliveStatuses
<1>2. /\ o.status = "Created" /\ o.size = r.size /\ o.id = id /\ o.born = bar
      /\ o.parent = parent /\ o.type = r.type /\ o.execBar = None
  BY DEF NewOrder
<1> HIDE DEF o
<1>3. InTime(o) /\ WithinLimit(o) /\ Linked(o)
  BY <1>2 DEF InTime, WithinLimit, Linked
<1> QED  BY <1>1, <1>2, <1>3 DEF Good, o
-----------------------------------------------------------------------------
(* The inductive invariant *)

OrdersOK ==
  /\ orders \in Seq(Good)
  /\ \A id \in DOMAIN orders : orders[id].id = id

\* What pending and still have in common.
ListOK(list) ==
  /\ list \in Seq(Good)
  /\ \A i \in DOMAIN list : list[i].id \in DOMAIN orders /\ list[i].born <= bar

References == {"submitted", "fill", "filled", "children"}
Resting    == {"strategy", "undefined"}

ControlOK ==
  /\ bar \in Nat /\ bars \in [Feeds -> Bars \union {None}]
  /\ nextOco \in Nat /\ filledOco \subseteq Nat /\ notified \in BOOLEAN
  /\ phase \in Phases /\ cursor \in Nat \ {0} /\ last \in 0..Len(pending)
  /\ phase \in References => cursor \in 1..last

\* The orders the loop visits were submitted before this bar.
VisitsOld == phase \notin Resting => \A i \in 1..last : pending[i].born < bar

\* An order that is about to be tried has a bar to be tried on and is valid.
Tried(o) == o.feed \in Feeds /\ HasData(o.feed) /\ ~PastDue(o)
TriedOK  == phase \in {"submitted", "fill"} => Tried(pending[cursor])

IInv ==
  /\ OrdersOK /\ ListOK(pending) /\ ListOK(still)
  /\ ControlOK /\ VisitsOld /\ TriedOK
  /\ LedgerInv

\* The lists after a step of process_orders or of a callback.
ListsStep ==
  /\ OrdersOK' /\ DOMAIN orders \subseteq DOMAIN orders'
  /\ ListOK(pending)' /\ ListOK(still)'
  /\ Len(pending) <= Len(pending')
  /\ \A i \in DOMAIN pending : Copy(pending[i], pending'[i])

ControlStep ==
  /\ UNCHANGED <<bar, bars, last>> /\ nextOco' \in Nat
  /\ filledOco' \subseteq Nat /\ notified' \in BOOLEAN
  /\ phase' \in Phases /\ cursor' \in Nat \ {0}
  /\ phase \in Resting => phase' \in Resting
  /\ phase' \in References => cursor' \in 1..last
  /\ phase' \in {"submitted", "fill"} => cursor' = cursor /\ Tried(pending[cursor])

LEMMA SeqIndices == \A S : \A s \in Seq(S) : DOMAIN s = 1..Len(s) /\ Len(s) \in Nat
OBVIOUS

\* Any step of that shape keeps the invariant.
LEMMA LoopStep ==
  ASSUME IInv, ListsStep, ControlStep, LedgerInv'
  PROVE  IInv'
<1>1. pending \in Seq(Good) /\ pending' \in Seq(Good)
  BY DEF IInv, ListsStep, ListOK
<1>2. bar' = bar /\ bars' = bars /\ last' = last /\ nextOco' \in Nat
  BY DEF ControlStep
<1>3. DOMAIN pending = 1..Len(pending) /\ DOMAIN pending' = 1..Len(pending')
      /\ Len(pending) \in Nat /\ Len(pending') \in Nat
  BY <1>1, SeqIndices
<1>4. last \in 0..Len(pending) /\ last \in 0..Len(pending')
  BY <1>3 DEF IInv, ControlOK, ListsStep
<1>5. ControlOK'
  BY <1>2, <1>4 DEF IInv, ControlOK, ControlStep
<1>6. \A i \in 1..last : Copy(pending[i], pending'[i])
  BY <1>3, <1>4 DEF ListsStep
<1>7. VisitsOld'
  BY <1>2, <1>6 DEF IInv, VisitsOld, ControlStep, Copy
<1>8. TriedOK'
  <2> SUFFICES ASSUME phase' \in {"submitted", "fill"} PROVE Tried(pending[cursor])'
    BY DEF TriedOK
  <2>1. cursor' = cursor /\ cursor \in 1..last /\ Tried(pending[cursor])
    BY DEF ControlStep, References
  <2>2. Copy(pending[cursor], pending'[cursor])
    BY <1>6, <2>1
  <2> QED  BY <1>2, <2>1, <2>2 DEF Tried, HasData, PastDue, Copy
<1> QED  BY <1>5, <1>7, <1>8 DEF IInv, ListsStep

LEMMA CopyRefl == \A o : Copy(o, o)
BY DEF Copy

\* The pending order at i becomes p.
LEMMA ReplacePending ==
  ASSUME OrdersOK, ListOK(pending), bar \in Nat, bar' = bar,
         DOMAIN orders \subseteq DOMAIN orders',
         NEW i \in DOMAIN pending, NEW p \in Good, Copy(pending[i], p),
         pending' = [pending EXCEPT ![i] = p]
  PROVE  /\ ListOK(pending)' /\ Len(pending) <= Len(pending')
         /\ \A j \in DOMAIN pending : Copy(pending[j], pending'[j])
         /\ pending'[i] = p
<1>1. pending \in Seq(Good)
  BY DEF ListOK
<1>2. pending' \in Seq(Good) /\ Len(pending') = Len(pending) /\ DOMAIN pending' = DOMAIN pending
  BY <1>1
<1>3. \A j \in DOMAIN pending : pending'[j] = IF j = i THEN p ELSE pending[j]
  BY <1>1
<1>4. \A j \in DOMAIN pending : Copy(pending[j], pending'[j])
  BY <1>3, CopyRefl
<1>5. ListOK(pending)'
  BY <1>2, <1>4 DEF ListOK, Copy
<1>6. Len(pending) <= Len(pending')
  BY <1>1, <1>2, SeqIndices
<1> QED  BY <1>3, <1>4, <1>5, <1>6

LEMMA SyncKeepsOrders ==
  ASSUME OrdersOK, NEW p \in Good, p.id \in DOMAIN orders, Sync(p)
  PROVE  OrdersOK' /\ DOMAIN orders' = DOMAIN orders
<1>1. orders \in Seq(Good) /\ orders' = [orders EXCEPT ![p.id] = p]
  BY DEF OrdersOK, Sync
<1>2. orders' \in Seq(Good) /\ DOMAIN orders' = DOMAIN orders
  BY <1>1
<1>3. \A id \in DOMAIN orders : orders'[id] = IF id = p.id THEN p ELSE orders[id]
  BY <1>1
<1> QED  BY <1>2, <1>3 DEF OrdersOK

LEMMA KeepKeepsStill ==
  ASSUME ListOK(still), NEW p \in Good, p.id \in DOMAIN orders, p.born <= bar,
         bar' = bar, DOMAIN orders \subseteq DOMAIN orders', Keep(p)
  PROVE  ListOK(still)'
<1>1. still \in Seq(Good) /\ still' = Append(still, p)
  BY DEF ListOK, Keep
<1>2. still' \in Seq(Good) /\ DOMAIN still' = 1..Len(still) + 1 /\ DOMAIN still = 1..Len(still)
  BY <1>1
<1>3. \A i \in DOMAIN still' : still'[i] = IF i \in DOMAIN still THEN still[i] ELSE p
  BY <1>1, <1>2
<1> QED  BY <1>2, <1>3 DEF ListOK

LEMMA SameStill ==
  ASSUME ListOK(still), UNCHANGED <<still, bar>>, DOMAIN orders \subseteq DOMAIN orders'
  PROVE  ListOK(still)'
BY DEF ListOK

LEMMA SamePending ==
  ASSUME ListOK(pending), UNCHANGED <<pending, bar>>, DOMAIN orders \subseteq DOMAIN orders'
  PROVE  /\ ListOK(pending)' /\ Len(pending) <= Len(pending')
         /\ \A j \in DOMAIN pending : Copy(pending[j], pending'[j])
<1>1. Len(pending) \in Nat
  BY SeqIndices DEF ListOK
<1> QED  BY <1>1, CopyRefl DEF ListOK

LEMMA SameOrders == OrdersOK /\ UNCHANGED orders => OrdersOK'
BY DEF OrdersOK
-----------------------------------------------------------------------------
(* One step of the lists *)

\* The pending order at i becomes p and is synced.
LEMMA WorkSync ==
  ASSUME IInv, NEW i \in DOMAIN pending, NEW p \in Good, Copy(pending[i], p),
         pending' = [pending EXCEPT ![i] = p], Sync(pending'[i]),
         UNCHANGED <<still, bar>>
  PROVE  ListsStep
<1>1. pending \in Seq(Good) /\ bar \in Nat /\ OrdersOK /\ ListOK(pending) /\ ListOK(still)
  BY DEF IInv, ListOK, ControlOK
<1>2. pending'[i] = p
  BY <1>1
<1>3. p.id \in DOMAIN orders
  BY DEF IInv, ListOK, Copy
<1>4. OrdersOK' /\ DOMAIN orders' = DOMAIN orders
  BY <1>1, <1>2, <1>3, SyncKeepsOrders
<1>5. /\ ListOK(pending)' /\ Len(pending) <= Len(pending')
      /\ \A j \in DOMAIN pending : Copy(pending[j], pending'[j])
  BY <1>1, <1>4, ReplacePending
<1>6. ListOK(still)'
  BY <1>1, <1>4, SameStill
<1> QED  BY <1>4, <1>5, <1>6 DEF ListsStep

\* The pending order at i becomes p, is kept, and synced or not.
LEMMA WorkKeep ==
  ASSUME IInv, NEW i \in DOMAIN pending, NEW p \in Good, Copy(pending[i], p),
         pending' = [pending EXCEPT ![i] = p], Keep(p),
         orders' = orders \/ Sync(p), UNCHANGED bar
  PROVE  ListsStep
<1>1. bar \in Nat /\ OrdersOK /\ ListOK(pending) /\ ListOK(still)
  BY DEF IInv, ControlOK
<1>2. p.id \in DOMAIN orders /\ p.born <= bar
  BY DEF IInv, ListOK, Copy
<1>3. OrdersOK' /\ DOMAIN orders' = DOMAIN orders
  BY <1>1, <1>2, SyncKeepsOrders, SameOrders
<1>4. /\ ListOK(pending)' /\ Len(pending) <= Len(pending')
      /\ \A j \in DOMAIN pending : Copy(pending[j], pending'[j])
  BY <1>1, <1>3, ReplacePending
<1>5. ListOK(still)'
  BY <1>1, <1>2, <1>3, KeepKeepsStill
<1> QED  BY <1>3, <1>4, <1>5 DEF ListsStep

LEMMA SameLists ==
  ASSUME IInv, UNCHANGED <<orders, pending, still, bar>>
  PROVE  ListsStep
BY SamePending, SameStill, SameOrders DEF IInv, ListsStep

\* New orders are appended to both vectors.
LEMMA PushLists ==
  ASSUME IInv, NEW new \in Seq(Good),
         \A k \in DOMAIN new : new[k].id = Len(orders) + k /\ new[k].born = bar,
         Push(new), UNCHANGED <<still, bar>>
  PROVE  ListsStep
<1>1. /\ orders \in Seq(Good) /\ pending \in Seq(Good)
      /\ orders' = orders \o new /\ pending' = pending \o new /\ bar \in Nat
  BY DEF IInv, OrdersOK, ListOK, Push, ControlOK
<1> DEFINE m == Len(orders)  n == Len(pending)  k == Len(new)
<1>2. m \in Nat /\ n \in Nat /\ k \in Nat /\ DOMAIN new = 1..k
  BY <1>1
<1>3. /\ orders' \in Seq(Good) /\ DOMAIN orders = 1..m /\ DOMAIN orders' = 1..(m + k)
      /\ \A j \in 1..(m + k) : orders'[j] = IF j <= m THEN orders[j] ELSE new[j - m]
  BY <1>1
<1>4. /\ pending' \in Seq(Good) /\ DOMAIN pending = 1..n /\ DOMAIN pending' = 1..(n + k)
      /\ Len(pending') = n + k
      /\ \A j \in 1..(n + k) : pending'[j] = IF j <= n THEN pending[j] ELSE new[j - n]
  BY <1>1
<1> HIDE DEF m, n, k
<1>5. \A j \in 1..k : new[j].id = m + j /\ new[j].born = bar
  BY <1>2 DEF m
<1>6. DOMAIN orders \subseteq DOMAIN orders'
  BY <1>2, <1>3
<1>7. OrdersOK'
  <2> SUFFICES ASSUME NEW j \in 1..(m + k) PROVE orders'[j].id = j
    BY <1>3 DEF OrdersOK
  <2>1. CASE j <= m
    BY <1>2, <1>3, <2>1 DEF IInv, OrdersOK
  <2>2. CASE j > m
    <3>1. j - m \in 1..k
      BY <1>2, <2>2
    <3> QED  BY <1>2, <1>3, <1>5, <2>2, <3>1
  <2> QED  BY <1>2, <2>1, <2>2
<1>8. ListOK(pending)'
  <2> SUFFICES ASSUME NEW j \in 1..(n + k)
               PROVE  pending'[j].id \in DOMAIN orders' /\ pending'[j].born <= bar
    BY <1>4 DEF ListOK
  <2>1. CASE j <= n
    <3>1. j \in DOMAIN pending /\ pending'[j] = pending[j]
      BY <1>2, <1>4, <2>1
    <3>2. pending[j].id \in DOMAIN orders /\ pending[j].born <= bar
      BY <3>1 DEF IInv, ListOK
    <3> QED  BY <1>6, <3>1, <3>2
  <2>2. CASE j > n
    <3>1. j - n \in 1..k
      BY <1>2, <2>2
    <3>2. m + (j - n) \in 1..(m + k)
      BY <1>2, <3>1
    <3>3. pending'[j] = new[j - n]
      BY <1>2, <1>4, <2>2
    <3>4. new[j - n].id = m + (j - n) /\ new[j - n].born = bar
      BY <1>5, <3>1
    <3>5. m + (j - n) \in DOMAIN orders' /\ bar <= bar
      BY <1>1, <1>3, <3>2
    <3> QED  BY <3>3, <3>4, <3>5
  <2> QED  BY <1>2, <2>1, <2>2
<1>9. ListOK(still)'
  BY <1>6, SameStill DEF IInv
<1>10. \A j \in DOMAIN pending : Copy(pending[j], pending'[j])
  BY <1>2, <1>4, CopyRefl
<1> QED  BY <1>2, <1>4, <1>6, <1>7, <1>8, <1>9, <1>10 DEF ListsStep, n

\* What a step of the loop knows about the order it works on.
LEMMA AtCursor ==
  ASSUME IInv, phase \notin Resting, cursor <= last
  PROVE  /\ cursor \in DOMAIN pending /\ cursor \in 1..last /\ pending[cursor] \in Good
         /\ pending[cursor].id \in DOMAIN orders /\ pending[cursor].born < bar
<1>1. pending \in Seq(Good) /\ cursor \in Nat \ {0} /\ last \in 0..Len(pending)
  BY DEF IInv, ListOK, ControlOK
<1>2. cursor \in DOMAIN pending /\ cursor \in 1..last
  BY <1>1, SeqIndices
<1> QED  BY <1>1, <1>2 DEF IInv, ListOK, VisitsOld
-----------------------------------------------------------------------------
(* The actions of the strategy *)

\* A step that changes nothing but the lists, one notification and nextOco.
LEMMA CalmStep ==
  ASSUME IInv, ListsStep, notified' \in BOOLEAN, nextOco' \in Nat,
         UNCHANGED <<phase, filledOco, loopVars, ledgerVars>>
  PROVE  IInv'
<1>1. UNCHANGED <<phase, filledOco, bar, bars, cursor, last>>
  BY DEF loopVars
<1>2. ControlStep
  <2>1. phase \in {"submitted", "fill"} => Tried(pending[cursor])
    BY DEF IInv, TriedOK
  <2> QED  BY <1>1, <2>1 DEF ControlStep, IInv, ControlOK
<1>3. LedgerInv'
  BY LedgerUnchanged DEF IInv
<1> QED  BY <1>2, <1>3, LoopStep

LEMMA OneRequest ==
  ASSUME IInv, NEW r \in RequestRecords, r.size # 0, UNCHANGED <<still, bar>>,
         Push(<<NewOrder(Len(orders) + 1, r, 0, {}, TRUE)>>)
  PROVE  ListsStep
<1> DEFINE n   == Len(orders) + 1
           t   == TRUE
           o   == NewOrder(n, r, 0, {}, t)
           new == <<o>>
<1>1. bar \in Nat /\ Len(orders) + 1 \in Nat
  BY SeqIndices DEF IInv, ControlOK, OrdersOK
<1>2. o \in Good /\ o.id = Len(orders) + 1 /\ o.born = bar
  <2>1. {} \in SUBSET Nat /\ t \in BOOLEAN /\ n \in Nat
    BY <1>1
  <2> HIDE DEF t, n
  <2>2. o \in Good /\ o.id = n /\ o.born = bar
    BY <1>1, <2>1, NewOrderIsGood
  <2> HIDE DEF o
  <2> QED  BY <2>2 DEF n
<1>6. <<o>> = <<NewOrder(Len(orders) + 1, r, 0, {}, TRUE)>>
  OBVIOUS
<1> HIDE DEF o
<1>3. new \in Seq(Good) /\ DOMAIN new = {1} /\ new[1] = o
  BY <1>2
<1>4. \A k \in DOMAIN new : new[k].id = Len(orders) + k /\ new[k].born = bar
  BY <1>2, <1>3
<1>5. Push(new)
  BY <1>6
<1> HIDE DEF new
<1> QED  BY <1>3, <1>4, <1>5, PushLists

LEMMA SubmitKeeps ==
  ASSUME IInv, NoEmptyOrders, NEW r \in Requests, Submit(r)
  PROVE  IInv'
<1>1. r \in RequestRecords /\ r.size # 0
  BY BrokerAssumption DEF NoEmptyOrders
<1>2. ListsStep
  BY <1>1, OneRequest DEF Submit, Idle, loopVars
<1> QED  BY <1>2, CalmStep DEF Submit, Idle, IInv, ControlOK

LEMMA MarketRequestType ==
  ASSUME NEW side \in OrderSides, NEW size \in Nat, NEW d \in Nat
  PROVE  MarketRequest(side, size, d) \in RequestRecords
BY DEF MarketRequest, NoTrail, RequestRecords, OrderTypes

LEMMA ClosePositionKeeps ==
  ASSUME IInv, NEW d \in Feeds, ClosePosition(d)
  PROVE  IInv'
<1> DEFINE side == IF position[d].size > 0 THEN "Sell" ELSE "Buy"
           r    == MarketRequest(side, Abs(position[d].size), d)
<1>1. position[d].size \in Int /\ position[d].size # 0
  BY DEF IInv, LedgerInv, LedgerTypeOK, ClosePosition
<1>2. Abs(position[d].size) \in Nat /\ Abs(position[d].size) # 0
  BY <1>1, AbsType
<1>3. d \in Nat /\ side \in OrderSides
  BY BrokerAssumption DEF OrderSides
<1>4. r \in RequestRecords /\ r.size # 0
  BY <1>2, <1>3, MarketRequestType DEF MarketRequest
<1>5. Push(<<NewOrder(Len(orders) + 1, r, 0, {}, TRUE)>>)
  BY DEF ClosePosition
<1> HIDE DEF r
<1>6. ListsStep
  BY <1>4, <1>5, OneRequest DEF ClosePosition, Idle, loopVars
<1> QED  BY <1>6, CalmStep DEF ClosePosition, Idle, IInv, ControlOK

LEMMA NextOcoGroupKeeps ==
  ASSUME IInv, NextOcoGroup
  PROVE  IInv'
<1>1. ListsStep
  BY SameLists DEF NextOcoGroup, Idle, loopVars
<1>2. nextOco' \in Nat
  BY DEF IInv, ControlOK, NextOcoGroup
<1> QED  BY <1>1, <1>2, CalmStep DEF NextOcoGroup, Idle, IInv, ControlOK

\* cancel_order, from the strategy or from a callback.
LEMMA CancelPendingLists ==
  ASSUME IInv, NEW id, CancelPending(id), UNCHANGED <<still, bar>>
  PROVE  ListsStep
<1>1. PICK i \in DOMAIN pending :
        /\ pending' = [pending EXCEPT ![i] = Move(@, "Canceled")] /\ Sync(pending'[i])
  BY DEF CancelPending
<1> DEFINE p == Move(pending[i], "Canceled")
<1>2. pending[i] \in Good
  BY DEF IInv, ListOK
<1>3. p \in Good /\ Copy(pending[i], p)
  BY <1>2, MoveKeepsGood DEF Failing, OrderStatuses
<1>4. pending' = [pending EXCEPT ![i] = p]
  BY <1>1
<1> HIDE DEF p
<1> QED  BY <1>1, <1>3, <1>4, WorkSync

LEMMA CancelKeeps ==
  ASSUME IInv, NEW id, Cancel(id)
  PROVE  IInv'
<1>1. ListsStep
  BY CancelPendingLists DEF Cancel, loopVars
<1>2. notified' \in BOOLEAN /\ nextOco' \in Nat
  BY DEF Cancel, Notify, IInv, ControlOK
<1> QED  BY <1>1, <1>2, CalmStep DEF Cancel

LEMMA StartBarKeeps ==
  ASSUME IInv, StartBar
  PROVE  IInv'
<1>1. UNCHANGED <<orders, pending, nextOco, still, filledOco, notified, ledgerVars>>
      /\ bar' = bar + 1 /\ bars' \in [Feeds -> Bars \union {None}]
      /\ phase' = "order" /\ cursor' = 1 /\ last' = Len(pending)
  BY DEF StartBar
<1>2. bar \in Nat /\ pending \in Seq(Good) /\ still \in Seq(Good)
      /\ Len(pending) \in Nat /\ DOMAIN pending = 1..Len(pending)
  BY SeqIndices DEF IInv, ListOK, ControlOK
<1>3. \A o \in Good : o.born \in Nat
  BY DEF Good, OrderRecords
<1>4. /\ \A i \in DOMAIN pending : pending[i].born < bar + 1
      /\ \A i \in DOMAIN still : still[i].born < bar + 1
  BY <1>2, <1>3 DEF IInv, ListOK
<1>5. ListOK(pending)' /\ ListOK(still)' /\ OrdersOK'
  <2>1. \A i \in DOMAIN pending : pending[i].born <= bar + 1
    BY <1>2, <1>3, <1>4
  <2>2. \A i \in DOMAIN still : still[i].born <= bar + 1
    BY <1>2, <1>3, <1>4
  <2> QED  BY <1>1, <2>1, <2>2, SameOrders DEF IInv, ListOK
<1>6. ControlOK'
  BY <1>1, <1>2 DEF IInv, ControlOK, Phases, References
<1>7. VisitsOld' /\ TriedOK'
  BY <1>1, <1>2, <1>4 DEF VisitsOld, TriedOK
<1>8. LedgerInv'
  BY <1>1, LedgerUnchanged DEF IInv
<1> QED  BY <1>5, <1>6, <1>7, <1>8 DEF IInv

LEMMA LegRequestType ==
  ASSUME NEW b \in Brackets, NEW leg \in {"main", "limit", "stop"}, NEW n \in Nat,
         nextOco \in Nat
  PROVE  /\ LegRequest(b, leg, n) \in RequestRecords /\ LegRequest(b, leg, n).size = n
         /\ leg # "main" => LegRequest(b, leg, n).type \in {"Limit", "Stop"}
<1>1. b.side \in OrderSides /\ b.feed \in Nat /\ b.limit \in Int /\ b.stop \in Int
  BY BrokerAssumption
<1>2. Opposite(b.side) \in OrderSides
  BY DEF Opposite, OrderSides
<1>3. CASE leg = "main"
  BY <1>1, <1>3, MarketRequestType DEF LegRequest, MarketRequest
<1>4. CASE leg # "main"
  <2> DEFINE m     == MarketRequest(Opposite(b.side), n, b.feed)
             type  == IF leg = "limit" THEN "Limit" ELSE "Stop"
             price == IF leg = "limit" THEN b.limit ELSE 0
             stop  == IF leg = "stop" THEN b.stop ELSE None
  <2>1. m \in RequestRecords /\ m.size = n
    BY <1>1, <1>2, MarketRequestType DEF MarketRequest
  <2>2. /\ type \in OrderTypes /\ price \in Int /\ stop \in Int \union {None}
        /\ type \in {"Limit", "Stop"}
    BY <1>1 DEF OrderTypes
  <2>3. LegRequest(b, leg, n)
          = [m EXCEPT !.type = type, !.price = price, !.stop = stop, !.oco = nextOco]
    BY <1>4 DEF LegRequest
  <2> HIDE DEF m, type, price, stop
  <2> QED  BY <2>1, <2>2, <2>3 DEF RequestRecords
<1> QED  BY <1>3, <1>4

\* The orders of s are numbered on from n and were submitted in this bar.
Numbered(s, n) ==
  /\ s \in Seq(Good)
  /\ \A k \in DOMAIN s : s[k].id = n + k /\ s[k].born = bar

LEMMA ConcatNumbered ==
  ASSUME NEW n \in Nat, NEW s, NEW t, Numbered(s, n), Numbered(t, n + Len(s))
  PROVE  Numbered(s \o t, n) /\ Len(s \o t) = Len(s) + Len(t)
<1>1. s \in Seq(Good) /\ t \in Seq(Good)
  BY DEF Numbered
<1> DEFINE l == Len(s)  m == Len(t)  u == s \o t
<1>2. l \in Nat /\ m \in Nat /\ DOMAIN s = 1..l /\ DOMAIN t = 1..m
  BY <1>1
<1>3. /\ u \in Seq(Good) /\ Len(u) = l + m /\ DOMAIN u = 1..(l + m)
      /\ \A k \in 1..(l + m) : u[k] = IF k <= l THEN s[k] ELSE t[k - l]
  BY <1>1
<1>4. \A k \in 1..m : t[k].id = n + l + k /\ t[k].born = bar
  BY <1>2 DEF Numbered
<1> HIDE DEF l, m, u
<1>5. ASSUME NEW k \in 1..(l + m) PROVE u[k].id = n + k /\ u[k].born = bar
  <2>1. CASE k <= l
    <3>1. k \in DOMAIN s /\ u[k] = s[k]
      BY <1>2, <1>3, <2>1
    <3> QED  BY <3>1 DEF Numbered
  <2>2. CASE k > l
    <3>1. k - l \in 1..m /\ n + l + (k - l) = n + k
      BY <1>2, <2>2
    <3> QED  BY <1>2, <1>3, <1>4, <2>2, <3>1
  <2> QED  BY <1>2, <2>1, <2>2
<1> QED  BY <1>3, <1>5 DEF Numbered, u, l, m

\* A leg of a bracket is one good order, or none if the hook rejects it.
LEMMA LegIsNumbered ==
  ASSUME IInv, NoEmptyOrders, NEW b \in Brackets, NEW size \in HookResults,
         NEW leg \in {"main", "limit", "stop"},
         NEW n \in Nat, NEW id \in Nat, NEW parent \in Nat, NEW children \in SUBSET Nat,
         size[leg] # None => id = n + 1, parent <= n, leg = "main" => parent = 0
  PROVE  LET s == Leg(b, leg, size, id, parent, children)
         IN  Numbered(s, n) /\ Len(s) = IF size[leg] = None THEN 0 ELSE 1
<1> DEFINE s == Leg(b, leg, size, id, parent, children)
<1>1. CASE size[leg] = None
  <2>1. s = << >>
    BY <1>1 DEF Leg
  <2> QED  BY <1>1, <2>1 DEF Numbered
<1>2. CASE size[leg] # None
  <2>1. size[leg] \in Nat /\ size[leg] # 0
    BY <1>2, BrokerAssumption DEF NoEmptyOrders
  <2>2. nextOco \in Nat /\ bar \in Nat
    BY DEF IInv, ControlOK
  <2> DEFINE r == LegRequest(b, leg, size[leg])
             t == leg = "main"
             o == NewOrder(id, r, parent, children, t)
  <2>3. r \in RequestRecords /\ r.size # 0 /\ (leg # "main" => r.type \in {"Limit", "Stop"})
    BY <2>1, <2>2, LegRequestType
  <2>4. s = <<o>>
    BY <1>2 DEF Leg
  <2> HIDE DEF r
  <2>5. parent # 0 => r.type \in {"Limit", "Stop"} /\ parent < id
    BY <1>2, <2>3
  <2>6. t \in BOOLEAN
    OBVIOUS
  <2> HIDE DEF t
  <2>7. o \in Good /\ o.id = id /\ o.born = bar
    BY <2>2, <2>3, <2>5, <2>6, NewOrderIsGood
  <2> HIDE DEF o, s
  <2>8. s \in Seq(Good) /\ DOMAIN s = {1} /\ s[1] = o /\ Len(s) = 1
    BY <2>4, <2>7
  <2>9. id = n + 1
    BY <1>2
  <2>10. Numbered(s, n)
    BY <2>7, <2>8, <2>9 DEF Numbered
  <2> QED  BY <1>2, <2>8, <2>10 DEF s
<1> QED  BY <1>1, <1>2

\* The ids of the legs and the orders that place_bracket appends.
MainId(size)  == IF size["main"] = None THEN 0 ELSE Len(orders) + 1
LimitId(size) == IF size["limit"] = None THEN 0 ELSE Max2(Len(orders), MainId(size)) + 1
StopId(size)  == IF size["stop"] = None THEN 0
                 ELSE Max2(Max2(Len(orders), MainId(size)), LimitId(size)) + 1

MainLeg(b, size)  == Leg(b, "main", size, MainId(size), 0, {LimitId(size), StopId(size)})
LimitLeg(b, size) == Leg(b, "limit", size, LimitId(size), MainId(size), {})
StopLeg(b, size)  == Leg(b, "stop", size, StopId(size), MainId(size), {})

BracketOrders(b, size) == MainLeg(b, size) \o LimitLeg(b, size) \o StopLeg(b, size)

LEMMA PlaceBracketPushes ==
  ASSUME NEW b, NEW size, PlaceBracket(b, size)
  PROVE  /\ Push(BracketOrders(b, size)) /\ Idle /\ nextOco' = nextOco + 1
         /\ StrategyActs
BY DEF PlaceBracket, BracketOrders, MainLeg, LimitLeg, StopLeg, MainId, LimitId, StopId

LEMMA BracketIsNumbered ==
  ASSUME IInv, NoEmptyOrders, NEW b \in Brackets, NEW size \in HookResults
  PROVE  /\ Numbered(BracketOrders(b, size), Len(orders))
         /\ Len(BracketOrders(b, size)) \in 0..3
         /\ MainLeg(b, size) \in Seq(Good) /\ LimitLeg(b, size) \in Seq(Good)
         /\ StopLeg(b, size) \in Seq(Good)
         /\ size["main"] # None => 1 \in DOMAIN MainLeg(b, size)
<1> DEFINE n     == Len(orders)
           main  == MainId(size)
           limit == LimitId(size)
           stop  == StopId(size)
           kids  == {limit, stop}
           x     == Leg(b, "main", size, main, 0, kids)
           y     == Leg(b, "limit", size, limit, main, {})
           z     == Leg(b, "stop", size, stop, main, {})
           new   == x \o y \o z
<1>1. n \in Nat
  BY SeqIndices DEF IInv, OrdersOK
<1>2. /\ new = BracketOrders(b, size)
      /\ x = MainLeg(b, size) /\ y = LimitLeg(b, size) /\ z = StopLeg(b, size)
  BY DEF BracketOrders, MainLeg, LimitLeg, StopLeg
<1>15. /\ main = IF size["main"] = None THEN 0 ELSE n + 1
       /\ limit = IF size["limit"] = None THEN 0 ELSE Max2(n, main) + 1
       /\ stop = IF size["stop"] = None THEN 0 ELSE Max2(Max2(n, main), limit) + 1
  BY DEF MainId, LimitId, StopId
<1> HIDE DEF n, main, limit, stop
<1>3. main \in Nat /\ limit \in Nat /\ stop \in Nat
      /\ main <= n + (IF size["main"] = None THEN 0 ELSE 1)
  BY <1>1, <1>15 DEF Max2
<1>4. /\ size["main"] # None => main = n + 1
      /\ size["limit"] # None => limit = n + (IF size["main"] = None THEN 0 ELSE 1) + 1
      /\ size["stop"] # None =>
           stop = n + (IF size["main"] = None THEN 0 ELSE 1)
                    + (IF size["limit"] = None THEN 0 ELSE 1) + 1
  BY <1>1, <1>15 DEF Max2
<1>5. 0 \in Nat /\ kids \in SUBSET Nat /\ {} \in SUBSET Nat
  BY <1>3
<1> HIDE DEF kids
<1>6. Numbered(x, n) /\ Len(x) = IF size["main"] = None THEN 0 ELSE 1
  <2>1. "main" \in {"main", "limit", "stop"} /\ (size["main"] # None => main = n + 1)
    BY <1>4
  <2>2. main \in Nat /\ 0 \in Nat /\ kids \in SUBSET Nat /\ 0 <= n
    BY <1>1, <1>3, <1>5
  <2> DEFINE leg == "main"  parent == 0
  <2>3. leg = "main" => parent = 0
    OBVIOUS
  <2>4. x = Leg(b, leg, size, main, parent, kids)
    OBVIOUS
  <2> HIDE DEF x, leg, parent
  <2>5. leg \in {"main", "limit", "stop"} /\ (size[leg] # None => main = n + 1)
        /\ parent \in Nat /\ parent <= n
    BY <2>1, <2>2 DEF leg, parent
  <2>6. Numbered(x, n) /\ Len(x) = IF size[leg] = None THEN 0 ELSE 1
    BY <1>1, <2>2, <2>3, <2>4, <2>5, LegIsNumbered
  <2> QED  BY <2>6 DEF leg
<1> HIDE DEF x
<1>7. n + Len(x) \in Nat /\ (size["limit"] # None => limit = n + Len(x) + 1)
      /\ main <= n + Len(x)
  BY <1>1, <1>3, <1>4, <1>6
<1>8. Numbered(y, n + Len(x)) /\ Len(y) = IF size["limit"] = None THEN 0 ELSE 1
  <2> HIDE DEF y
  <2> QED  BY <1>3, <1>5, <1>7, LegIsNumbered, SMTT(20) DEF y
<1> HIDE DEF y
<1>9. Numbered(x \o y, n) /\ Len(x \o y) = Len(x) + Len(y)
  BY <1>1, <1>6, <1>8, ConcatNumbered
<1>10. n + Len(x \o y) \in Nat /\ (size["stop"] # None => stop = n + Len(x \o y) + 1)
       /\ main <= n + Len(x \o y)
  BY <1>1, <1>3, <1>4, <1>6, <1>8, <1>9
<1>11. Numbered(z, n + Len(x \o y)) /\ Len(z) = IF size["stop"] = None THEN 0 ELSE 1
  <2> HIDE DEF z
  <2> QED  BY <1>3, <1>5, <1>10, LegIsNumbered, SMTT(20) DEF z
<1> HIDE DEF z
<1>12. Numbered(new, n)
  BY <1>1, <1>9, <1>11, ConcatNumbered
<1>13. Len(new) = Len(x) + Len(y) + Len(z)
  <2>1. Len(new) = Len(x \o y) + Len(z)
    <3> DEFINE w == x \o y
    <3>1. Numbered(w, n)
      BY <1>9
    <3>2. Numbered(z, n + Len(w))
      BY <1>11
    <3> HIDE DEF w
    <3>3. Len(w \o z) = Len(w) + Len(z)
      BY <1>1, <3>1, <3>2, ConcatNumbered
    <3> QED  BY <3>3 DEF w
  <2> QED  BY <1>9, <2>1
<1> HIDE DEF new
<1>14. Len(new) \in 0..3
  <2> DEFINE p == Len(x)  q == Len(y)  r == Len(z)
  <2>1. p \in {0, 1} /\ q \in {0, 1} /\ r \in {0, 1}
    BY <1>6, <1>8, <1>11
  <2>2. Len(new) = p + q + r
    BY <1>13
  <2> HIDE DEF p, q, r
  <2> QED  BY ONLY <2>1, <2>2
<1>16. x \in Seq(Good) /\ y \in Seq(Good) /\ z \in Seq(Good)
  BY <1>6, <1>8, <1>11 DEF Numbered
<1>17. size["main"] # None => 1 \in DOMAIN x
  BY <1>6, <1>16
<1> QED  BY <1>2, <1>12, <1>14, <1>16, <1>17 DEF n

LEMMA PlaceBracketKeeps ==
  ASSUME IInv, NoEmptyOrders, NEW b \in Brackets, NEW size \in HookResults,
         PlaceBracket(b, size)
  PROVE  IInv'
<1> DEFINE new == BracketOrders(b, size)
<1>1. Push(new) /\ UNCHANGED <<still, bar>>
  BY PlaceBracketPushes DEF Idle, loopVars
<1>2. Numbered(new, Len(orders))
  BY BracketIsNumbered
<1> HIDE DEF new
<1>3. ListsStep
  BY <1>1, <1>2, PushLists DEF Numbered
<1>4. nextOco' \in Nat
  BY PlaceBracketPushes DEF IInv, ControlOK
<1> QED  BY <1>3, <1>4, CalmStep DEF PlaceBracket, Idle, IInv, ControlOK
-----------------------------------------------------------------------------
(* The control of the loop *)

LEMMA ControlNext ==
  ASSUME IInv, phase \notin Resting, NextOrder, InLoop,
         filledOco' \subseteq Nat, notified' \in BOOLEAN
  PROVE  ControlStep
BY DEF ControlStep, IInv, ControlOK, NextOrder, InLoop, Phases, References

LEMMA ControlSame ==
  ASSUME IInv, phase \notin Resting, NEW p \in Phases, SameOrder(p), InLoop,
         p \in References => cursor \in 1..last,
         p \in {"submitted", "fill"} => Tried(pending[cursor]),
         filledOco' \subseteq Nat, notified' \in BOOLEAN
  PROVE  ControlStep
BY DEF ControlStep, IInv, ControlOK, SameOrder, InLoop

LEMMA NotifyType == ASSUME Notify PROVE notified' \in BOOLEAN
BY DEF Notify

\* A step that works on the order at the cursor and syncs it.
LEMMA SyncStep ==
  ASSUME IInv, phase \notin Resting, cursor <= last, ControlStep,
         NEW p \in Good, Copy(pending[cursor], p), Work(p), Sync(pending'[cursor]),
         UNCHANGED still, LedgerInv'
  PROVE  IInv'
<1>1. cursor \in DOMAIN pending
  BY AtCursor
<1>2. pending' = [pending EXCEPT ![cursor] = p] /\ UNCHANGED bar
  BY DEF Work, ControlStep
<1>3. ListsStep
  BY <1>1, <1>2, WorkSync
<1> QED  BY <1>3, LoopStep

\* A step that works on the order at the cursor and keeps it for the next bar.
LEMMA KeepStep ==
  ASSUME IInv, phase \notin Resting, cursor <= last, ControlStep,
         NEW p \in Good, Copy(pending[cursor], p), Work(p), Keep(p),
         orders' = orders \/ Sync(p), LedgerInv'
  PROVE  IInv'
<1>1. cursor \in DOMAIN pending
  BY AtCursor
<1>2. pending' = [pending EXCEPT ![cursor] = p] /\ UNCHANGED bar
  BY DEF Work, ControlStep
<1>3. ListsStep
  BY <1>1, <1>2, WorkKeep
<1> QED  BY <1>3, LoopStep

\* Moving a released order is a good change of it.
LEMMA MoveReleasedIsGood ==
  ASSUME NEW o \in Good, NEW s \in Failing
  PROVE  Move(Released(o), s) \in Good /\ Copy(o, Move(Released(o), s))
<1>1. Released(o) \in Good /\ Copy(o, Released(o))
  BY ReleaseKeepsGood
<1>2. Move(Released(o), s) \in Good /\ Copy(Released(o), Move(Released(o), s))
  BY <1>1, MoveKeepsGood
<1> QED  BY <1>1, <1>2 DEF Copy
-----------------------------------------------------------------------------
(* The actions before the fill *)

LEMMA ToTryFacts ==
  ASSUME IInv, NEW o, AtOrder(o)
  PROVE  /\ phase \notin Resting /\ cursor <= last /\ o = pending[cursor]
         /\ o \in Good /\ cursor \in 1..last
BY AtCursor DEF AtOrder, Resting

LEMMA SkipDeadKeeps ==
  ASSUME IInv, NEW o, SkipDead(o)
  PROVE  IInv'
<1>1. phase \notin Resting
  BY DEF SkipDead, AtOrder, Resting
<1>2. filledOco' \subseteq Nat /\ notified' \in BOOLEAN /\ UNCHANGED ledgerVars
  BY DEF SkipDead, IInv, ControlOK
<1>3. ControlStep
  BY <1>1, <1>2, ControlNext DEF SkipDead
<1>4. ListsStep
  BY SameLists DEF SkipDead, InLoop
<1> QED  BY <1>2, <1>3, <1>4, LoopStep, LedgerUnchanged DEF IInv

LEMMA HoldChildKeeps ==
  ASSUME IInv, NEW o, HoldChild(o)
  PROVE  IInv'
<1>1. /\ phase \notin Resting /\ cursor <= last /\ o = pending[cursor] /\ o \in Good
      /\ cursor \in DOMAIN pending /\ pending \in Seq(Good)
  BY ToTryFacts, AtCursor DEF HoldChild, IInv, ListOK
<1>2. filledOco' \subseteq Nat /\ notified' \in BOOLEAN /\ UNCHANGED ledgerVars
  BY DEF HoldChild, IInv, ControlOK
<1>3. ControlStep
  BY <1>1, <1>2, ControlNext DEF HoldChild
<1>4. Work(o)
  BY <1>1 DEF HoldChild, Work
<1>5. Keep(o) /\ orders' = orders /\ LedgerInv'
  BY <1>2, LedgerUnchanged DEF HoldChild, IInv
<1> QED  BY <1>1, <1>3, <1>4, <1>5, CopyRefl, KeepStep

LEMMA RejectFeedKeeps ==
  ASSUME IInv, NEW o, RejectFeed(o)
  PROVE  IInv'
<1> DEFINE p == Move(Released(o), "Rejected")
<1>1. phase \notin Resting /\ cursor <= last /\ o = pending[cursor] /\ o \in Good
  BY ToTryFacts DEF RejectFeed, ToTry
<1>2. filledOco' \subseteq Nat /\ notified' \in BOOLEAN /\ LedgerInv'
  BY NotifyType, LedgerUnchanged DEF RejectFeed, IInv, ControlOK
<1>3. ControlStep
  BY <1>1, <1>2, ControlNext DEF RejectFeed
<1>4. p \in Good /\ Copy(o, p)
  BY <1>1, MoveReleasedIsGood DEF Failing, OrderStatuses
<1>5. Work(p) /\ Sync(pending'[cursor]) /\ UNCHANGED still
  BY DEF RejectFeed
<1> HIDE DEF p
<1> QED  BY <1>1, <1>2, <1>3, <1>4, <1>5, SyncStep

LEMMA KeepUntilDataKeeps ==
  ASSUME IInv, NEW o, KeepUntilData(o)
  PROVE  IInv'
<1> DEFINE p == Released(o)
<1>1. phase \notin Resting /\ cursor <= last /\ o = pending[cursor] /\ o \in Good
  BY ToTryFacts DEF KeepUntilData, ToTry
<1>2. filledOco' \subseteq Nat /\ notified' \in BOOLEAN /\ LedgerInv'
  BY LedgerUnchanged DEF KeepUntilData, IInv, ControlOK
<1>3. ControlStep
  BY <1>1, <1>2, ControlNext DEF KeepUntilData
<1>4. p \in Good /\ Copy(o, p)
  BY <1>1, ReleaseKeepsGood
<1>5. Work(p) /\ Keep(p) /\ orders' = orders
  BY DEF KeepUntilData
<1> HIDE DEF p
<1> QED  BY <1>1, <1>2, <1>3, <1>4, <1>5, KeepStep

LEMMA ExpireKeeps ==
  ASSUME IInv, NEW o, Expire(o)
  PROVE  IInv'
<1> DEFINE p == Move(Released(o), "Expired")
<1>1. phase \notin Resting /\ cursor <= last /\ o = pending[cursor] /\ o \in Good
  BY ToTryFacts DEF Expire, ToTry
<1>2. filledOco' \subseteq Nat /\ notified' \in BOOLEAN /\ LedgerInv'
  BY NotifyType, LedgerUnchanged DEF Expire, IInv, ControlOK
<1>3. ControlStep
  BY <1>1, <1>2, ControlNext DEF Expire
<1>4. p \in Good /\ Copy(o, p)
  BY <1>1, MoveReleasedIsGood DEF Failing, OrderStatuses
<1>5. Work(p) /\ Sync(pending'[cursor]) /\ UNCHANGED still
  BY DEF Expire
<1> HIDE DEF p
<1> QED  BY <1>1, <1>2, <1>3, <1>4, <1>5, SyncStep
LEMMA AdmitKeeps ==
  ASSUME IInv, NEW o, Admit(o)
  PROVE  IInv'
<1>1. /\ phase \notin Resting /\ cursor <= last /\ o = pending[cursor] /\ o \in Good
      /\ cursor \in 1..last
  BY ToTryFacts DEF Admit, ToTry
<1>2. filledOco' \subseteq Nat /\ notified' \in BOOLEAN /\ LedgerInv' /\ UNCHANGED still
  BY NotifyType, LedgerUnchanged DEF Admit, Quiet, IInv, ControlOK
<1>3. Tried(pending[cursor]) /\ InLoop
  BY <1>1 DEF Admit, Tried
<1>4. "submitted" \in Phases /\ "fill" \in Phases
  BY DEF Phases
<1>5. CASE Work(Move(Released(o), "Submitted")) /\ Sync(pending'[cursor]) /\ SameOrder("submitted")
  <2> DEFINE p == Move(Released(o), "Submitted")
  <2>1. ControlStep
    BY <1>1, <1>2, <1>3, <1>4, <1>5, ControlSame
  <2>2. p \in Good /\ Copy(o, p)
    BY <1>1, MoveReleasedIsGood DEF Failing, OrderStatuses, AliveStatuses
  <2>3. Work(p) /\ Sync(pending'[cursor])
    BY <1>5
  <2> HIDE DEF p
  <2> QED  BY <1>1, <1>2, <2>1, <2>2, <2>3, SyncStep
<1>6. CASE Work(Released(o)) /\ UNCHANGED orders /\ SameOrder("fill")
  <2> DEFINE p == Released(o)
  <2>1. ControlStep
    BY <1>1, <1>2, <1>3, <1>4, <1>6, ControlSame
  <2>2. p \in Good /\ Copy(o, p)
    BY <1>1, ReleaseKeepsGood
  <2>3. cursor \in DOMAIN pending /\ pending' = [pending EXCEPT ![cursor] = p] /\ UNCHANGED bar
    BY <1>1, <1>3, <1>6, AtCursor DEF Work, InLoop
  <2>4. UNCHANGED orders
    BY <1>6
  <2> HIDE DEF p
  <2>5. OrdersOK /\ ListOK(pending) /\ ListOK(still) /\ bar \in Nat
    BY DEF IInv, ControlOK
  <2>6. /\ ListOK(pending)' /\ Len(pending) <= Len(pending')
        /\ \A j \in DOMAIN pending : Copy(pending[j], pending'[j])
    BY <1>1, <2>2, <2>3, <2>4, <2>5, ReplacePending
  <2>7. OrdersOK' /\ ListOK(still)'
    BY <1>2, <2>3, <2>4, <2>5, SameOrders, SameStill
  <2>8. ListsStep
    BY <2>4, <2>6, <2>7 DEF ListsStep
  <2> QED  BY <1>2, <2>1, <2>8, LoopStep
<1> QED  BY <1>5, <1>6 DEF Admit

\* The order a reference of process_orders points at.
LEMMA AtReference ==
  ASSUME IInv, phase \in References
  PROVE  /\ phase \notin Resting /\ cursor <= last /\ cursor \in 1..last
         /\ cursor \in DOMAIN pending /\ pending[cursor] \in Good
         /\ pending[cursor].born < bar
<1>1. phase \notin Resting /\ cursor \in 1..last /\ last \in Nat
  BY DEF References, Resting, IInv, ControlOK
<1>2. cursor <= last
  BY <1>1
<1> QED  BY <1>1, <1>2, AtCursor

LEMMA AcceptOrderKeeps ==
  ASSUME IInv, AcceptOrder
  PROVE  IInv'
<1> DEFINE p == Move(pending[cursor], "Accepted")
<1>1. phase = "submitted" /\ phase \in References
  BY DEF AcceptOrder, References
<1>2. /\ phase \notin Resting /\ cursor <= last /\ cursor \in 1..last
      /\ pending[cursor] \in Good
  BY <1>1, AtReference
<1>3. filledOco' \subseteq Nat /\ notified' \in BOOLEAN /\ LedgerInv' /\ UNCHANGED still
  BY NotifyType, LedgerUnchanged DEF AcceptOrder, IInv, ControlOK
<1>4. Tried(pending[cursor])
  BY <1>1 DEF IInv, TriedOK
<1>5. "fill" \in Phases
  BY DEF Phases
<1>6. ControlStep
  BY <1>2, <1>3, <1>4, <1>5, ControlSame DEF AcceptOrder
<1>7. p \in Good /\ Copy(pending[cursor], p)
  BY <1>2, MoveKeepsGood DEF Failing, OrderStatuses, AliveStatuses
<1>8. Work(p) /\ Sync(pending'[cursor])
  BY DEF AcceptOrder
<1> HIDE DEF p
<1> QED  BY <1>2, <1>3, <1>6, <1>7, <1>8, SyncStep
-----------------------------------------------------------------------------
(* try_fill_order *)

LEMMA TryingFacts ==
  ASSUME IInv, NEW o, Trying(o)
  PROVE  /\ phase \notin Resting /\ cursor <= last /\ cursor \in 1..last
         /\ o = pending[cursor] /\ o \in Good /\ o.born < bar /\ o.feed \in Feeds
         /\ bars[o.feed] \in Bars /\ ~PastDue(o) /\ bar \in Nat
<1>1. phase = "fill" /\ phase \in References /\ o = pending[cursor]
  BY DEF Trying, References
<1>2. /\ phase \notin Resting /\ cursor <= last /\ cursor \in 1..last
      /\ o \in Good /\ o.born < bar
  BY <1>1, AtReference
<1>3. Tried(o)
  BY <1>1 DEF IInv, TriedOK
<1>4. bars \in [Feeds -> Bars \union {None}] /\ bar \in Nat
  BY DEF IInv, ControlOK
<1> QED  BY <1>1, <1>2, <1>3, <1>4 DEF Tried, HasData

\* A try that ends the order's visit goes on to SettleOrder.
LEMMA ToFilled ==
  ASSUME IInv, NEW o, Trying(o), SameOrder("filled"), InLoop, Notify, UNCHANGED filledOco
  PROVE  ControlStep
<1>1. filledOco' \subseteq Nat /\ notified' \in BOOLEAN
  BY NotifyType DEF IInv, ControlOK
<1>2. phase \notin Resting /\ cursor \in 1..last /\ "filled" \in Phases
  BY TryingFacts DEF Phases
<1> QED  BY <1>1, <1>2, ControlSame

LEMMA RejectUnpricedKeeps ==
  ASSUME IInv, NEW o, RejectUnpriced(o)
  PROVE  IInv'
<1> DEFINE p == Move(o, "Rejected")
<1>1. phase \notin Resting /\ cursor <= last /\ o = pending[cursor] /\ o \in Good
  BY TryingFacts DEF RejectUnpriced
<1>2. ControlStep /\ LedgerInv' /\ UNCHANGED still
  BY ToFilled, LedgerUnchanged DEF RejectUnpriced, IInv
<1>3. p \in Good /\ Copy(o, p)
  BY <1>1, MoveKeepsGood DEF Failing, OrderStatuses
<1>4. Work(p) /\ Sync(pending'[cursor])
  BY DEF RejectUnpriced
<1> HIDE DEF p
<1> QED  BY <1>1, <1>2, <1>3, <1>4, SyncStep

LEMMA MarginCallKeeps ==
  ASSUME IInv, NEW o, MarginCall(o)
  PROVE  IInv'
<1> DEFINE p == Move(o, "Margin")
<1>1. phase \notin Resting /\ cursor <= last /\ o = pending[cursor] /\ o \in Good
  BY TryingFacts DEF MarginCall
<1>2. ControlStep /\ LedgerInv' /\ UNCHANGED still
  BY ToFilled, LedgerUnchanged DEF MarginCall, IInv
<1>3. p \in Good /\ Copy(o, p)
  BY <1>1, MoveKeepsGood DEF Failing, OrderStatuses
<1>4. Work(p) /\ Sync(pending'[cursor])
  BY DEF MarginCall
<1> HIDE DEF p
<1> QED  BY <1>1, <1>2, <1>3, <1>4, SyncStep

LEMMA KeepUnfilledKeeps ==
  ASSUME IInv, NEW o, KeepUnfilled(o)
  PROVE  IInv'
<1> DEFINE p == IF IsTrail(o) THEN UpdateTrailStop(o, bars[o.feed]) ELSE o
<1>1. /\ phase \notin Resting /\ cursor <= last /\ o = pending[cursor] /\ o \in Good
      /\ bars[o.feed] \in Bars
  BY TryingFacts DEF KeepUnfilled
<1>2. filledOco' \subseteq Nat /\ notified' \in BOOLEAN /\ LedgerInv'
  BY LedgerUnchanged DEF KeepUnfilled, IInv, ControlOK
<1>3. ControlStep
  BY <1>1, <1>2, ControlNext DEF KeepUnfilled
<1>4. p \in Good /\ Copy(o, p)
  BY <1>1, TrailKeepsGood, CopyRefl
<1>5. Work(p) /\ Keep(p)
  BY DEF KeepUnfilled
<1>6. orders' = IF p # o THEN [orders EXCEPT ![o.id] = p] ELSE orders
  BY DEF KeepUnfilled
<1> HIDE DEF p
<1>7. orders' = orders \/ Sync(p)
  BY <1>4, <1>6 DEF Sync, Copy
<1> QED  BY <1>1, <1>2, <1>3, <1>4, <1>5, <1>7, KeepStep

LEMMA FillOrderKeeps ==
  ASSUME IInv, NEW o, FillOrder(o)
  PROVE  IInv'
<1> DEFINE b == bars[o.feed]
           q == FillPrice(slip, o, b)
           f == [Execute(o, q, o.size) EXCEPT !.execBar = bar]
           p == IF Alive(o) THEN f ELSE o
<1>1. /\ phase \notin Resting /\ cursor <= last /\ o = pending[cursor] /\ o \in Good
      /\ o.born < bar /\ o.feed \in Feeds /\ b \in Bars /\ ~PastDue(o) /\ bar \in Nat
  BY TryingFacts DEF FillOrder
<1>2. ControlStep /\ UNCHANGED still
  BY ToFilled DEF FillOrder
<1>3. ~LacksStop(o) /\ q # None
  BY DEF FillOrder, Priced, Price
<1>4. IsTriable(o) /\ IsBar(b)
  BY <1>1, <1>3, GoodTriable, BarType
<1>5. ApplyFill(o.feed, SignedSize(o), q) /\ Work(p) /\ Sync(pending'[cursor])
  BY DEF FillOrder, Price
<1>6. q \in Int
  <2> HIDE DEF b
  <2> QED  BY <1>3, <1>4, SlipType, FillPriceType
<1>7. p \in Good /\ Copy(o, p)
  <2>1. ~(o.valid # None /\ bar > o.valid)
    BY <1>1 DEF PastDue
  <2> HIDE DEF b
  <2>2. Alive(o) => f \in Good /\ Copy(o, f)
    BY <1>1, <1>3, <2>1, FillKeepsGood
  <2> HIDE DEF f
  <2> QED  BY <1>1, <2>2, CopyRefl
<1> HIDE DEF b, q, f, p
<1>8. SignedSize(o) \in Int /\ SignedSize(o) # 0
  <2>1. o.size \in Nat /\ o.size # 0
    BY <1>1 DEF Good, OrderRecords
  <2> QED  BY <2>1 DEF SignedSize
<1>9. LedgerInv'
  BY <1>1, <1>5, <1>6, <1>8, ApplyFillKeepsLedger DEF IInv
<1> QED  BY <1>1, <1>2, <1>5, <1>7, <1>9, SyncStep
-----------------------------------------------------------------------------
(* After the fill, and the end of the bar *)

LEMMA ActivateLists ==
  ASSUME IInv, NEW id, pending' = Activate(id), UNCHANGED <<orders, still, bar>>
  PROVE  ListsStep
<1>1. pending \in Seq(Good) /\ OrdersOK /\ ListOK(pending) /\ ListOK(still)
  BY DEF IInv, ListOK
<1> DEFINE n == Len(pending)
<1>2. n \in Nat /\ DOMAIN pending = 1..n
  BY <1>1, SeqIndices
<1>3. ASSUME NEW i \in 1..n
      PROVE  Activate(id)[i] \in Good /\ Copy(pending[i], Activate(id)[i])
  <2>1. pending[i] \in Good
    BY <1>1, <1>2
  <2> QED  BY <1>2, <2>1, TransmitKeepsGood, CopyRefl DEF Activate
<1>4. pending' = [i \in 1..n |-> Activate(id)[i]]
  BY <1>2 DEF Activate
<1> HIDE DEF n
<1>5. pending' \in Seq(Good) /\ DOMAIN pending' = 1..n /\ Len(pending') = n
  BY <1>2, <1>3, <1>4
<1>6. \A i \in DOMAIN pending : Copy(pending[i], pending'[i])
  BY <1>2, <1>3, <1>4
<1>7. ListOK(pending)'
  BY <1>1, <1>2, <1>5, <1>6 DEF ListOK, Copy
<1>8. OrdersOK' /\ ListOK(still)' /\ DOMAIN orders \subseteq DOMAIN orders'
  BY <1>1, SameOrders, SameStill
<1> QED  BY <1>2, <1>5, <1>6, <1>7, <1>8 DEF ListsStep, n

LEMMA SettleOrderKeeps ==
  ASSUME IInv, NEW o, SettleOrder(o)
  PROVE  IInv'
<1>1. phase \in References /\ o = pending[cursor]
  BY DEF SettleOrder, References
<1>2. phase \notin Resting /\ cursor \in 1..last /\ o \in Good
  BY <1>1, AtReference
<1>3. filledOco' \subseteq Nat
  <2>1. o.oco \in Nat /\ filledOco \subseteq Nat
    BY <1>2 DEF Good, OrderRecords, IInv, ControlOK
  <2> QED  BY <2>1 DEF SettleOrder
<1>4. notified' \in BOOLEAN /\ LedgerInv' /\ UNCHANGED <<orders, still, bar>> /\ InLoop
  BY LedgerUnchanged DEF SettleOrder, InLoop, IInv, ControlOK
<1>5. "children" \in Phases /\ (SameOrder("children") \/ NextOrder)
  BY DEF Phases, SettleOrder
<1>6. ControlStep
  BY <1>2, <1>3, <1>4, <1>5, ControlNext, ControlSame
<1>7. pending' = Activate(o.id) \/ UNCHANGED pending
  BY DEF SettleOrder
<1>8. ListsStep
  BY <1>4, <1>7, ActivateLists, SameLists
<1> QED  BY <1>4, <1>6, <1>8, LoopStep

LEMMA CancelChildKeeps ==
  ASSUME IInv, NEW i \in DOMAIN pending, CancelChild(i)
  PROVE  IInv'
<1> DEFINE p == Move(pending[i], "Canceled")
<1>1. phase \in References
  BY DEF CancelChild, References
<1>2. phase \notin Resting /\ cursor \in 1..last
  BY <1>1, AtReference
<1>3. filledOco' \subseteq Nat /\ notified' \in BOOLEAN /\ LedgerInv'
      /\ UNCHANGED <<still, bar>>
  BY NotifyType, LedgerUnchanged DEF CancelChild, InLoop, IInv, ControlOK
<1>4. "children" \in Phases
  BY DEF Phases
<1>5. ControlStep
  BY <1>2, <1>3, <1>4, ControlSame DEF CancelChild
<1>6. pending[i] \in Good
  BY DEF IInv, ListOK
<1>7. p \in Good /\ Copy(pending[i], p)
  BY <1>6, MoveKeepsGood DEF Failing, OrderStatuses
<1>8. pending' = [pending EXCEPT ![i] = p] /\ Sync(pending'[i])
  BY DEF CancelChild
<1> HIDE DEF p
<1>9. ListsStep
  BY <1>3, <1>7, <1>8, WorkSync
<1> QED  BY <1>3, <1>5, <1>9, LoopStep

LEMMA ChildrenDoneKeeps ==
  ASSUME IInv, ChildrenDone
  PROVE  IInv'
<1>1. phase \notin Resting
  BY DEF ChildrenDone, Resting
<1>2. filledOco' \subseteq Nat /\ notified' \in BOOLEAN /\ LedgerInv'
  BY LedgerUnchanged DEF ChildrenDone, IInv, ControlOK
<1>3. ControlStep
  BY <1>1, <1>2, ControlNext DEF ChildrenDone
<1>4. ListsStep
  BY SameLists DEF ChildrenDone, InLoop
<1> QED  BY <1>2, <1>3, <1>4, LoopStep

LEMMA LoopEndsKeeps ==
  ASSUME IInv, LoopEnds
  PROVE  IInv'
<1>1. phase \notin Resting /\ "sweep" \in Phases /\ "sweep" \notin References
  BY DEF LoopEnds, Resting, Phases, References
<1>2. filledOco' \subseteq Nat /\ notified' \in BOOLEAN /\ LedgerInv'
  BY LedgerUnchanged DEF LoopEnds, IInv, ControlOK
<1>3. ControlStep
  BY <1>1, <1>2, ControlSame DEF LoopEnds
<1>4. ListsStep
  BY SameLists DEF LoopEnds, InLoop
<1> QED  BY <1>2, <1>3, <1>4, LoopStep

LEMMA SweepCancelKeeps ==
  ASSUME IInv, NEW i \in DOMAIN still, SweepCancel(i)
  PROVE  IInv'
<1> DEFINE p == Move(still[i], "Canceled")
<1>1. phase \notin Resting /\ "sweep" \in Phases /\ "sweep" \notin References
  BY DEF SweepCancel, Resting, Phases, References
<1>2. filledOco' \subseteq Nat /\ notified' \in BOOLEAN /\ LedgerInv'
      /\ UNCHANGED <<pending, bar>>
  BY NotifyType, LedgerUnchanged DEF SweepCancel, InLoop, IInv, ControlOK
<1>3. ControlStep
  BY <1>1, <1>2, ControlSame DEF SweepCancel
<1>4. still \in Seq(Good) /\ still[i] \in Good /\ OrdersOK /\ ListOK(pending) /\ ListOK(still)
  BY DEF IInv, ListOK
<1>5. p \in Good /\ Copy(still[i], p)
  BY <1>4, MoveKeepsGood DEF Failing, OrderStatuses
<1>6. still' = [still EXCEPT ![i] = p] /\ Sync(still'[i])
  BY DEF SweepCancel
<1> HIDE DEF p
<1>7. /\ still' \in Seq(Good) /\ DOMAIN still' = DOMAIN still /\ still'[i] = p
      /\ \A j \in DOMAIN still : still'[j] = IF j = i THEN p ELSE still[j]
  BY <1>4, <1>5, <1>6
<1>8. p.id \in DOMAIN orders
  BY <1>4, <1>5 DEF ListOK, Copy
<1>9. OrdersOK' /\ DOMAIN orders' = DOMAIN orders
  BY <1>4, <1>5, <1>6, <1>7, <1>8, SyncKeepsOrders
<1>10. ListOK(still)'
  BY <1>2, <1>4, <1>5, <1>7, <1>9 DEF ListOK, Copy
<1>11. ListsStep
  BY <1>2, <1>4, <1>9, <1>10, SamePending DEF ListsStep
<1> QED  BY <1>2, <1>3, <1>11, LoopStep

\* What std::erase_if leaves is a list of the same orders.
LEMMA ErasesKeepsList ==
  ASSUME NEW s \in Seq(Good), NEW t, Erases(s, t)
  PROVE  t \in Seq(Good) /\ \A k \in DOMAIN t : \E i \in DOMAIN s : t[k] = s[i]
<1> DEFINE A == {i \in DOMAIN s : Alive(s[i])}
           n == Cardinality(A)
<1>1. DOMAIN s = 1..Len(s) /\ Len(s) \in Nat
  BY SeqIndices
<1>2. IsFiniteSet(DOMAIN s)
  BY <1>1, FS_Interval
<1>3. IsFiniteSet(A)
  BY <1>2, FS_Subset
<1>4. n \in Nat
  BY <1>3, FS_CardinalityType
<1>5. PICK f \in [1..n -> DOMAIN s] : t = [i \in 1..n |-> s[f[i]]]
  BY DEF Erases
<1> HIDE DEF A, n
<1>6. \A k \in 1..n : f[k] \in DOMAIN s /\ s[f[k]] \in Good
  BY <1>5
<1>7. t \in Seq(Good) /\ DOMAIN t = 1..n
  BY <1>4, <1>5, <1>6
<1> QED  BY <1>5, <1>6, <1>7

LEMMA FinishBarKeeps ==
  ASSUME IInv, FinishBar
  PROVE  IInv'
<1>1. /\ UNCHANGED <<orders, notified, bar, bars, nextOco, ledgerVars>>
      /\ still' = << >> /\ filledOco' = {} /\ phase' = "strategy" /\ cursor' = 1 /\ last' = 0
  BY DEF FinishBar
<1>2. still \in Seq(Good)
  BY DEF IInv, ListOK
<1>3. pending' = still \/ Erases(still, pending')
  BY DEF FinishBar
<1>4. /\ pending' \in Seq(Good)
      /\ \A k \in DOMAIN pending' : \E i \in DOMAIN still : pending'[k] = still[i]
  BY <1>2, <1>3, ErasesKeepsList
<1>5. ListOK(pending)'
  BY <1>1, <1>4 DEF IInv, ListOK
<1>6. OrdersOK' /\ ListOK(still)' /\ LedgerInv'
  BY <1>1, SameOrders, LedgerUnchanged DEF IInv, ListOK
<1>7. Len(pending') \in Nat
  BY <1>4, SeqIndices
<1>8. ControlOK'
  BY <1>1, <1>7 DEF IInv, ControlOK, Phases, References
<1>9. VisitsOld' /\ TriedOK'
  BY <1>1 DEF VisitsOld, TriedOK, Resting
<1> QED  BY <1>5, <1>6, <1>8, <1>9 DEF IInv
-----------------------------------------------------------------------------
(* notify_order *)

LEMMA CallbackFrame ==
  ASSUME IInv, InCallback
  PROVE  /\ notified' \in BOOLEAN /\ nextOco' \in Nat
         /\ UNCHANGED <<filledOco, loopVars, ledgerVars, still, bar>>
BY DEF InCallback, Quiet, loopVars, IInv, ControlOK

LEMMA CallbackReturnKeeps ==
  ASSUME IInv, CallbackReturn
  PROVE  IInv'
<1>1. ListsStep
  BY CallbackFrame, SameLists DEF CallbackReturn
<1> QED  BY <1>1, CallbackFrame, CalmStep DEF CallbackReturn

LEMMA CallbackCancelKeeps ==
  ASSUME IInv, NEW id, CallbackCancel(id)
  PROVE  IInv'
<1>1. ListsStep
  BY CallbackFrame, CancelPendingLists DEF CallbackCancel
<1> QED  BY <1>1, CallbackFrame, CalmStep DEF CallbackCancel

LEMMA CallbackSubmitKeeps ==
  ASSUME IInv, NoEmptyOrders, NEW r \in Requests, CallbackSubmit(r)
  PROVE  IInv'
<1>1. r \in RequestRecords /\ r.size # 0
  BY BrokerAssumption DEF NoEmptyOrders
<1>2. ListsStep
  BY <1>1, CallbackFrame, OneRequest DEF CallbackSubmit
<1> QED  BY <1>2, CallbackFrame, CalmStep DEF CallbackSubmit

LEMMA CallbackReallocatesKeeps ==
  ASSUME IInv, CallbackReallocates
  PROVE  IInv'
<1>1. ListsStep /\ LedgerInv'
  BY CallbackFrame, SameLists, LedgerUnchanged DEF CallbackReallocates, IInv
<1>2. ControlStep
  BY CallbackFrame
     DEF CallbackReallocates, ControlStep, loopVars, IInv, ControlOK, Phases, Resting, References
<1> QED  BY <1>1, <1>2, LoopStep
-----------------------------------------------------------------------------
(* The invariant *)

LEMMA InitKeeps == Init => IInv
<1> SUFFICES ASSUME Init PROVE IInv
  OBVIOUS
<1>1. LedgerInv
  BY LedgerInitInv DEF Init
<1>2. OrdersOK /\ ListOK(pending) /\ ListOK(still)
  BY DEF Init, OrdersOK, ListOK
<1>3. ControlOK
  <2>1. bars \in [Feeds -> Bars \union {None}]
    BY DEF Init
  <2>2. last = 0 /\ Len(pending) = 0 /\ bar = 0 /\ nextOco = 1 /\ cursor = 1
        /\ phase = "strategy" /\ notified = FALSE /\ filledOco = {}
    BY DEF Init
  <2>3. last \in 0..Len(pending)
    BY <2>2
  <2>4. filledOco \subseteq Nat /\ notified \in BOOLEAN
    BY <2>2
  <2>5. phase \in Phases /\ phase \notin References
    BY <2>2 DEF Phases, References
  <2>6. bar \in Nat /\ nextOco \in Nat /\ cursor \in Nat \ {0}
    BY <2>2
  <2> QED  BY <2>1, <2>3, <2>4, <2>5, <2>6 DEF ControlOK
<1>4. VisitsOld /\ TriedOK
  BY DEF Init, VisitsOld, TriedOK, Resting
<1> QED  BY <1>1, <1>2, <1>3, <1>4 DEF IInv

LEMMA StutterKeeps == IInv /\ UNCHANGED vars => IInv'
BY LedgerUnchanged
   DEF IInv, vars, loopVars, OrdersOK, ListOK, ControlOK, VisitsOld, TriedOK, Tried, HasData,
       PastDue

LEMMA OneOrderKeeps ==
  ASSUME IInv, NEW o, OneOrder(o)
  PROVE  IInv'
BY SkipDeadKeeps, HoldChildKeeps, RejectFeedKeeps, KeepUntilDataKeeps, ExpireKeeps,
   AdmitKeeps, RejectUnpricedKeeps, KeepUnfilledKeeps, MarginCallKeeps, FillOrderKeeps,
   SettleOrderKeeps DEF OneOrder

LEMMA NextKeeps ==
  ASSUME IInv, NoEmptyOrders, Next
  PROVE  IInv'
<1>1. CASE Strategy
  BY <1>1, SubmitKeeps, ClosePositionKeeps, PlaceBracketKeeps, CancelKeeps,
     NextOcoGroupKeeps, StartBarKeeps DEF Strategy
<1>2. CASE ProcessOrders
  BY <1>2, OneOrderKeeps, CancelChildKeeps, AcceptOrderKeeps, ChildrenDoneKeeps,
     LoopEndsKeeps, SweepCancelKeeps, FinishBarKeeps DEF ProcessOrders
<1>3. CASE Callback
  BY <1>3, CallbackReturnKeeps, CallbackCancelKeeps, CallbackSubmitKeeps,
     CallbackReallocatesKeeps DEF Callback
<1> QED  BY <1>1, <1>2, <1>3 DEF Next

\* The invariant gives every promise: the orders are good, and so in time and
\* within their limits; good orders are typed.
LEMMA InvGivesPromises ==
  ASSUME IInv
  PROVE  TypeOK /\ TradesMatchPositions /\ FillsInTime /\ LimitsRespected
<1>1. \A list : list \in Seq(Good) => list \in Seq(OrderRecords)
  BY DEF Good
<1>2. TypeOK
  BY <1>1 DEF IInv, OrdersOK, ListOK, ControlOK, LedgerInv, TypeOK, References
<1>3. FillsInTime /\ LimitsRespected
  BY DEF IInv, OrdersOK, Good, FillsInTime, LimitsRespected
<1> QED  BY <1>2, <1>3 DEF IInv, LedgerInv

LEMMA InvHolds ==
  ASSUME NoEmptyOrders
  PROVE  Spec => []IInv
<1>1. Init => IInv
  BY InitKeeps
<1>2. IInv /\ [Next]_vars => IInv'
  BY NextKeeps, StutterKeeps
<1> QED  BY <1>1, <1>2, PTL DEF Spec

\* As long as no order has size 0: every reachable state of process_orders,
\* of the strategy between bars and of the callbacks is well typed, the id of
\* an order is its place in all_orders_, and the loop holds a reference only
\* to an order it has.
THEOREM BrokerTyped == ASSUME NoEmptyOrders PROVE Spec => []TypeOK
<1>1. IInv => TypeOK
  BY InvGivesPromises
<1> QED  BY <1>1, InvHolds, PTL

\* Exactly one trade is open for each open position, with its size and its
\* price (update_trades), whatever orders and callbacks led there.
THEOREM BrokerKeepsLedger == ASSUME NoEmptyOrders PROVE Spec => []TradesMatchPositions
<1>1. IInv => TradesMatchPositions
  BY InvGivesPromises
<1> QED  BY <1>1, InvHolds, PTL

\* No order fills in the bar it was submitted in or after it has expired.
THEOREM BrokerFillsInTime == ASSUME NoEmptyOrders PROVE Spec => []FillsInTime
<1>1. IInv => FillsInTime
  BY InvGivesPromises
<1> QED  BY <1>1, InvHolds, PTL

\* With slip_limit off, no order fills beyond its limit (try_fill_order).
THEOREM BrokerRespectsLimits == ASSUME NoEmptyOrders PROVE Spec => []LimitsRespected
<1>1. IInv => LimitsRespected
  BY InvGivesPromises
<1> QED  BY <1>1, InvHolds, PTL
-----------------------------------------------------------------------------
(* Part 2: the copies of an order *)

\* All three lists are in the order of submission.
Increasing(list) == \A i, j \in DOMAIN list : i < j => list[i].id < list[j].id

Ordered == Increasing(pending) /\ Increasing(still)

\* What has been kept for the next bar lies behind the cursor.
Behind ==
  /\ phase = "strategy" => still = << >>
  /\ \A k \in DOMAIN still :
       \E j \in DOMAIN pending : j < cursor /\ pending[j].id = still[k].id

\* Both copies know of a fill, and what is kept or about to be tried is not
\* filled.
FillsAgree ==
  /\ \A i \in DOMAIN pending :
       pending[i].status = "Completed" <=> orders[pending[i].id].status = "Completed"
  /\ \A k \in DOMAIN still :
       still[k].status # "Completed" /\ orders[still[k].id].status # "Completed"
  /\ phase \in {"submitted", "fill"} => pending[cursor].status # "Completed"

\* A leg is transmitted only once its main order has filled.
Cleared(o) == o.parent # 0 /\ o.transmit => ParentFilled(o)

\* No leg fills before its main order has.
FillsLinked ==
  \A id \in DOMAIN orders : orders[id].status = "Completed" =>
    /\ orders[id].execBar <= bar
    /\ orders[id].parent # 0 =>
         /\ ParentFilled(orders[id])
         /\ orders[orders[id].parent].execBar <= orders[id].execBar

LinksOK ==
  /\ \A i \in DOMAIN pending : Cleared(pending[i])
  /\ \A k \in DOMAIN still : Cleared(still[k])
  /\ phase \in {"submitted", "fill"} /\ pending[cursor].parent # 0 => pending[cursor].transmit
  /\ FillsLinked

Tight(o) ==
  IF o.side = "Sell" THEN o.trailStop >= TrailTarget(o, bars[o.feed])
                     ELSE o.trailStop <= TrailTarget(o, bars[o.feed])

Follows(o) == IsTrail(o) /\ Alive(o) /\ o.born < bar /\ HasData(o.feed) => Tight(o)

TrailsOK ==
  /\ phase = "strategy" => \A i \in DOMAIN pending : Follows(pending[i])
  /\ \A k \in DOMAIN still : Follows(still[k])

BInv == IInv /\ Ordered /\ Behind /\ FillsAgree /\ LinksOK /\ TrailsOK

\* A fill is never taken back.
Frozen ==
  /\ DOMAIN orders \subseteq DOMAIN orders'
  /\ \A id \in DOMAIN orders : orders[id].status = "Completed" => orders'[id] = orders[id]

\* What every step does.
BookStep == Frozen /\ Ordered' /\ Behind' /\ FillsAgree' /\ LinksOK' /\ TrailsOK'
-----------------------------------------------------------------------------
(* The steps, by what they do to the copies *)

\* The pending order at i becomes p and is synced.
Touch(i, p) ==
  /\ i \in DOMAIN pending /\ p \in Good /\ Copy(pending[i], p)
  /\ pending' = [pending EXCEPT ![i] = p] /\ Sync(p)
  /\ UNCHANGED <<still, filledOco, bar, bars, last>>
  /\ p.parent # 0 /\ p.transmit => pending[i].transmit \/ ParentFilled(pending[i])

\* cancel_order and cancel_bracket_children.
Withdraw(i, p) ==
  /\ Touch(i, p)
  /\ Alive(pending[i]) /\ p.status = "Canceled" /\ p.transmit = pending[i].transmit
  /\ UNCHANGED <<phase, cursor>>
  /\ phase = "strategy" \/ notified \/ (phase = "children" /\ AliveChild(i))

\* The order at the cursor is moved to the status s, unless a callback has
\* ended it already.
DecideAs(p, s) ==
  /\ cursor <= last /\ Touch(cursor, p)
  /\ p.status = IF Alive(pending[cursor]) THEN s ELSE pending[cursor].status

Decide(p) ==
  \/ /\ phase = "order" /\ Alive(pending[cursor]) /\ phase' = "order" /\ cursor' = cursor + 1
     /\ \/ pending[cursor].feed \notin Feeds /\ DecideAs(p, "Rejected")
        \/ DecideAs(p, "Expired")
  \/ /\ phase = "order" /\ pending[cursor].status = "Created"
     /\ DecideAs(p, "Submitted")
     /\ phase' = "submitted" /\ cursor' = cursor /\ (p.parent # 0 => p.transmit)
  \/ /\ phase = "submitted" /\ DecideAs(p, "Accepted") /\ phase' = "fill" /\ cursor' = cursor
     /\ p.transmit = pending[cursor].transmit
  \/ /\ phase = "fill" /\ phase' = "filled" /\ cursor' = cursor
     /\ \/ DecideAs(p, "Rejected") \/ DecideAs(p, "Margin")
        \/ DecideAs(p, "Completed") /\ (Alive(pending[cursor]) => p.execBar = bar)

\* The order at the cursor, now p, is kept for the next bar.
KeepAs(p) ==
  /\ phase \in {"order", "fill"} /\ cursor <= last
  /\ p \in Good /\ Copy(pending[cursor], p) /\ p.status = pending[cursor].status
  /\ phase = "order" => Alive(p)
  /\ pending' = [pending EXCEPT ![cursor] = p] /\ Keep(p)
  /\ phase' = "order" /\ cursor' = cursor + 1
  /\ UNCHANGED <<filledOco, bar, bars, last>>
  /\ p.parent # 0 /\ p.transmit =>
       pending[cursor].transmit \/ ParentFilled(pending[cursor])
  /\ \/ Held(p) /\ p = pending[cursor] /\ UNCHANGED orders
     \/ p.feed \in Feeds /\ ~HasData(p.feed) /\ p = Released(pending[cursor]) /\ UNCHANGED orders
     \/ /\ phase = "fill" /\ ~LacksStop(pending[cursor]) /\ Price(pending[cursor]) = None
        /\ IsTrail(p) => Tight(p)
        /\ Sync(p) \/ (p = pending[cursor] /\ UNCHANGED orders)

\* The orders stay as they are, but for legs that are transmitted.
Quieten ==
  /\ pending' \in Seq(Good) /\ DOMAIN pending' = DOMAIN pending
  /\ \A i \in DOMAIN pending :
       \/ pending'[i] = pending[i]
       \/ /\ pending'[i] = [pending[i] EXCEPT !.transmit = TRUE]
          /\ Copy(pending[i], pending'[i]) /\ pending'[i].status = pending[i].status
          /\ pending[i].parent # 0 =>
               \/ pending[i].transmit \/ ParentFilled(pending[i])
               \/ /\ cursor \in DOMAIN pending /\ pending[i].parent = pending[cursor].id
                  /\ pending[cursor].status = "Completed"
  /\ UNCHANGED <<orders, still, bar, bars>>
  /\ cursor' \in Nat /\ cursor <= cursor' /\ (phase' = "strategy" => phase = "strategy" /\ UNCHANGED pending)
  /\ phase' \in {"submitted", "fill"} =>
       /\ cursor' = cursor
       /\ \/ phase = phase' /\ UNCHANGED pending
          \/ /\ cursor \in DOMAIN pending /\ Alive(pending[cursor])
             /\ pending'[cursor].parent # 0 => pending'[cursor].transmit
-----------------------------------------------------------------------------
(* What the lists look like after a step *)

LEMMA GoodFields ==
  \A o \in Good : /\ o.id \in Nat /\ o.parent \in Nat /\ o.born \in Nat
                  /\ o.status = "Completed" => o.execBar \in Nat
                  /\ o.parent # 0 => o.parent < o.id /\ ~IsTrail(o)
BY DEF Good, OrderRecords, InTime, Linked, IsTrail

LEMMA ListFacts ==
  ASSUME IInv
  PROVE  /\ orders \in Seq(Good) /\ pending \in Seq(Good) /\ still \in Seq(Good)
         /\ DOMAIN orders = 1..Len(orders) /\ DOMAIN pending = 1..Len(pending)
         /\ DOMAIN still = 1..Len(still)
         /\ Len(orders) \in Nat /\ Len(pending) \in Nat /\ Len(still) \in Nat
         /\ \A id \in DOMAIN orders : orders[id] \in Good /\ orders[id].id = id
         /\ \A i \in DOMAIN pending : pending[i] \in Good /\ pending[i].id \in DOMAIN orders
         /\ \A k \in DOMAIN still : still[k] \in Good /\ still[k].id \in DOMAIN orders
         /\ cursor \in Nat \ {0} /\ bar \in Nat /\ last \in 0..Len(pending)
BY SeqIndices DEF IInv, OrdersOK, ListOK, ControlOK

LEMMA TouchFacts ==
  ASSUME IInv, NEW i, NEW p, Touch(i, p)
  PROVE  /\ i \in DOMAIN pending /\ p \in Good /\ p.id = pending[i].id /\ p.id \in DOMAIN orders
         /\ DOMAIN pending' = DOMAIN pending /\ pending'[i] = p
         /\ \A j \in DOMAIN pending : j # i => pending'[j] = pending[j]
         /\ \A j \in DOMAIN pending : Copy(pending[j], pending'[j])
         /\ DOMAIN orders' = DOMAIN orders /\ orders'[p.id] = p
         /\ \A id \in DOMAIN orders : id # p.id => orders'[id] = orders[id]
<1>1. i \in DOMAIN pending /\ p \in Good /\ p.id = pending[i].id /\ p.id \in DOMAIN orders
  BY ListFacts DEF Touch, Copy
<1>2. /\ pending' = [pending EXCEPT ![i] = p]
      /\ orders' = [orders EXCEPT ![p.id] = p] /\ Copy(pending[i], p)
  BY DEF Touch, Sync
<1>3. /\ DOMAIN pending' = DOMAIN pending /\ pending'[i] = p
      /\ \A j \in DOMAIN pending : j # i => pending'[j] = pending[j]
  BY <1>1, <1>2
<1>4. /\ DOMAIN orders' = DOMAIN orders /\ orders'[p.id] = p
      /\ \A id \in DOMAIN orders : id # p.id => orders'[id] = orders[id]
  BY <1>1, <1>2
<1>5. \A j \in DOMAIN pending : Copy(pending[j], pending'[j])
  BY <1>2, <1>3, CopyRefl
<1> QED  BY <1>1, <1>3, <1>4, <1>5

\* An id is in pending_orders_ once, and an earlier order comes earlier.
LEMMA PendingOnce ==
  ASSUME BInv
  PROVE  /\ \A i, j \in DOMAIN pending : pending[i].id = pending[j].id => i = j
         /\ \A i, j \in DOMAIN pending : pending[i].id < pending[j].id => i < j
<1> SUFFICES ASSUME NEW i \in DOMAIN pending, NEW j \in DOMAIN pending
             PROVE  /\ pending[i].id = pending[j].id => i = j
                    /\ pending[i].id < pending[j].id => i < j
  OBVIOUS
<1>1. i \in Nat /\ j \in Nat /\ pending[i].id \in Nat /\ pending[j].id \in Nat
  BY ListFacts, GoodFields DEF BInv
<1>2. (i < j => pending[i].id < pending[j].id) /\ (j < i => pending[j].id < pending[i].id)
  BY DEF BInv, Ordered, Increasing
<1> QED  BY <1>1, <1>2

\* What is still to be worked on has not been kept.
LEMMA AheadNotKept ==
  ASSUME BInv, NEW i \in DOMAIN pending, cursor <= i, NEW k \in DOMAIN still
  PROVE  still[k].id # pending[i].id
<1>1. PICK j \in DOMAIN pending : j < cursor /\ pending[j].id = still[k].id
  BY DEF BInv, Behind
<1>2. cursor \in Nat /\ i \in Nat /\ j \in Nat /\ i # j
  BY <1>1, ListFacts DEF BInv
<1> QED  BY <1>1, <1>2, PendingOnce

\* A list whose orders keep their ids stays in order.
LEMMA SameIdsOrdered ==
  ASSUME Increasing(pending), DOMAIN pending' = DOMAIN pending,
         \A i \in DOMAIN pending : pending'[i].id = pending[i].id
  PROVE  Increasing(pending)'
BY DEF Increasing

LEMMA FrozenParents ==
  ASSUME Frozen
  PROVE  \A id : id \in DOMAIN orders /\ orders[id].status = "Completed"
                  => /\ id \in DOMAIN orders' /\ orders'[id].status = "Completed"
                     /\ orders'[id].execBar = orders[id].execBar
BY DEF Frozen
\* A step in which nothing fills.
LEMMA NoNewFill ==
  ASSUME BInv, Frozen, bar' \in Nat, bar <= bar',
         \A id \in DOMAIN orders' : orders'[id].status = "Completed"
                                    => id \in DOMAIN orders /\ orders'[id] = orders[id]
  PROVE  FillsLinked'
<1> SUFFICES ASSUME NEW id \in DOMAIN orders', orders'[id].status = "Completed"
             PROVE  /\ orders'[id].execBar <= bar'
                    /\ orders'[id].parent # 0 =>
                         /\ orders'[id].parent \in DOMAIN orders'
                         /\ orders'[orders'[id].parent].status = "Completed"
                         /\ orders'[orders'[id].parent].execBar <= orders'[id].execBar
  BY DEF FillsLinked, ParentFilled
<1>1. id \in DOMAIN orders /\ orders'[id] = orders[id] /\ orders[id].status = "Completed"
  OBVIOUS
<1>2. /\ orders[id].execBar <= bar
      /\ orders[id].parent # 0 =>
           /\ orders[id].parent \in DOMAIN orders
           /\ orders[orders[id].parent].status = "Completed"
           /\ orders[orders[id].parent].execBar <= orders[id].execBar
  BY <1>1 DEF BInv, LinksOK, FillsLinked, ParentFilled
<1>3. orders[id].execBar \in Nat /\ bar \in Nat
  BY <1>1, ListFacts, GoodFields DEF BInv
<1> QED  BY <1>1, <1>2, <1>3, FrozenParents
-----------------------------------------------------------------------------
(* A step that touches one order *)

LEMMA TouchKeeps ==
  ASSUME BInv, NEW i, NEW p, Touch(i, p), pending[i].status # "Completed",
         cursor' \in Nat, cursor <= cursor',
         p.status = "Completed" =>
           phase = "fill" /\ phase' = "filled" /\ i = cursor /\ p.execBar = bar,
         phase' = "strategy" => phase = "strategy" /\ ~Alive(p),
         phase' \in {"submitted", "fill"} =>
           /\ cursor' = cursor /\ cursor \in DOMAIN pending
           /\ i # cursor => phase \in {"submitted", "fill"}
           /\ i = cursor /\ p.parent # 0 => p.transmit
  PROVE  BookStep
<1>1. /\ i \in DOMAIN pending /\ p \in Good /\ p.id = pending[i].id /\ p.id \in DOMAIN orders
      /\ DOMAIN pending' = DOMAIN pending /\ pending'[i] = p
      /\ \A j \in DOMAIN pending : j # i => pending'[j] = pending[j]
      /\ DOMAIN orders' = DOMAIN orders /\ orders'[p.id] = p
      /\ \A id \in DOMAIN orders : id # p.id => orders'[id] = orders[id]
  BY TouchFacts DEF BInv
<1>2. UNCHANGED <<still, bar, bars>>
  BY DEF Touch
<1>3. \A j \in DOMAIN pending : pending'[j].id = pending[j].id
  BY <1>1
<1>4. orders[p.id].status # "Completed"
  BY <1>1 DEF BInv, FillsAgree
<1>5. Frozen
  BY <1>1, <1>4 DEF Frozen
<1>6. Ordered'
  BY <1>1, <1>2, <1>3, SameIdsOrdered DEF BInv, Ordered, Increasing
<1>7. Behind'
  <2>1. phase' = "strategy" => still' = << >>
    BY <1>2 DEF BInv, Behind
  <2>2. ASSUME NEW k \in DOMAIN still
        PROVE  \E j \in DOMAIN pending : j < cursor' /\ pending'[j].id = still[k].id
    <3>1. PICK j \in DOMAIN pending : j < cursor /\ pending[j].id = still[k].id
      BY DEF BInv, Behind
    <3>2. j \in Nat /\ cursor \in Nat
      BY ListFacts DEF BInv
    <3> QED  BY <1>3, <3>1, <3>2
  <2> QED  BY <1>1, <1>2, <2>1, <2>2 DEF Behind
<1>8. FillsAgree'
  <2>1. ASSUME NEW j \in DOMAIN pending
        PROVE  pending'[j].status = "Completed" <=> orders'[pending'[j].id].status = "Completed"
    <3>1. CASE j = i
      BY <1>1, <3>1
    <3>2. CASE j # i
      <4>1. pending[j].id # p.id /\ pending[j].id \in DOMAIN orders
        BY <1>1, <3>2, PendingOnce, ListFacts DEF BInv
      <4> QED  BY <1>1, <3>2, <4>1 DEF BInv, FillsAgree
    <3> QED  BY <3>1, <3>2
  <2>2. ASSUME NEW k \in DOMAIN still
        PROVE  still[k].status # "Completed" /\ orders'[still[k].id].status # "Completed"
    <3>1. still[k].status # "Completed" /\ orders[still[k].id].status # "Completed"
          /\ still[k].id \in DOMAIN orders
      BY ListFacts DEF BInv, FillsAgree
    <3>2. CASE still[k].id = p.id
      <4>1. cursor \in Nat
        BY ListFacts DEF BInv
      <4>2. i # cursor
        BY <1>1, <3>2, <4>1, AheadNotKept
      <4> QED  BY <1>1, <3>1, <3>2, <4>2
    <3>3. CASE still[k].id # p.id
      BY <1>1, <3>1, <3>3
    <3> QED  BY <3>2, <3>3
  <2>3. phase' \in {"submitted", "fill"} => pending'[cursor'].status # "Completed"
    BY <1>1 DEF BInv, FillsAgree
  <2> QED  BY <1>1, <1>2, <2>1, <2>2, <2>3 DEF FillsAgree
<1>9. LinksOK'
  <2>1. Cleared(p)
    <3>1. ASSUME p.parent # 0, p.transmit PROVE ParentFilled(p)
      <4>1. pending[i].parent = p.parent
        BY DEF Touch, Copy
      <4>2. Cleared(pending[i])
        BY <1>1 DEF BInv, LinksOK
      <4> QED  BY <3>1, <4>1, <4>2 DEF Touch, Cleared, ParentFilled
    <3> QED  BY <3>1 DEF Cleared
  <2>2. \A o : Cleared(o) =>
          (o.parent # 0 /\ o.transmit => /\ o.parent \in DOMAIN orders'
                                        /\ orders'[o.parent].status = "Completed")
    BY <1>5, FrozenParents DEF Cleared, ParentFilled
  <2>3. \A j \in DOMAIN pending' : Cleared(pending[j])'
    BY <1>1, <2>1, <2>2 DEF BInv, LinksOK, Cleared, ParentFilled
  <2>4. \A k \in DOMAIN still' : Cleared(still[k])'
    BY <1>2, <2>2 DEF BInv, LinksOK, Cleared, ParentFilled
  <2>5. phase' \in {"submitted", "fill"} /\ pending'[cursor'].parent # 0
          => pending'[cursor'].transmit
    BY <1>1 DEF BInv, LinksOK
  <2>6. ASSUME NEW id \in DOMAIN orders, orders'[id].status = "Completed"
        PROVE  /\ orders'[id].execBar <= bar
               /\ orders'[id].parent # 0 =>
                    /\ orders'[id].parent \in DOMAIN orders'
                    /\ orders'[orders'[id].parent].status = "Completed"
                    /\ orders'[orders'[id].parent].execBar <= orders'[id].execBar
    <3>1. CASE id # p.id
      <4>1. orders'[id] = orders[id] /\ orders[id].status = "Completed"
        BY <1>1, <2>6, <3>1
      <4>2. /\ orders[id].execBar <= bar
            /\ orders[id].parent # 0 =>
                 /\ orders[id].parent \in DOMAIN orders
                 /\ orders[orders[id].parent].status = "Completed"
                 /\ orders[orders[id].parent].execBar <= orders[id].execBar
        BY <4>1 DEF BInv, LinksOK, FillsLinked, ParentFilled
      <4> QED  BY <1>5, <4>1, <4>2, FrozenParents
    <3>2. CASE id = p.id
      <4>1. orders'[id] = p /\ p.execBar = bar /\ phase = "fill" /\ i = cursor
        BY <1>1, <2>6, <3>2
      <4>2. bar \in Nat
        BY ListFacts DEF BInv
      <4>3. ASSUME p.parent # 0
            PROVE  /\ p.parent \in DOMAIN orders
                   /\ orders[p.parent].status = "Completed"
        <5>1. pending[i].parent = p.parent
          BY DEF Touch, Copy
        <5>2. pending[i].transmit
          BY <4>1, <4>3, <5>1 DEF BInv, LinksOK
        <5> QED  BY <1>1, <4>3, <5>1, <5>2 DEF BInv, LinksOK, Cleared, ParentFilled
      <4>4. ASSUME p.parent # 0 PROVE orders[p.parent].execBar <= bar
        BY <4>3, <4>4 DEF BInv, LinksOK, FillsLinked
      <4> QED  BY <1>5, <4>1, <4>2, <4>3, <4>4, FrozenParents
    <3> QED  BY <3>1, <3>2
  <2>7. FillsLinked'
    BY <1>1, <1>2, <2>6 DEF FillsLinked, ParentFilled
  <2> QED  BY <2>3, <2>4, <2>5, <2>7 DEF LinksOK
<1>10. TrailsOK'
  <2>1. phase' = "strategy" => \A j \in DOMAIN pending' : Follows(pending[j])'
    BY <1>1, <1>2 DEF BInv, TrailsOK, Follows, Tight, HasData, Alive
  <2>2. \A k \in DOMAIN still' : Follows(still[k])'
    BY <1>2 DEF BInv, TrailsOK, Follows, Tight, HasData
  <2> QED  BY <2>1, <2>2 DEF TrailsOK
<1> QED  BY <1>5, <1>6, <1>7, <1>8, <1>9, <1>10 DEF BookStep
-----------------------------------------------------------------------------
(* A step that keeps the order at the cursor for the next bar *)

LEMMA KeepFacts ==
  ASSUME IInv, NEW p, KeepAs(p)
  PROVE  /\ cursor \in DOMAIN pending /\ p \in Good /\ Copy(pending[cursor], p)
         /\ p.id \in DOMAIN orders /\ p.status = pending[cursor].status
         /\ DOMAIN pending' = DOMAIN pending /\ pending'[cursor] = p
         /\ \A j \in DOMAIN pending : j # cursor => pending'[j] = pending[j]
         /\ DOMAIN orders' = DOMAIN orders
         /\ \A id \in DOMAIN orders : id # p.id => orders'[id] = orders[id]
         /\ orders'[p.id] = p \/ orders'[p.id] = orders[p.id]
         /\ Len(still) \in Nat /\ DOMAIN still = 1..Len(still)
         /\ DOMAIN still' = 1..(Len(still) + 1) /\ still'[Len(still) + 1] = p
         /\ \A k \in DOMAIN still : still'[k] = still[k]
         /\ UNCHANGED <<bar, bars>>
<1>1. cursor \in DOMAIN pending
  BY ListFacts DEF KeepAs
<1>2. p \in Good /\ Copy(pending[cursor], p) /\ p.status = pending[cursor].status
      /\ pending' = [pending EXCEPT ![cursor] = p] /\ still' = Append(still, p)
      /\ UNCHANGED <<bar, bars>> /\ (Sync(p) \/ UNCHANGED orders)
  BY DEF KeepAs, Keep
<1>3. p.id \in DOMAIN orders
  BY <1>1, <1>2, ListFacts DEF Copy
<1>4. /\ DOMAIN pending' = DOMAIN pending /\ pending'[cursor] = p
      /\ \A j \in DOMAIN pending : j # cursor => pending'[j] = pending[j]
  BY <1>1, <1>2
<1>5. /\ DOMAIN orders' = DOMAIN orders
      /\ \A id \in DOMAIN orders : id # p.id => orders'[id] = orders[id]
      /\ orders'[p.id] = p \/ orders'[p.id] = orders[p.id]
  BY <1>2, <1>3 DEF Sync
<1>6. still \in Seq(Good) /\ Len(still) \in Nat /\ DOMAIN still = 1..Len(still)
  BY ListFacts
<1>7. /\ DOMAIN still' = 1..(Len(still) + 1) /\ still'[Len(still) + 1] = p
      /\ \A k \in DOMAIN still : still'[k] = still[k]
  BY <1>2, <1>6
<1> QED  BY <1>1, <1>2, <1>3, <1>4, <1>5, <1>6, <1>7

LEMMA KeepKeeps ==
  ASSUME BInv, NEW p, KeepAs(p)
  PROVE  BookStep
<1> DEFINE n == Len(still)
<1>1. /\ cursor \in DOMAIN pending /\ p \in Good /\ Copy(pending[cursor], p)
      /\ p.id \in DOMAIN orders /\ p.status = pending[cursor].status
      /\ DOMAIN pending' = DOMAIN pending /\ pending'[cursor] = p
      /\ \A j \in DOMAIN pending : j # cursor => pending'[j] = pending[j]
      /\ DOMAIN orders' = DOMAIN orders
      /\ \A id \in DOMAIN orders : id # p.id => orders'[id] = orders[id]
      /\ orders'[p.id] = p \/ orders'[p.id] = orders[p.id]
      /\ UNCHANGED <<bar, bars>>
  BY KeepFacts DEF BInv
<1>2. /\ n \in Nat /\ DOMAIN still = 1..n /\ DOMAIN still' = 1..(n + 1) /\ still'[n + 1] = p
      /\ \A k \in DOMAIN still : still'[k] = still[k]
  BY KeepFacts DEF BInv
<1> HIDE DEF n
<1>3. \A k \in DOMAIN still' : k \in DOMAIN still \/ k = n + 1
  BY <1>2
<1>4. /\ p.id = pending[cursor].id /\ p.parent = pending[cursor].parent
      /\ phase' = "order" /\ cursor' = cursor + 1
      /\ p.parent # 0 /\ p.transmit => pending[cursor].transmit \/ ParentFilled(pending[cursor])
  BY <1>1 DEF KeepAs, Copy
<1>5. p.status # "Completed" /\ orders[p.id].status # "Completed"
      /\ orders'[p.id].status # "Completed"
  <2>1. pending[cursor].status # "Completed"
    BY <1>1 DEF KeepAs, BInv, FillsAgree, Alive, AliveStatuses
  <2> QED  BY <1>1, <1>4, <2>1 DEF BInv, FillsAgree
<1>6. Frozen
  BY <1>1, <1>5 DEF Frozen
<1>7. \A j \in DOMAIN pending : pending'[j].id = pending[j].id
  BY <1>1, <1>4
<1>8. Ordered'
  <2>1. Increasing(pending)'
    BY <1>1, <1>7, SameIdsOrdered DEF BInv, Ordered
  <2>2. ASSUME NEW k \in DOMAIN still PROVE still[k].id < p.id
    <3>1. PICK j \in DOMAIN pending : j < cursor /\ pending[j].id = still[k].id
      BY DEF BInv, Behind
    <3> QED  BY <1>1, <1>4, <3>1 DEF BInv, Ordered, Increasing
  <2>3. ASSUME NEW i \in DOMAIN still', NEW j \in DOMAIN still', i < j
        PROVE  still'[i].id < still'[j].id
    <3>1. i \in DOMAIN still
      BY <1>2, <2>3
    <3>2. CASE j \in DOMAIN still
      BY <1>2, <2>3, <3>1, <3>2 DEF BInv, Ordered, Increasing
    <3>3. CASE j = n + 1
      BY <1>2, <2>2, <3>1, <3>3
    <3> QED  BY <1>3, <3>2, <3>3
  <2> QED  BY <2>1, <2>3 DEF Ordered, Increasing
<1>9. Behind'
  <2>1. cursor \in Nat
    BY ListFacts DEF BInv
  <2>2. ASSUME NEW k \in DOMAIN still'
        PROVE  \E j \in DOMAIN pending : j < cursor' /\ pending'[j].id = still'[k].id
    <3>1. CASE k \in DOMAIN still
      <4>1. PICK j \in DOMAIN pending : j < cursor /\ pending[j].id = still[k].id
        BY <3>1 DEF BInv, Behind
      <4>2. j \in Nat
        BY ListFacts DEF BInv
      <4>3. j < cursor' /\ pending'[j].id = still'[k].id
        BY <1>2, <1>4, <1>7, <2>1, <3>1, <4>1, <4>2
      <4> QED  BY <4>3
    <3>2. CASE k = n + 1
      <4>1. cursor < cursor' /\ pending'[cursor].id = still'[k].id
        BY <1>1, <1>2, <1>4, <2>1, <3>2
      <4> QED  BY <1>1, <4>1
    <3> QED  BY <1>3, <3>1, <3>2
  <2>3. phase' # "strategy"
    BY <1>4
  <2> QED  BY <1>1, <2>2, <2>3 DEF Behind
<1>10. FillsAgree'
  <2>1. ASSUME NEW j \in DOMAIN pending
        PROVE  pending'[j].status = "Completed" <=> orders'[pending'[j].id].status = "Completed"
    <3>1. CASE j = cursor
      BY <1>1, <1>5, <3>1
    <3>2. CASE j # cursor
      <4>1. pending[j].id # p.id /\ pending[j].id \in DOMAIN orders
        BY <1>1, <1>4, <3>2, PendingOnce, ListFacts DEF BInv
      <4> QED  BY <1>1, <3>2, <4>1 DEF BInv, FillsAgree
    <3> QED  BY <3>1, <3>2
  <2>2. ASSUME NEW k \in DOMAIN still'
        PROVE  still'[k].status # "Completed" /\ orders'[still'[k].id].status # "Completed"
    <3>1. CASE k \in DOMAIN still
      <4>1. still[k].status # "Completed" /\ orders[still[k].id].status # "Completed"
            /\ still[k].id \in DOMAIN orders
        BY <3>1, ListFacts DEF BInv, FillsAgree
      <4> QED  BY <1>1, <1>2, <1>5, <3>1, <4>1
    <3>2. CASE k = n + 1
      BY <1>2, <1>5, <3>2
    <3> QED  BY <1>3, <3>1, <3>2
  <2> QED  BY <1>1, <1>4, <2>1, <2>2 DEF FillsAgree
<1>11. LinksOK'
  <2>1. Cleared(p)
    <3>1. cursor \in DOMAIN pending /\ Cleared(pending[cursor])
      BY <1>1 DEF BInv, LinksOK
    <3> QED  BY <1>4, <3>1 DEF Cleared, ParentFilled
  <2>2. \A o : Cleared(o) =>
          (o.parent # 0 /\ o.transmit => /\ o.parent \in DOMAIN orders'
                                        /\ orders'[o.parent].status = "Completed")
    BY <1>6, FrozenParents DEF Cleared, ParentFilled
  <2>3. \A j \in DOMAIN pending' : Cleared(pending[j])'
    BY <1>1, <2>1, <2>2 DEF BInv, LinksOK, Cleared, ParentFilled
  <2>4. ASSUME NEW k \in DOMAIN still' PROVE Cleared(still[k])'
    <3>1. CASE k \in DOMAIN still
      <4>1. Cleared(still[k]) /\ still'[k] = still[k]
        BY <1>2, <3>1 DEF BInv, LinksOK
      <4> QED  BY <2>2, <4>1 DEF Cleared, ParentFilled
    <3>2. CASE k = n + 1
      BY <1>2, <2>1, <2>2, <3>2 DEF Cleared, ParentFilled
    <3> QED  BY <1>3, <3>1, <3>2
  <2>5. \A id \in DOMAIN orders' :
          orders'[id].status = "Completed" => id \in DOMAIN orders /\ orders'[id] = orders[id]
    BY <1>1, <1>5
  <2>6. FillsLinked'
    BY <1>1, <1>6, <2>5, NoNewFill, ListFacts DEF BInv
  <2> QED  BY <1>1, <1>4, <2>3, <2>4, <2>6 DEF LinksOK
<1>12. TrailsOK'
  <2>1. IsTrail(p) => p.parent = 0
    BY <1>1, GoodFields
  <2>2. IsTrail(p) /\ HasData(p.feed) => Tight(p)
    BY <2>1 DEF KeepAs, Held
  <2>3. ASSUME NEW k \in DOMAIN still' PROVE Follows(still[k])'
    <3>1. CASE k \in DOMAIN still
      <4>1. Follows(still[k]) /\ still'[k] = still[k]
        BY <1>2, <3>1 DEF BInv, TrailsOK
      <4> QED  BY <1>1, <4>1 DEF Follows, Tight, HasData
    <3>2. CASE k = n + 1
      BY <1>1, <1>2, <2>2, <3>2 DEF Follows, Tight, HasData
    <3> QED  BY <1>3, <3>1, <3>2
  <2> QED  BY <1>4, <2>3 DEF TrailsOK
<1> QED  BY <1>6, <1>8, <1>9, <1>10, <1>11, <1>12 DEF BookStep
-----------------------------------------------------------------------------
(* A step that only transmits legs, or changes nothing *)

LEMMA QuietKeeps ==
  ASSUME BInv, Quieten
  PROVE  BookStep
<1>1. /\ DOMAIN pending' = DOMAIN pending
      /\ UNCHANGED <<orders, still, bar, bars>> /\ cursor <= cursor' /\ cursor' \in Nat
      /\ phase' = "strategy" => phase = "strategy" /\ UNCHANGED pending
  BY DEF Quieten
<1>2. \A i \in DOMAIN pending :
        /\ pending'[i].id = pending[i].id /\ pending'[i].parent = pending[i].parent
        /\ pending'[i].status = pending[i].status
  BY DEF Quieten, Copy
<1>3. Frozen
  BY <1>1 DEF Frozen
<1>4. Ordered'
  BY <1>1, <1>2, SameIdsOrdered DEF BInv, Ordered, Increasing
<1>5. Behind'
  <2>1. phase' = "strategy" => still' = << >>
    BY <1>1 DEF BInv, Behind
  <2>2. ASSUME NEW k \in DOMAIN still
        PROVE  \E j \in DOMAIN pending : j < cursor' /\ pending'[j].id = still[k].id
    <3>1. PICK j \in DOMAIN pending : j < cursor /\ pending[j].id = still[k].id
      BY DEF BInv, Behind
    <3>2. j \in Nat /\ cursor \in Nat
      BY ListFacts DEF BInv
    <3> QED  BY <1>1, <1>2, <3>1, <3>2
  <2> QED  BY <1>1, <2>1, <2>2 DEF Behind
<1>6. FillsAgree'
  <2>1. \A j \in DOMAIN pending' :
          pending'[j].status = "Completed" <=> orders'[pending'[j].id].status = "Completed"
    BY <1>1, <1>2 DEF BInv, FillsAgree
  <2>2. ASSUME phase' \in {"submitted", "fill"} PROVE pending'[cursor'].status # "Completed"
    <3>1. CASE phase = phase' /\ UNCHANGED pending
      BY <2>2, <3>1 DEF Quieten, BInv, FillsAgree
    <3>2. CASE cursor \in DOMAIN pending /\ Alive(pending[cursor])
      BY <1>2, <2>2, <3>2 DEF Quieten, Alive, AliveStatuses
    <3> QED  BY <2>2, <3>1, <3>2 DEF Quieten
  <2> QED  BY <1>1, <2>1, <2>2 DEF BInv, FillsAgree
<1>7. LinksOK'
  <2>1. ASSUME NEW i \in DOMAIN pending PROVE Cleared(pending'[i])
    <3>1. CASE pending'[i] = pending[i]
      BY <3>1 DEF BInv, LinksOK
    <3>2. CASE /\ pending[i].parent # 0
               /\ pending[i].transmit \/ ParentFilled(pending[i])
      BY <1>2, <3>2 DEF BInv, LinksOK, Cleared, ParentFilled
    <3>3. CASE /\ cursor \in DOMAIN pending /\ pending[i].parent = pending[cursor].id
               /\ pending[cursor].status = "Completed"
      <4>2. /\ orders[pending[cursor].id].status = "Completed"
            /\ pending[cursor].id \in DOMAIN orders
        BY <3>3, ListFacts DEF BInv, FillsAgree
      <4> QED  BY <1>2, <3>3, <4>2 DEF Cleared, ParentFilled
    <3>4. CASE pending[i].parent = 0
      BY <1>2, <3>4 DEF Cleared
    <3> QED  BY <3>1, <3>2, <3>3, <3>4 DEF Quieten
  <2>2. ASSUME phase' \in {"submitted", "fill"}, pending'[cursor'].parent # 0
        PROVE  pending'[cursor'].transmit
    <3>1. CASE phase = phase' /\ UNCHANGED pending
      BY <2>2, <3>1 DEF Quieten, BInv, LinksOK
    <3>2. CASE cursor \in DOMAIN pending /\ (pending'[cursor].parent # 0 => pending'[cursor].transmit)
      BY <2>2, <3>2 DEF Quieten
    <3> QED  BY <2>2, <3>1, <3>2 DEF Quieten
  <2>3. \A id \in DOMAIN orders' :
          orders'[id].status = "Completed" => id \in DOMAIN orders /\ orders'[id] = orders[id]
    BY <1>1
  <2>4. FillsLinked'
    BY <1>1, <1>3, <2>3, NoNewFill, ListFacts DEF BInv
  <2>5. \A i \in DOMAIN pending' : Cleared(pending[i])'
    BY <1>1, <2>1 DEF Cleared, ParentFilled
  <2>6. \A k \in DOMAIN still' : Cleared(still[k])'
    BY <1>1 DEF BInv, LinksOK, Cleared, ParentFilled
  <2> QED  BY <2>2, <2>4, <2>5, <2>6 DEF LinksOK
<1>8. TrailsOK'
  BY <1>1 DEF BInv, TrailsOK, Follows, Tight, HasData
<1> QED  BY <1>3, <1>4, <1>5, <1>6, <1>7, <1>8 DEF BookStep
-----------------------------------------------------------------------------
(* A step that appends new orders to both vectors *)

\* A leg of a bracket is linked to the first of them, its main order.
LegOf(new, o) ==
  /\ ~o.transmit /\ o.parent = Len(orders) + 1
  /\ 1 \in DOMAIN new /\ new[1].parent = 0 /\ new[1].children # {}
  /\ \E b \in Brackets : new[1].feed = b.feed

Pushes(new) ==
  /\ Push(new) /\ Numbered(new, Len(orders)) /\ Len(new) \in 0..3
  /\ \A k \in DOMAIN new :
       new[k].status = "Created" /\ (new[k].parent # 0 => LegOf(new, new[k]))
  /\ phase = "strategy" \/ Callbacks # {}
  /\ UNCHANGED <<phase, cursor, still, filledOco, bar, bars, last>>

LEMMA PushFacts ==
  ASSUME IInv, NEW new, Pushes(new)
  PROVE  LET m == Len(orders)  n == Len(pending)  k == Len(new)
         IN  /\ m \in Nat /\ n \in Nat /\ k \in Nat
             /\ DOMAIN orders = 1..m /\ DOMAIN orders' = 1..(m + k)
             /\ DOMAIN pending = 1..n /\ DOMAIN pending' = 1..(n + k)
             /\ \A j \in 1..m : orders'[j] = orders[j]
             /\ \A j \in 1..n : pending'[j] = pending[j]
             /\ \A j \in 1..k : /\ orders'[m + j] = new[j] /\ pending'[n + j] = new[j]
                                /\ new[j] \in Good /\ new[j].id = m + j /\ new[j].born = bar
                                /\ new[j].status = "Created"
                                /\ new[j].parent # 0 => ~new[j].transmit
<1>1. /\ orders \in Seq(Good) /\ pending \in Seq(Good) /\ new \in Seq(Good)
      /\ orders' = orders \o new /\ pending' = pending \o new
  BY ListFacts DEF Pushes, Push, Numbered
<1> DEFINE m == Len(orders)  n == Len(pending)  k == Len(new)
<1>2. m \in Nat /\ n \in Nat /\ k \in Nat /\ DOMAIN new = 1..k
      /\ DOMAIN orders = 1..m /\ DOMAIN pending = 1..n
  BY <1>1
<1>3. /\ DOMAIN orders' = 1..(m + k)
      /\ \A j \in 1..(m + k) : orders'[j] = IF j <= m THEN orders[j] ELSE new[j - m]
  BY <1>1
<1>4. /\ DOMAIN pending' = 1..(n + k)
      /\ \A j \in 1..(n + k) : pending'[j] = IF j <= n THEN pending[j] ELSE new[j - n]
  BY <1>1
<1>5. \A j \in DOMAIN new :
        /\ new[j].id = Len(orders) + j /\ new[j].born = bar
        /\ new[j].status = "Created" /\ (new[j].parent # 0 => ~new[j].transmit)
  BY DEF Pushes, Numbered, LegOf
<1>8. \A j \in DOMAIN new : new[j] \in Good
  BY <1>1
<1>9. m = Len(orders)
  OBVIOUS
<1> HIDE DEF m, n, k
<1>6. /\ \A j \in 1..m : orders'[j] = orders[j]
      /\ \A j \in 1..n : pending'[j] = pending[j]
  BY <1>2, <1>3, <1>4
<1>7. \A j \in 1..k : orders'[m + j] = new[j] /\ pending'[n + j] = new[j]
  <2> SUFFICES ASSUME NEW j \in 1..k
               PROVE  orders'[m + j] = new[j] /\ pending'[n + j] = new[j]
    OBVIOUS
  <2>1. /\ m + j \in 1..(m + k) /\ ~(m + j <= m) /\ (m + j) - m = j
        /\ n + j \in 1..(n + k) /\ ~(n + j <= n) /\ (n + j) - n = j
    BY <1>2
  <2> QED  BY <1>3, <1>4, <2>1
<1> QED  BY <1>2, <1>3, <1>4, <1>5, <1>6, <1>7, <1>8, <1>9 DEF m, n, k

LEMMA PushKeeps ==
  ASSUME BInv, NEW new, Pushes(new)
  PROVE  BookStep
<1> DEFINE m == Len(orders)  n == Len(pending)  k == Len(new)
<1>1. /\ m \in Nat /\ n \in Nat /\ k \in Nat
      /\ DOMAIN orders = 1..m /\ DOMAIN orders' = 1..(m + k)
      /\ DOMAIN pending = 1..n /\ DOMAIN pending' = 1..(n + k)
      /\ \A j \in 1..m : orders'[j] = orders[j]
      /\ \A j \in 1..n : pending'[j] = pending[j]
      /\ \A j \in 1..k : /\ orders'[m + j] = new[j] /\ pending'[n + j] = new[j]
                         /\ new[j] \in Good /\ new[j].id = m + j /\ new[j].born = bar
                         /\ new[j].status = "Created"
                         /\ new[j].parent # 0 => ~new[j].transmit
  BY PushFacts DEF BInv
<1>2. UNCHANGED <<phase, cursor, still, filledOco, bar, bars, last>>
  BY DEF Pushes
<1> HIDE DEF m, n, k
<1>3. \A i \in DOMAIN pending : pending[i].id \in 1..m
  BY <1>1, ListFacts DEF BInv
<1>4. \A i \in 1..(m + k) : i \in 1..m \/ \E j \in 1..k : i = m + j
  <2> SUFFICES ASSUME NEW i \in 1..(m + k), i \notin 1..m PROVE \E j \in 1..k : i = m + j
    OBVIOUS
  <2>1. i - m \in 1..k /\ i = m + (i - m)
    BY <1>1
  <2> QED  BY <2>1
<1>5. \A i \in DOMAIN pending' : i \in 1..n \/ \E j \in 1..k : i = n + j
  <2> SUFFICES ASSUME NEW i \in 1..(n + k), i \notin 1..n PROVE \E j \in 1..k : i = n + j
    BY <1>1
  <2>1. i - n \in 1..k /\ i = n + (i - n)
    BY <1>1
  <2> QED  BY <2>1
<1>13. ASSUME NEW j \in 1..k
       PROVE  /\ j \in Nat /\ pending'[n + j] = new[j] /\ orders'[m + j] = new[j]
              /\ pending'[n + j].id = m + j /\ pending'[n + j].born = bar
              /\ pending'[n + j].status = "Created" /\ orders'[m + j].status = "Created"
              /\ pending'[n + j].parent # 0 => ~pending'[n + j].transmit
  <2>1. /\ pending'[n + j] = new[j] /\ orders'[m + j] = new[j]
        /\ new[j].id = m + j /\ new[j].born = bar /\ new[j].status = "Created"
        /\ new[j].parent # 0 => ~new[j].transmit
    BY <1>1
  <2> QED  BY <1>1, <2>1
<1>6. Frozen
  BY <1>1 DEF Frozen
<1>7. \A i \in 1..n : i \in DOMAIN pending'
  BY <1>1
<1>8. Ordered'
  <2>1. ASSUME NEW i \in DOMAIN pending', NEW j \in DOMAIN pending', i < j
        PROVE  pending'[i].id < pending'[j].id
    <3>1. CASE j \in 1..n
      <4>1. i \in 1..n
        BY <1>1, <2>1, <3>1
      <4> QED  BY <1>1, <2>1, <3>1, <4>1 DEF BInv, Ordered, Increasing
    <3>2. CASE j \notin 1..n
      <4>1. PICK l \in 1..k : j = n + l
        BY <1>5, <3>2
      <4>2. pending'[j].id = m + l /\ l \in Nat
        BY <1>13, <4>1
      <4>3. CASE i \in 1..n
        <5>1. pending'[i].id \in 1..m
          BY <1>1, <1>3, <4>3
        <5> QED  BY <1>1, <4>1, <4>2, <5>1
      <4>4. CASE i \notin 1..n
        <5>1. PICK h \in 1..k : i = n + h
          BY <1>5, <4>4
        <5>2. pending'[i].id = m + h /\ h \in Nat
          BY <1>13, <5>1
        <5> QED  BY <1>1, <2>1, <4>1, <4>2, <5>1, <5>2
      <4> QED  BY <4>3, <4>4
    <3> QED  BY <3>1, <3>2
  <2>2. Increasing(still)'
    BY <1>2 DEF BInv, Ordered, Increasing
  <2> QED  BY <2>1, <2>2 DEF Ordered, Increasing
<1>9. Behind'
  <2>1. ASSUME NEW h \in DOMAIN still
        PROVE  \E j \in DOMAIN pending' : j < cursor /\ pending'[j].id = still[h].id
    <3>1. PICK j \in DOMAIN pending : j < cursor /\ pending[j].id = still[h].id
      BY DEF BInv, Behind
    <3>2. j \in DOMAIN pending' /\ pending'[j] = pending[j]
      BY <1>1, <1>7
    <3> QED  BY <3>1, <3>2
  <2> QED  BY <1>2, <2>1 DEF BInv, Behind
<1>10. FillsAgree'
  <2>1. ASSUME NEW i \in DOMAIN pending'
        PROVE  pending'[i].status = "Completed" <=> orders'[pending'[i].id].status = "Completed"
    <3>1. CASE i \in 1..n
      <4>1. i \in DOMAIN pending /\ pending'[i] = pending[i]
            /\ orders'[pending[i].id] = orders[pending[i].id]
        BY <1>1, <1>3, <3>1
      <4> QED  BY <4>1 DEF BInv, FillsAgree
    <3>2. CASE i \notin 1..n
      <4>1. PICK j \in 1..k : i = n + j
        BY <1>5, <3>2
      <4> QED  BY <1>13, <4>1
    <3> QED  BY <3>1, <3>2
  <2>2. ASSUME NEW h \in DOMAIN still
        PROVE  still[h].status # "Completed" /\ orders'[still[h].id].status # "Completed"
    <3>1. still[h].id \in 1..m
      BY <1>1, ListFacts DEF BInv
    <3> QED  BY <1>1, <3>1 DEF BInv, FillsAgree
  <2>3. ASSUME phase \in {"submitted", "fill"} PROVE pending'[cursor].status # "Completed"
    <3>1. cursor \in DOMAIN pending
      BY <2>3, AtReference DEF References, BInv
    <3> QED  BY <1>1, <2>3, <3>1 DEF BInv, FillsAgree
  <2> QED  BY <1>2, <2>1, <2>2, <2>3 DEF FillsAgree
<1>11. LinksOK'
  <2>1. \A o : Cleared(o) => Cleared(o)'
    BY <1>6, FrozenParents DEF Cleared, ParentFilled
  <2>2. ASSUME NEW i \in DOMAIN pending' PROVE Cleared(pending[i])'
    <3>1. CASE i \in 1..n
      <4>1. Cleared(pending[i]) /\ pending'[i] = pending[i]
        BY <1>1, <3>1 DEF BInv, LinksOK
      <4> QED  BY <2>1, <4>1 DEF Cleared, ParentFilled
    <3>2. CASE i \notin 1..n
      <4>1. PICK j \in 1..k : i = n + j
        BY <1>5, <3>2
      <4> QED  BY <1>13, <4>1 DEF Cleared
    <3> QED  BY <3>1, <3>2
  <2>3. \A h \in DOMAIN still' : Cleared(still[h])'
    BY <1>2, <2>1 DEF BInv, LinksOK, Cleared, ParentFilled
  <2>4. ASSUME phase \in {"submitted", "fill"} PROVE pending'[cursor] = pending[cursor]
    <3>1. cursor \in DOMAIN pending
      BY <2>4, AtReference DEF References, BInv
    <3> QED  BY <1>1, <3>1
  <2>5. \A id \in DOMAIN orders' :
          orders'[id].status = "Completed" => id \in DOMAIN orders /\ orders'[id] = orders[id]
    <3> SUFFICES ASSUME NEW id \in DOMAIN orders', orders'[id].status = "Completed"
                 PROVE  id \in DOMAIN orders /\ orders'[id] = orders[id]
      OBVIOUS
    <3>1. CASE id \in 1..m
      BY <1>1, <3>1
    <3>2. CASE id \notin 1..m
      <4>1. PICK j \in 1..k : id = m + j
        BY <1>1, <1>4, <3>2
      <4> QED  BY <1>13, <4>1
    <3> QED  BY <3>1, <3>2
  <2>6. FillsLinked'
    BY <1>2, <1>6, <2>5, NoNewFill, ListFacts DEF BInv
  <2> QED  BY <1>2, <2>2, <2>3, <2>4, <2>6 DEF BInv, LinksOK
<1>12. TrailsOK'
  <2>1. bar \in Nat
    BY ListFacts DEF BInv
  <2>2. ASSUME phase = "strategy", NEW i \in DOMAIN pending' PROVE Follows(pending[i])'
    <3>1. CASE i \in 1..n
      <4>1. Follows(pending[i]) /\ pending'[i] = pending[i]
        BY <1>1, <2>2, <3>1 DEF BInv, TrailsOK
      <4> QED  BY <1>2, <4>1 DEF Follows, Tight, HasData
    <3>2. CASE i \notin 1..n
      <4>1. PICK j \in 1..k : i = n + j
        BY <1>5, <3>2
      <4>2. ~(pending'[i].born < bar')
        BY <1>2, <1>13, <2>1, <4>1
      <4> QED  BY <4>2 DEF Follows
    <3> QED  BY <3>1, <3>2
  <2>3. \A h \in DOMAIN still' : Follows(still[h])'
    BY <1>2 DEF BInv, TrailsOK, Follows, Tight, HasData
  <2> QED  BY <1>2, <2>2, <2>3 DEF TrailsOK
<1> QED  BY <1>6, <1>8, <1>9, <1>10, <1>11, <1>12 DEF BookStep
-----------------------------------------------------------------------------
(* The first and the last steps of process_orders *)

LEMMA StartBarFollows ==
  ASSUME BInv, StartBar
  PROVE  BookStep
<1>1. /\ UNCHANGED <<orders, pending, still>> /\ bar' = bar + 1 /\ bar \in Nat
      /\ phase' = "order" /\ still = << >>
  BY ListFacts DEF StartBar, StrategyActs, BInv, Behind
<1>2. Frozen /\ Ordered' /\ Behind' /\ FillsAgree'
  BY <1>1 DEF Frozen, BInv, Ordered, Increasing, Behind, FillsAgree
<1>3. FillsLinked'
  BY <1>1, <1>2, NoNewFill
<1>4. LinksOK' /\ TrailsOK'
  BY <1>1, <1>3 DEF BInv, LinksOK, TrailsOK, Cleared, ParentFilled
<1> QED  BY <1>2, <1>4 DEF BookStep

LEMMA SweepCancelFollows ==
  ASSUME BInv, NEW i \in DOMAIN still, SweepCancel(i)
  PROVE  BookStep
<1> DEFINE p == [still[i] EXCEPT !.status = "Canceled"]
<1>1. /\ UNCHANGED <<pending, bar, bars, cursor>> /\ phase = "sweep" /\ phase' = "sweep"
      /\ Alive(still[i]) /\ bar \in Nat
  BY ListFacts DEF SweepCancel, InLoop, SameOrder, Swept, BInv
<1>2. still[i] \in Good /\ still[i].id \in DOMAIN orders
  BY ListFacts DEF BInv
<1>3. /\ p.status = "Canceled" /\ p.id = still[i].id
      /\ p.parent = still[i].parent /\ p.transmit = still[i].transmit
  BY <1>2 DEF Good, OrderRecords
<1>4. still' = [still EXCEPT ![i] = p] /\ Sync(still'[i])
  BY <1>1 DEF SweepCancel, Move
<1> HIDE DEF p
<1>5. /\ DOMAIN still' = DOMAIN still /\ still'[i] = p
      /\ \A k \in DOMAIN still : k # i => still'[k] = still[k]
  BY <1>4
<1>6. /\ DOMAIN orders' = DOMAIN orders /\ orders'[p.id] = p
      /\ \A id \in DOMAIN orders : id # p.id => orders'[id] = orders[id]
  BY <1>2, <1>3, <1>4, <1>5 DEF Sync
<1>7. orders[p.id].status # "Completed"
  BY <1>3 DEF BInv, FillsAgree
<1>8. Frozen
  BY <1>6, <1>7 DEF Frozen
<1>9. \A k \in DOMAIN still : still'[k].id = still[k].id
  BY <1>3, <1>5
<1>10. Ordered' /\ Behind'
  BY <1>1, <1>5, <1>9 DEF BInv, Ordered, Increasing, Behind
<1>11. FillsAgree'
  <2>1. \A j \in DOMAIN pending :
          pending[j].status = "Completed" <=> orders'[pending[j].id].status = "Completed"
    <3> SUFFICES ASSUME NEW j \in DOMAIN pending
                 PROVE  pending[j].status = "Completed"
                          <=> orders'[pending[j].id].status = "Completed"
      OBVIOUS
    <3>1. /\ pending[j].id \in DOMAIN orders
          /\ pending[j].status = "Completed" <=> orders[pending[j].id].status = "Completed"
      BY ListFacts DEF BInv, FillsAgree
    <3> QED  BY <1>3, <1>6, <1>7, <3>1
  <2>2. \A k \in DOMAIN still :
          still'[k].status # "Completed" /\ orders'[still'[k].id].status # "Completed"
    <3> SUFFICES ASSUME NEW k \in DOMAIN still
                 PROVE  still'[k].status # "Completed" /\ orders'[still'[k].id].status # "Completed"
      OBVIOUS
    <3>1. /\ still[k].id \in DOMAIN orders
          /\ still[k].status # "Completed" /\ orders[still[k].id].status # "Completed"
      BY ListFacts DEF BInv, FillsAgree
    <3> QED  BY <1>3, <1>5, <1>6, <1>9, <3>1
  <2> QED  BY <1>1, <1>5, <2>1, <2>2 DEF FillsAgree
<1>12. LinksOK'
  <2>1. \A o : Cleared(o) =>
          (o.parent # 0 /\ o.transmit => /\ o.parent \in DOMAIN orders'
                                        /\ orders'[o.parent].status = "Completed")
    BY <1>8, FrozenParents DEF Cleared, ParentFilled
  <2>2. \A j \in DOMAIN pending' : Cleared(pending[j])'
    BY <1>1, <2>1 DEF BInv, LinksOK, Cleared, ParentFilled
  <2>3. ASSUME NEW k \in DOMAIN still' PROVE Cleared(still[k])'
    <3>1. Cleared(still[k]) /\ still'[k].parent = still[k].parent
          /\ still'[k].transmit = still[k].transmit
      BY <1>3, <1>5 DEF BInv, LinksOK
    <3> QED  BY <2>1, <3>1 DEF Cleared, ParentFilled
  <2>4. \A id \in DOMAIN orders' :
          orders'[id].status = "Completed" => id \in DOMAIN orders /\ orders'[id] = orders[id]
    BY <1>3, <1>6
  <2>5. FillsLinked'
    BY <1>1, <1>8, <2>4, NoNewFill
  <2> QED  BY <1>1, <2>2, <2>3, <2>5 DEF LinksOK
<1>13. TrailsOK'
  <2>1. ~Alive(p)
    BY <1>3 DEF Alive, AliveStatuses
  <2>2. ASSUME NEW k \in DOMAIN still' PROVE Follows(still[k])'
    <3>1. CASE k = i
      BY <1>5, <2>1, <3>1 DEF Follows
    <3>2. CASE k # i
      <4>1. Follows(still[k]) /\ still'[k] = still[k]
        BY <1>5, <3>2 DEF BInv, TrailsOK
      <4> QED  BY <1>1, <4>1 DEF Follows, Tight, HasData
    <3> QED  BY <3>1, <3>2
  <2> QED  BY <1>1, <2>2 DEF TrailsOK
<1> QED  BY <1>8, <1>10, <1>11, <1>12, <1>13 DEF BookStep

\* std::erase_if keeps the order of what it leaves.
LEMMA ErasesKeepsOrder ==
  ASSUME NEW s \in Seq(Good), NEW t, Erases(s, t), Increasing(s)
  PROVE  Increasing(t)
<1> DEFINE n == Cardinality({i \in DOMAIN s : Alive(s[i])})
<1>1. PICK f \in [1..n -> DOMAIN s] :
        /\ \A i, j \in 1..n : i < j => f[i] < f[j]
        /\ t = [i \in 1..n |-> s[f[i]]]
  BY DEF Erases
<1> HIDE DEF n
<1> SUFFICES ASSUME NEW i \in 1..n, NEW j \in 1..n, i < j PROVE t[i].id < t[j].id
  BY <1>1 DEF Increasing
<1>2. f[i] \in DOMAIN s /\ f[j] \in DOMAIN s /\ f[i] < f[j]
  BY <1>1
<1>3. s[f[i]].id < s[f[j]].id
  BY <1>2 DEF Increasing
<1> QED  BY <1>1, <1>3

LEMMA FinishBarFollows ==
  ASSUME BInv, FinishBar
  PROVE  BookStep
<1>1. /\ UNCHANGED <<orders, bar, bars>> /\ still' = << >> /\ phase' = "strategy" /\ bar \in Nat
      /\ pending' = still \/ Erases(still, pending')
  BY ListFacts DEF FinishBar, BInv
<1>2. still \in Seq(Good) /\ Increasing(still)
  BY ListFacts DEF BInv, Ordered
<1>3. Increasing(pending)' /\ \A k \in DOMAIN pending' : \E i \in DOMAIN still : pending'[k] = still[i]
  <2>1. CASE pending' = still
    BY <1>2, <2>1 DEF Increasing
  <2>2. CASE Erases(still, pending')
    <3>1. \A t : Erases(still, t) => Increasing(t)
      BY <1>2, ErasesKeepsOrder
    <3>2. Increasing(pending)'
      BY <2>2, <3>1 DEF Increasing
    <3> QED  BY <1>2, <2>2, <3>2, ErasesKeepsList
  <2> QED  BY <1>1, <2>1, <2>2
<1>4. Frozen /\ Ordered' /\ Behind'
  BY <1>1, <1>3 DEF Frozen, Ordered, Increasing, Behind
<1>5. FillsAgree'
  BY <1>1, <1>3 DEF BInv, FillsAgree
<1>6. FillsLinked'
  BY <1>1, <1>4, NoNewFill
<1>7. LinksOK'
  BY <1>1, <1>3, <1>6 DEF BInv, LinksOK, Cleared, ParentFilled
<1>8. TrailsOK'
  BY <1>1, <1>3 DEF BInv, TrailsOK, Follows, Tight, HasData
<1> QED  BY <1>4, <1>5, <1>7, <1>8 DEF BookStep
-----------------------------------------------------------------------------
(* The kinds of step that touch one order *)

LEMMA CursorFact ==
  ASSUME IInv, phase \in {"submitted", "fill"}
  PROVE  cursor \in DOMAIN pending
BY AtReference DEF References

LEMMA WithdrawKeeps ==
  ASSUME BInv, NEW i, NEW p, Withdraw(i, p)
  PROVE  BookStep
<1>1. /\ Touch(i, p) /\ Alive(pending[i]) /\ p.status = "Canceled"
      /\ p.transmit = pending[i].transmit /\ UNCHANGED <<phase, cursor>>
      /\ Copy(pending[i], p)
  BY DEF Withdraw, Touch
<1>2. pending[i].status # "Completed" /\ ~Alive(p) /\ p.status # "Completed"
  BY <1>1 DEF Alive, AliveStatuses
<1>3. cursor \in Nat
  BY ListFacts DEF BInv
<1>4. phase \in {"submitted", "fill"} =>
        /\ cursor \in DOMAIN pending
        /\ i = cursor /\ p.parent # 0 => p.transmit
  BY <1>1, CursorFact DEF BInv, LinksOK, Copy
<1> QED  BY <1>1, <1>2, <1>3, <1>4, TouchKeeps

LEMMA DecideKeeps ==
  ASSUME BInv, NEW p, Decide(p)
  PROVE  BookStep
<1>1. cursor \in Nat /\ cursor <= last /\ Touch(cursor, p) /\ cursor \in DOMAIN pending
  BY ListFacts DEF BInv, Decide, DecideAs, Touch
<1>2. CASE /\ phase = "order" /\ Alive(pending[cursor]) /\ phase' = "order"
           /\ cursor' = cursor + 1 /\ (DecideAs(p, "Rejected") \/ DecideAs(p, "Expired"))
  <2>1. pending[cursor].status # "Completed" /\ p.status # "Completed"
    BY <1>2 DEF DecideAs, Alive, AliveStatuses
  <2> QED  BY <1>1, <1>2, <2>1, TouchKeeps
<1>3. CASE /\ phase = "order" /\ pending[cursor].status = "Created"
           /\ DecideAs(p, "Submitted")
           /\ phase' = "submitted" /\ cursor' = cursor /\ (p.parent # 0 => p.transmit)
  <2>1. pending[cursor].status # "Completed" /\ p.status # "Completed"
    BY <1>3 DEF DecideAs, Alive, AliveStatuses
  <2> QED  BY <1>1, <1>3, <2>1, TouchKeeps
<1>4. CASE /\ phase = "submitted" /\ DecideAs(p, "Accepted")
           /\ phase' = "fill" /\ cursor' = cursor /\ p.transmit = pending[cursor].transmit
  <2>1. pending[cursor].status # "Completed" /\ p.status # "Completed"
    BY <1>4 DEF DecideAs, BInv, FillsAgree
  <2>2. p.parent # 0 => p.transmit
    BY <1>1, <1>4 DEF Touch, Copy, BInv, LinksOK
  <2> QED  BY <1>1, <1>4, <2>1, <2>2, TouchKeeps
<1>5. CASE /\ phase = "fill" /\ phase' = "filled" /\ cursor' = cursor
           /\ \/ DecideAs(p, "Rejected") \/ DecideAs(p, "Margin")
              \/ DecideAs(p, "Completed") /\ (Alive(pending[cursor]) => p.execBar = bar)
  <2>1. pending[cursor].status # "Completed"
    BY <1>5 DEF BInv, FillsAgree
  <2>2. p.status = "Completed" => p.execBar = bar
    BY <1>5, <2>1 DEF DecideAs
  <2> QED  BY <1>1, <1>5, <2>1, <2>2, TouchKeeps
<1> QED  BY <1>2, <1>3, <1>4, <1>5 DEF Decide
-----------------------------------------------------------------------------
(* What the actions make of an order *)

LEMMA MoveFields ==
  ASSUME NEW o \in Good, NEW st
  PROVE  /\ Move(o, st).status = IF Alive(o) THEN st ELSE o.status
         /\ Move(o, st).transmit = o.transmit /\ Move(o, st).parent = o.parent
         /\ Move(o, st).trailStop = o.trailStop /\ Move(o, st).execPrice = o.execPrice
         /\ Move(o, st).execSize = o.execSize /\ Move(o, st).execBar = o.execBar
BY DEF Move, Good, OrderRecords

LEMMA ReleasedFields ==
  ASSUME NEW o \in Good
  PROVE  /\ Released(o).status = o.status /\ Released(o).parent = o.parent
         /\ o.parent # 0 => Released(o).transmit
         /\ Released(o).trailStop = o.trailStop /\ Released(o).execPrice = o.execPrice
         /\ Released(o).execSize = o.execSize /\ Released(o).execBar = o.execBar
BY DEF Released, Good, OrderRecords

LEMMA IsTouch ==
  ASSUME IInv, NEW i \in DOMAIN pending, NEW p \in Good, Copy(pending[i], p),
         pending' = [pending EXCEPT ![i] = p], Sync(pending'[i]),
         UNCHANGED <<still, filledOco, bar, bars, last>>,
         p.parent # 0 /\ p.transmit => pending[i].transmit \/ ParentFilled(pending[i])
  PROVE  Touch(i, p)
<1>1. pending'[i] = p
  OBVIOUS
<1> QED  BY <1>1 DEF Touch

\* cancel_order, from the strategy or from a callback.
LEMMA CancelPendingIs ==
  ASSUME IInv, NEW id, CancelPending(id), phase = "strategy" \/ notified,
         UNCHANGED <<still, filledOco, bar, bars, last, phase, cursor>>
  PROVE  \E i, p : Withdraw(i, p)
<1>1. PICK i \in DOMAIN pending :
        /\ Alive(pending[i])
        /\ pending' = [pending EXCEPT ![i] = Move(@, "Canceled")] /\ Sync(pending'[i])
  BY DEF CancelPending
<1> DEFINE p == Move(pending[i], "Canceled")
<1>2. pending[i] \in Good
  BY ListFacts
<1>3. p \in Good /\ Copy(pending[i], p)
  BY <1>2, MoveKeepsGood DEF Failing, OrderStatuses
<1>4. p.status = "Canceled" /\ p.transmit = pending[i].transmit
  BY <1>1, <1>2, MoveFields
<1>5. pending' = [pending EXCEPT ![i] = p]
  BY <1>1
<1> HIDE DEF p
<1>6. Touch(i, p)
  BY <1>1, <1>3, <1>4, <1>5, IsTouch
<1> QED  BY <1>1, <1>4, <1>6 DEF Withdraw

LEMMA CancelChildIs ==
  ASSUME IInv, NEW i \in DOMAIN pending, CancelChild(i)
  PROVE  \E p : Withdraw(i, p)
<1> DEFINE p == Move(pending[i], "Canceled")
<1>1. /\ Alive(pending[i]) /\ AliveChild(i) /\ phase = "children"
      /\ UNCHANGED <<still, filledOco, bar, bars, last, phase, cursor>>
      /\ Sync(pending'[i])
  BY DEF CancelChild, AliveChild, SameOrder, InLoop
<1>2. pending[i] \in Good
  BY ListFacts
<1>3. p \in Good /\ Copy(pending[i], p)
  BY <1>2, MoveKeepsGood DEF Failing, OrderStatuses
<1>4. p.status = "Canceled" /\ p.transmit = pending[i].transmit
  BY <1>1, <1>2, MoveFields
<1>5. pending' = [pending EXCEPT ![i] = p]
  BY DEF CancelChild
<1> HIDE DEF p
<1>6. Touch(i, p)
  BY <1>1, <1>3, <1>4, <1>5, IsTouch
<1> QED  BY <1>1, <1>4, <1>6 DEF Withdraw

\* An order that is not held is released as its parent allows it.
LEMMA ReleaseAllowed ==
  ASSUME NEW o \in Good, ~Held(o)
  PROVE  o.parent # 0 => o.transmit \/ ParentFilled(o)
BY DEF Held

\* The visit that moves a released order to a status.
LEMMA VisitIsTouch ==
  ASSUME IInv, NEW o, ToTry(o), NEW st \in Failing,
         Work(Move(Released(o), st)), Sync(pending'[cursor]),
         InLoop, UNCHANGED <<still, filledOco>>
  PROVE  LET p == Move(Released(o), st)
         IN  /\ o = pending[cursor] /\ phase = "order" /\ DecideAs(p, st)
             /\ p.parent # 0 => p.transmit
<1> DEFINE p == Move(Released(o), st)
<1>1. /\ o = pending[cursor] /\ phase = "order" /\ Alive(o) /\ ~Held(o) /\ cursor <= last
      /\ UNCHANGED <<bar, bars, last>>
  BY DEF ToTry, AtOrder, InLoop
<1>2. cursor \in DOMAIN pending /\ o \in Good
  BY <1>1, AtCursor DEF Resting
<1>3. p \in Good /\ Copy(o, p)
  BY <1>2, MoveReleasedIsGood
<1>4. Released(o) \in Good /\ Alive(Released(o))
  BY <1>1, <1>2, ReleaseKeepsGood, ReleasedFields DEF Alive
<1>5. p.status = st /\ (p.parent # 0 => p.transmit) /\ p.parent = o.parent
  BY <1>2, <1>4, MoveFields, ReleasedFields
<1>6. pending' = [pending EXCEPT ![cursor] = p]
  BY DEF Work
<1> HIDE DEF p
<1>7. o.parent # 0 => o.transmit \/ ParentFilled(o)
  BY <1>2, <1>1, ReleaseAllowed
<1>8. Touch(cursor, p)
  BY <1>1, <1>2, <1>3, <1>5, <1>6, <1>7, IsTouch
<1>9. DecideAs(p, st)
  BY <1>1, <1>5, <1>8 DEF DecideAs
<1> QED  BY <1>1, <1>5, <1>9 DEF p

LEMMA RejectFeedIs ==
  ASSUME IInv, NEW o, RejectFeed(o)
  PROVE  \E p : Decide(p)
<1> DEFINE p == Move(Released(o), "Rejected")
<1>1. ToTry(o) /\ Alive(o) /\ o.feed \notin Feeds /\ phase' = "order" /\ cursor' = cursor + 1
  BY DEF RejectFeed, ToTry, NextOrder
<1>2. "Rejected" \in Failing
  BY DEF Failing, OrderStatuses
<1>3. o = pending[cursor] /\ phase = "order" /\ DecideAs(p, "Rejected")
  BY <1>1, <1>2, VisitIsTouch DEF RejectFeed
<1> HIDE DEF p
<1> QED  BY <1>1, <1>3 DEF Decide

LEMMA ExpireIs ==
  ASSUME IInv, NEW o, Expire(o)
  PROVE  \E p : Decide(p)
<1> DEFINE p == Move(Released(o), "Expired")
<1>1. ToTry(o) /\ Alive(o) /\ phase' = "order" /\ cursor' = cursor + 1
  BY DEF Expire, ToTry, NextOrder
<1>2. "Expired" \in Failing
  BY DEF Failing, OrderStatuses
<1>3. o = pending[cursor] /\ phase = "order" /\ DecideAs(p, "Expired")
  BY <1>1, <1>2, VisitIsTouch DEF Expire
<1> HIDE DEF p
<1> QED  BY <1>1, <1>3 DEF Decide

\* A new order is submitted ...
LEMMA AdmittedIs ==
  ASSUME IInv, NEW o, Admit(o), o.status = "Created"
  PROVE  \E p : Decide(p)
<1> DEFINE p == Move(Released(o), "Submitted")
<1>1. /\ ToTry(o) /\ o = pending[cursor] /\ phase = "order" /\ InLoop
      /\ UNCHANGED <<still, filledOco>>
      /\ Work(p) /\ Sync(pending'[cursor]) /\ phase' = "submitted" /\ cursor' = cursor
  BY DEF Admit, ToTry, AtOrder, SameOrder
<1>2. "Submitted" \in Failing
  BY DEF Failing, OrderStatuses, AliveStatuses
<1>3. DecideAs(p, "Submitted") /\ (p.parent # 0 => p.transmit)
  BY <1>1, <1>2, VisitIsTouch
<1> HIDE DEF p
<1>4. Decide(p)
  BY <1>1, <1>3 DEF Decide
<1> QED  BY <1>4

\* ... and one accepted on an earlier bar is tried again.
LEMMA AdmitIs ==
  ASSUME IInv, NEW o, Admit(o)
  PROVE  (\E p : Decide(p)) \/ Quieten
<1>1. ToTry(o) /\ o = pending[cursor] /\ Alive(o) /\ ~Held(o) /\ phase = "order" /\ InLoop
      /\ cursor <= last /\ UNCHANGED <<still, filledOco>>
  BY DEF Admit, ToTry, AtOrder
<1>2. CASE o.status = "Created"
  BY <1>2, AdmittedIs
<1>3. CASE Work(Released(o)) /\ UNCHANGED orders /\ SameOrder("fill")
  <2> DEFINE p == Released(o)
  <2>1. cursor \in DOMAIN pending /\ o \in Good /\ pending \in Seq(Good) /\ cursor \in Nat
    BY <1>1, AtCursor, ListFacts DEF Resting
  <2>2. p \in Good /\ Copy(o, p) /\ p.status = o.status /\ (p.parent # 0 => p.transmit)
    BY <2>1, ReleaseKeepsGood, ReleasedFields
  <2>3. p = o \/ (o.parent # 0 /\ p = [o EXCEPT !.transmit = TRUE])
    BY DEF Released
  <2>4. pending' = [pending EXCEPT ![cursor] = p] /\ phase' = "fill" /\ cursor' = cursor
        /\ UNCHANGED <<orders, still, bar, bars>>
    BY <1>1, <1>3 DEF Work, SameOrder, InLoop
  <2> HIDE DEF p
  <2>5. /\ pending' \in Seq(Good) /\ DOMAIN pending' = DOMAIN pending /\ pending'[cursor] = p
        /\ \A i \in DOMAIN pending : i # cursor => pending'[i] = pending[i]
    BY <2>1, <2>2, <2>4
  <2>6. o.parent # 0 => o.transmit \/ ParentFilled(o)
    BY <1>1, <2>1, ReleaseAllowed
  <2>7. \A i \in DOMAIN pending :
           \/ pending'[i] = pending[i]
           \/ /\ pending'[i] = [pending[i] EXCEPT !.transmit = TRUE]
              /\ Copy(pending[i], pending'[i]) /\ pending'[i].status = pending[i].status
              /\ pending[i].parent # 0 => pending[i].transmit \/ ParentFilled(pending[i])
    <3> SUFFICES ASSUME NEW i \in DOMAIN pending, pending'[i] # pending[i]
                 PROVE  /\ pending'[i] = [pending[i] EXCEPT !.transmit = TRUE]
                        /\ Copy(pending[i], pending'[i]) /\ pending'[i].status = pending[i].status
                        /\ pending[i].parent # 0 => pending[i].transmit \/ ParentFilled(pending[i])
      OBVIOUS
    <3>1. i = cursor
      BY <2>5
    <3> QED  BY <1>1, <2>2, <2>3, <2>5, <2>6, <3>1
  <2>8. cursor <= cursor'
    BY <2>1, <2>4
  <2> QED  BY <1>1, <2>1, <2>2, <2>4, <2>5, <2>7, <2>8 DEF Quieten
<1> QED  BY <1>2, <1>3 DEF Admit

LEMMA AcceptOrderIs ==
  ASSUME IInv, AcceptOrder
  PROVE  \E p : Decide(p)
<1> DEFINE o == pending[cursor]
           p == Move(o, "Accepted")
<1>1. /\ phase = "submitted" /\ phase' = "fill" /\ cursor' = cursor
      /\ Sync(pending'[cursor]) /\ UNCHANGED <<still, filledOco, bar, bars, last>>
  BY DEF AcceptOrder, SameOrder, InLoop
<1>2. cursor \in DOMAIN pending /\ o \in Good /\ cursor <= last
  BY <1>1, AtReference DEF References
<1>3. p \in Good /\ Copy(o, p)
  BY <1>2, MoveKeepsGood DEF Failing, OrderStatuses, AliveStatuses
<1>4. p.status = (IF Alive(o) THEN "Accepted" ELSE o.status) /\ p.transmit = o.transmit
  BY <1>2, MoveFields
<1>5. pending' = [pending EXCEPT ![cursor] = p]
  BY DEF AcceptOrder, Work
<1> HIDE DEF p
<1>6. Touch(cursor, p)
  BY <1>1, <1>2, <1>3, <1>4, <1>5, IsTouch
<1>7. Decide(p)
  BY <1>1, <1>2, <1>4, <1>6 DEF Decide, DecideAs
<1> QED  BY <1>7
-----------------------------------------------------------------------------
(* try_fill_order *)

\* The try that ends with p in the place of the order.
LEMMA TryIsTouch ==
  ASSUME IInv, NEW o, Trying(o), NEW p \in Good, Copy(o, p), p.transmit = o.transmit,
         Work(p), Sync(pending'[cursor]), SameOrder("filled"), InLoop,
         UNCHANGED <<still, filledOco>>
  PROVE  /\ phase = "fill" /\ phase' = "filled" /\ cursor' = cursor /\ cursor <= last
         /\ o = pending[cursor] /\ Touch(cursor, p)
<1>1. phase = "fill" /\ o = pending[cursor]
  BY DEF Trying
<1>2. cursor \in DOMAIN pending /\ cursor <= last
  BY <1>1, AtReference DEF References
<1>3. phase' = "filled" /\ cursor' = cursor /\ UNCHANGED <<bar, bars, last>>
  BY DEF SameOrder, InLoop
<1>4. Touch(cursor, p)
  BY <1>1, <1>2, <1>3, IsTouch DEF Work
<1> QED  BY <1>1, <1>2, <1>3, <1>4

LEMMA RejectUnpricedIs ==
  ASSUME IInv, NEW o, RejectUnpriced(o)
  PROVE  \E p : Decide(p)
<1> DEFINE p == Move(o, "Rejected")
<1>1. o \in Good
  BY TryingFacts DEF RejectUnpriced
<1>2. p \in Good /\ Copy(o, p)
  BY <1>1, MoveKeepsGood DEF Failing, OrderStatuses
<1>3. p.status = (IF Alive(o) THEN "Rejected" ELSE o.status) /\ p.transmit = o.transmit
  BY <1>1, MoveFields
<1>4. Trying(o) /\ Work(p) /\ Sync(pending'[cursor]) /\ SameOrder("filled") /\ InLoop
      /\ UNCHANGED <<still, filledOco>>
  BY DEF RejectUnpriced
<1> HIDE DEF p
<1>5. Decide(p)
  BY <1>2, <1>3, <1>4, TryIsTouch DEF Decide, DecideAs
<1> QED  BY <1>5

LEMMA MarginCallIs ==
  ASSUME IInv, NEW o, MarginCall(o)
  PROVE  \E p : Decide(p)
<1> DEFINE p == Move(o, "Margin")
<1>1. o \in Good
  BY TryingFacts DEF MarginCall
<1>2. p \in Good /\ Copy(o, p)
  BY <1>1, MoveKeepsGood DEF Failing, OrderStatuses
<1>3. p.status = (IF Alive(o) THEN "Margin" ELSE o.status) /\ p.transmit = o.transmit
  BY <1>1, MoveFields
<1>4. Trying(o) /\ Work(p) /\ Sync(pending'[cursor]) /\ SameOrder("filled") /\ InLoop
      /\ UNCHANGED <<still, filledOco>>
  BY DEF MarginCall
<1> HIDE DEF p
<1>5. Decide(p)
  BY <1>2, <1>3, <1>4, TryIsTouch DEF Decide, DecideAs
<1> QED  BY <1>5

LEMMA FillOrderIs ==
  ASSUME IInv, NEW o, FillOrder(o)
  PROVE  \E p : Decide(p)
<1> DEFINE b == bars[o.feed]
           q == Price(o)
           f == [Execute(o, q, o.size) EXCEPT !.execBar = bar]
           p == IF Alive(o) THEN f ELSE o
<1>1. /\ o \in Good /\ o.born < bar /\ o.feed \in Feeds /\ b \in Bars /\ ~PastDue(o)
      /\ bar \in Nat
  BY TryingFacts DEF FillOrder
<1>2. ~LacksStop(o) /\ FillPrice(slip, o, b) # None /\ q = FillPrice(slip, o, b)
  BY DEF FillOrder, Priced, Price
<1>3. ~(o.valid # None /\ bar > o.valid)
  BY <1>1 DEF PastDue
<1>4. Alive(o) => f \in Good /\ Copy(o, f)
  <2> HIDE DEF b
  <2> QED  BY <1>1, <1>2, <1>3, FillKeepsGood
<1>5. Alive(o) => f.status = "Completed" /\ f.transmit = o.transmit /\ f.execBar = bar
  BY <1>1 DEF Execute, Good, OrderRecords
<1>6. Trying(o) /\ Work(p) /\ Sync(pending'[cursor]) /\ SameOrder("filled") /\ InLoop
      /\ UNCHANGED <<still, filledOco>>
  BY DEF FillOrder
<1> HIDE DEF f
<1>7. /\ p \in Good /\ Copy(o, p) /\ p.transmit = o.transmit
      /\ p.status = IF Alive(o) THEN "Completed" ELSE o.status
      /\ Alive(o) => p.execBar = bar
  BY <1>1, <1>4, <1>5, CopyRefl
<1> HIDE DEF p
<1>8. Decide(p)
  BY <1>6, <1>7, TryIsTouch DEF Decide, DecideAs
<1> QED  BY <1>8
-----------------------------------------------------------------------------
(* The kinds of step that keep an order, or only move on *)

LEMMA HoldChildIs ==
  ASSUME IInv, NEW o, HoldChild(o)
  PROVE  \E p : KeepAs(p)
<1>1. /\ o = pending[cursor] /\ phase = "order" /\ cursor <= last /\ Alive(o) /\ Held(o)
      /\ Keep(o) /\ phase' = "order" /\ cursor' = cursor + 1
      /\ UNCHANGED <<orders, pending, filledOco, bar, bars, last>>
  BY DEF HoldChild, AtOrder, NextOrder, InLoop
<1>2. cursor \in DOMAIN pending /\ o \in Good /\ pending \in Seq(Good)
  BY <1>1, AtCursor, ListFacts DEF Resting
<1>3. pending' = [pending EXCEPT ![cursor] = o]
  BY <1>1, <1>2
<1>4. ~o.transmit
  BY <1>1 DEF Held
<1>5. KeepAs(o)
  BY <1>1, <1>2, <1>3, <1>4, CopyRefl DEF KeepAs
<1> QED  BY <1>5

LEMMA KeepUntilDataIs ==
  ASSUME IInv, NEW o, KeepUntilData(o)
  PROVE  \E p : KeepAs(p)
<1> DEFINE p == Released(o)
<1>1. /\ o = pending[cursor] /\ phase = "order" /\ cursor <= last /\ Alive(o) /\ ~Held(o)
      /\ Keep(p) /\ Work(p) /\ phase' = "order" /\ cursor' = cursor + 1
      /\ o.feed \in Feeds /\ ~HasData(o.feed)
      /\ UNCHANGED <<orders, filledOco, bar, bars, last>>
  BY DEF KeepUntilData, ToTry, AtOrder, NextOrder, InLoop
<1>2. cursor \in DOMAIN pending /\ o \in Good
  BY <1>1, AtCursor DEF Resting
<1>3. p \in Good /\ Copy(o, p) /\ p.status = o.status
  BY <1>2, ReleaseKeepsGood, ReleasedFields
<1>4. p.feed = o.feed /\ p.parent = o.parent
  BY <1>3 DEF Copy
<1>5. o.parent # 0 => o.transmit \/ ParentFilled(o)
  BY <1>1, <1>2, ReleaseAllowed
<1>6. p = Released(pending[cursor])
  BY <1>1
<1>7. Alive(p)
  BY <1>1, <1>3 DEF Alive
<1> HIDE DEF p
<1>8. KeepAs(p)
  BY <1>1, <1>3, <1>4, <1>5, <1>6, <1>7 DEF KeepAs, Work
<1> QED  BY <1>8

\* A trailing stop that has followed a bar is tight on it.
LEMMA TrailTightens ==
  ASSUME NEW o \in Good, NEW b \in Bars
  PROVE  LET p == UpdateTrailStop(o, b)
         IN  /\ p.status = o.status /\ p.transmit = o.transmit
             /\ IF p.side = "Sell" THEN p.trailStop >= TrailTarget(p, b)
                                   ELSE p.trailStop <= TrailTarget(p, b)
<1> DEFINE p == UpdateTrailStop(o, b)
           t == TrailTarget(o, b)
<1>1. o.trail.perc \in Int /\ o.trail.amount \in Int /\ o.trailStop \in Int
  BY DEF Good, OrderRecords
<1>2. t \in Int
  BY <1>1, BarType, TrailTargetType
<1>3. Copy(o, p)
  BY TrailKeepsGood
<1>4. TrailTarget(p, b) = t /\ p.side = o.side
  BY <1>3 DEF Copy, TrailTarget, TrailDistance
<1> HIDE DEF t
<1>5. /\ p.status = o.status /\ p.transmit = o.transmit
      /\ p.trailStop = IF Tightens(o, t) THEN t ELSE o.trailStop
  BY DEF UpdateTrailStop, Good, OrderRecords, t
<1> HIDE DEF p
<1>6. IF p.side = "Sell" THEN p.trailStop >= t ELSE p.trailStop <= t
  BY <1>1, <1>2, <1>4, <1>5 DEF Tightens
<1> QED  BY <1>4, <1>5, <1>6 DEF p

LEMMA KeepUnfilledIs ==
  ASSUME IInv, NEW o, KeepUnfilled(o)
  PROVE  \E p : KeepAs(p)
<1> DEFINE b == bars[o.feed]
           p == IF IsTrail(o) THEN UpdateTrailStop(o, b) ELSE o
<1>1. /\ o = pending[cursor] /\ phase = "fill" /\ phase' = "order" /\ cursor' = cursor + 1
      /\ UNCHANGED <<filledOco, bar, bars, last>>
  BY DEF KeepUnfilled, Trying, NextOrder, InLoop
<1>2. /\ o \in Good /\ b \in Bars /\ cursor <= last /\ cursor \in DOMAIN pending
  BY <1>1, TryingFacts, AtCursor DEF KeepUnfilled
<1>3. /\ Work(p) /\ Keep(p) /\ ~LacksStop(o) /\ Price(o) = None
      /\ orders' = IF p # o THEN [orders EXCEPT ![o.id] = p] ELSE orders
  BY DEF KeepUnfilled
<1> HIDE DEF b
<1>4. p \in Good /\ Copy(o, p) /\ p.status = o.status /\ p.transmit = o.transmit
  BY <1>2, TrailKeepsGood, TrailTightens, CopyRefl
<1>5. IsTrail(p) => IF p.side = "Sell" THEN p.trailStop >= TrailTarget(p, b)
                                       ELSE p.trailStop <= TrailTarget(p, b)
  <2>1. IsTrail(p) <=> IsTrail(o)
    BY <1>4 DEF IsTrail, Copy
  <2> QED  BY <1>2, <2>1, TrailTightens
<1> HIDE DEF p
<1>6. b = bars[p.feed]
  BY <1>4 DEF b, Copy
<1>7. IsTrail(p) => Tight(p)
  BY <1>5, <1>6 DEF Tight
<1>8. Sync(p) \/ (p = o /\ UNCHANGED orders)
  BY <1>3, <1>4 DEF Sync, Copy
<1>9. KeepAs(p)
  BY <1>1, <1>2, <1>3, <1>4, <1>7, <1>8 DEF KeepAs, Work
<1> QED  BY <1>9
-----------------------------------------------------------------------------
(* The kinds of step that append *)

\* buy, sell and close, from the strategy or from a callback.
LEMMA OneRequestIs ==
  ASSUME IInv, NEW r \in RequestRecords, r.size # 0,
         Push(<<NewOrder(Len(orders) + 1, r, 0, {}, TRUE)>>),
         UNCHANGED <<phase, cursor, still, filledOco, bar, bars, last>>,
         phase = "strategy" \/ Callbacks # {}
  PROVE  \E new : Pushes(new)
<1> DEFINE n   == Len(orders) + 1
           t   == TRUE
           o   == NewOrder(n, r, 0, {}, t)
           new == <<o>>
<1>1. bar \in Nat /\ n \in Nat
  BY ListFacts
<1>2. {} \in SUBSET Nat /\ t \in BOOLEAN
  OBVIOUS
<1> HIDE DEF t
<1>3. o.status = "Created" /\ o.parent = 0
  BY DEF NewOrder
<1> HIDE DEF n
<1>4. o \in Good /\ o.id = n /\ o.born = bar
  BY <1>1, <1>2, NewOrderIsGood
<1>5. Push(new)
  BY DEF n, t
<1> HIDE DEF o
<1>6. new \in Seq(Good) /\ DOMAIN new = {1} /\ new[1] = o /\ Len(new) = 1
  BY <1>4
<1> HIDE DEF new
<1>7. Numbered(new, Len(orders))
  BY <1>4, <1>6 DEF Numbered, n
<1>8. Pushes(new)
  BY <1>3, <1>5, <1>6, <1>7 DEF Pushes
<1> QED  BY <1>8

LEMMA SubmitIs ==
  ASSUME IInv, NoEmptyOrders, NEW r \in Requests, Submit(r)
  PROVE  \E new : Pushes(new)
<1>1. r \in RequestRecords /\ r.size # 0
  BY BrokerAssumption DEF NoEmptyOrders
<1> QED  BY <1>1, OneRequestIs DEF Submit, StrategyActs, Idle, loopVars

LEMMA ClosePositionIs ==
  ASSUME IInv, NEW d \in Feeds, ClosePosition(d)
  PROVE  \E new : Pushes(new)
<1> DEFINE side == IF position[d].size > 0 THEN "Sell" ELSE "Buy"
           r    == MarketRequest(side, Abs(position[d].size), d)
<1>1. position[d].size \in Int /\ position[d].size # 0
  BY DEF IInv, LedgerInv, LedgerTypeOK, ClosePosition
<1>2. Abs(position[d].size) \in Nat /\ Abs(position[d].size) # 0
  BY <1>1, AbsType
<1>3. d \in Nat /\ side \in OrderSides
  BY BrokerAssumption DEF OrderSides
<1>4. r \in RequestRecords /\ r.size # 0
  BY <1>2, <1>3, MarketRequestType DEF MarketRequest
<1>5. Push(<<NewOrder(Len(orders) + 1, r, 0, {}, TRUE)>>)
  BY DEF ClosePosition
<1> HIDE DEF r
<1> QED  BY <1>4, <1>5, OneRequestIs DEF ClosePosition, StrategyActs, Idle, loopVars

LEMMA CallbackSubmitIs ==
  ASSUME IInv, NoEmptyOrders, NEW r \in Requests, CallbackSubmit(r)
  PROVE  \E new : Pushes(new)
<1>1. r \in RequestRecords /\ r.size # 0 /\ Callbacks # {}
  BY BrokerAssumption DEF NoEmptyOrders, CallbackSubmit
<1> QED  BY <1>1, OneRequestIs DEF CallbackSubmit, InCallback, loopVars

\* What a leg's order looks like.
LEMMA LegFields ==
  ASSUME NEW b, NEW leg, NEW size, NEW id, NEW parent, NEW children,
         NEW i \in DOMAIN Leg(b, leg, size, id, parent, children)
  PROVE  LET o == Leg(b, leg, size, id, parent, children)[i]
         IN  /\ size[leg] # None /\ i = 1 /\ o.status = "Created" /\ o.parent = parent
             /\ o.children = children
             /\ leg # "main" => ~o.transmit
             /\ leg = "main" => o.feed = b.feed
<1> DEFINE r == LegRequest(b, leg, size[leg])
           o == NewOrder(id, r, parent, children, leg = "main")
           s == Leg(b, leg, size, id, parent, children)
<1>1. size[leg] # None
  BY DEF Leg
<1>2. s = <<o>>
  BY <1>1 DEF Leg
<1>3. leg = "main" => r.feed = b.feed
  BY DEF LegRequest, MarketRequest
<1> HIDE DEF r
<1>4. /\ o.status = "Created" /\ o.parent = parent /\ o.children = children
      /\ o.feed = r.feed /\ (leg # "main" => ~o.transmit)
  BY DEF NewOrder
<1> HIDE DEF o, s
<1>5. i = 1 /\ s[i] = o
  BY <1>2 DEF s
<1> QED  BY <1>1, <1>3, <1>4, <1>5 DEF s

LEMMA ConcatElements ==
  ASSUME NEW s \in Seq(Good), NEW t \in Seq(Good), NEW k \in DOMAIN (s \o t)
  PROVE  /\ \/ k \in DOMAIN s /\ (s \o t)[k] = s[k]
            \/ \E i \in DOMAIN t : (s \o t)[k] = t[i]
         /\ s \o t \in Seq(Good)
<1> DEFINE l == Len(s)  m == Len(t)  u == s \o t
<1>1. l \in Nat /\ m \in Nat /\ DOMAIN s = 1..l /\ DOMAIN t = 1..m
  OBVIOUS
<1>2. /\ DOMAIN u = 1..(l + m) /\ u \in Seq(Good)
      /\ \A j \in 1..(l + m) : u[j] = IF j <= l THEN s[j] ELSE t[j - l]
  OBVIOUS
<1> HIDE DEF l, m, u
<1>3. CASE k <= l
  <2>1. k \in DOMAIN s /\ u[k] = s[k]
    BY <1>1, <1>2, <1>3 DEF u
  <2> QED  BY <1>2, <2>1 DEF u
<1>4. CASE ~(k <= l)
  <2>1. k - l \in DOMAIN t /\ u[k] = t[k - l]
    BY <1>1, <1>2, <1>4 DEF u
  <2> QED  BY <1>2, <2>1 DEF u
<1>5. k \in 1..(l + m)
  BY <1>2 DEF u
<1> QED  BY <1>3, <1>4

LEMMA PlaceBracketIs ==
  ASSUME IInv, NoEmptyOrders, NEW b \in Brackets, NEW size \in HookResults,
         PlaceBracket(b, size)
  PROVE  \E new : Pushes(new)
<1> DEFINE x   == MainLeg(b, size)
           y   == LimitLeg(b, size)
           z   == StopLeg(b, size)
           new == BracketOrders(b, size)
<1>1. /\ Push(new) /\ phase = "strategy" /\ Numbered(new, Len(orders)) /\ Len(new) \in 0..3
      /\ UNCHANGED <<phase, cursor, still, filledOco, bar, bars, last>>
  BY PlaceBracketPushes, BracketIsNumbered DEF Idle, loopVars, StrategyActs
<1>2. /\ x \in Seq(Good) /\ y \in Seq(Good) /\ z \in Seq(Good) /\ new = (x \o y) \o z
      /\ size["main"] # None => 1 \in DOMAIN x
  BY BracketIsNumbered DEF BracketOrders
<1>3. \A i \in DOMAIN x : /\ x[i].status = "Created" /\ x[i].parent = 0
                          /\ x[i].children # {} /\ x[i].feed = b.feed
  <2> SUFFICES ASSUME NEW i \in DOMAIN x
               PROVE  /\ x[i].status = "Created" /\ x[i].parent = 0
                      /\ x[i].children = {LimitId(size), StopId(size)} /\ x[i].feed = b.feed
    OBVIOUS
  <2> DEFINE kids == {LimitId(size), StopId(size)}
             leg  == "main"
  <2>1. x = Leg(b, leg, size, MainId(size), 0, kids)
    BY DEF MainLeg
  <2> HIDE DEF x, kids, leg
  <2>2. /\ x[i].status = "Created" /\ x[i].parent = 0 /\ x[i].children = kids
        /\ leg = "main" => x[i].feed = b.feed
    BY <2>1, LegFields
  <2> QED  BY <2>2 DEF kids, leg
<1>4. /\ \A i \in DOMAIN y : y[i].status = "Created" /\ y[i].parent = MainId(size) /\ ~y[i].transmit
      /\ \A i \in DOMAIN z : z[i].status = "Created" /\ z[i].parent = MainId(size) /\ ~z[i].transmit
  <2>1. ASSUME NEW i \in DOMAIN y
        PROVE  y[i].status = "Created" /\ y[i].parent = MainId(size) /\ ~y[i].transmit
    BY LegFields DEF LimitLeg
  <2>2. ASSUME NEW i \in DOMAIN z
        PROVE  z[i].status = "Created" /\ z[i].parent = MainId(size) /\ ~z[i].transmit
    BY LegFields DEF StopLeg
  <2> QED  BY <2>1, <2>2
<1>5. size["main"] # None => 1 \in DOMAIN new /\ new[1] = x[1]
  <2>1. x \o y \in Seq(Good)
    BY <1>2
  <2>2. ASSUME 1 \in DOMAIN x PROVE 1 \in DOMAIN new /\ new[1] = x[1]
    <3> HIDE DEF x, y, z, new
    <3>1. 1 \in DOMAIN (x \o y) /\ (x \o y)[1] = x[1]
      BY <1>2, <2>2
    <3> QED  BY <1>2, <2>1, <3>1
  <2> QED  BY <1>2, <2>2
<1> HIDE DEF x, y, z, new
<1>6. ASSUME NEW k \in DOMAIN new
      PROVE  new[k].status = "Created" /\ (new[k].parent # 0 => LegOf(new, new[k]))
  <2>1. \/ \E i \in DOMAIN x : new[k] = x[i]
        \/ \E i \in DOMAIN y : new[k] = y[i]
        \/ \E i \in DOMAIN z : new[k] = z[i]
    <3>1. x \o y \in Seq(Good) /\ new = (x \o y) \o z
      BY <1>2
    <3>2. \/ k \in DOMAIN (x \o y) /\ new[k] = (x \o y)[k]
          \/ \E i \in DOMAIN z : new[k] = z[i]
      BY <1>2, <3>1, ConcatElements
    <3>3. ASSUME k \in DOMAIN (x \o y)
          PROVE  \/ k \in DOMAIN x /\ (x \o y)[k] = x[k]
                 \/ \E i \in DOMAIN y : (x \o y)[k] = y[i]
      BY <1>2, <3>3, ConcatElements
    <3> QED  BY <3>2, <3>3
  <2>2. CASE \E i \in DOMAIN x : new[k] = x[i]
    BY <1>3, <2>2
  <2>3. CASE new[k].status = "Created" /\ new[k].parent = MainId(size) /\ ~new[k].transmit
    <3> SUFFICES ASSUME new[k].parent # 0 PROVE LegOf(new, new[k])
      BY <2>3
    <3>1. size["main"] # None /\ new[k].parent = Len(orders) + 1
      BY <2>3 DEF MainId
    <3>2. 1 \in DOMAIN x /\ 1 \in DOMAIN new /\ new[1] = x[1]
      BY <1>2, <1>5, <3>1
    <3> QED  BY <1>3, <2>3, <3>1, <3>2 DEF LegOf
  <2> QED  BY <1>4, <2>1, <2>2, <2>3
<1>7. Pushes(new)
  BY <1>1, <1>6 DEF Pushes
<1> QED  BY <1>7
-----------------------------------------------------------------------------
(* The kind of step that only moves on *)

LEMMA MovesOn ==
  ASSUME IInv, UNCHANGED <<orders, pending, still, bar, bars>>,
         cursor' \in Nat, cursor <= cursor',
         phase' = "strategy" => phase = "strategy",
         phase' \in {"submitted", "fill"} => phase = phase' /\ cursor' = cursor
  PROVE  Quieten
BY ListFacts DEF Quieten

LEMMA LoopMovesOn ==
  ASSUME IInv, NextOrder \/ SameOrder("sweep") \/ SameOrder("children"),
         UNCHANGED <<orders, pending, still, bar, bars>>
  PROVE  Quieten
<1>1. cursor \in Nat
  BY ListFacts
<1>2. cursor' \in Nat /\ cursor <= cursor' /\ phase' \in {"order", "sweep", "children"}
  BY <1>1 DEF NextOrder, SameOrder
<1> QED  BY <1>2, MovesOn

LEMMA CallbackMovesOn ==
  ASSUME IInv, InCallback, UNCHANGED <<orders, pending>>, phase' \in {phase, "undefined"}
  PROVE  Quieten
<1>1. cursor \in Nat
  BY ListFacts
<1>2. UNCHANGED <<still, bar, bars, cursor>>
  BY DEF InCallback, loopVars
<1> QED  BY <1>1, <1>2, MovesOn

LEMMA SettleOrderIs ==
  ASSUME IInv, NEW o, SettleOrder(o)
  PROVE  Quieten
<1>1. /\ o = pending[cursor] /\ phase = "filled" /\ UNCHANGED <<orders, still, bar, bars>>
      /\ NextOrder \/ SameOrder("children")
  BY DEF SettleOrder, InLoop
<1>2. CASE UNCHANGED pending
  BY <1>1, <1>2, LoopMovesOn
<1>3. CASE o.status = "Completed" /\ pending' = Activate(o.id)
  <2>1. cursor \in DOMAIN pending /\ cursor \in Nat
    BY <1>1, AtReference, ListFacts DEF References
  <2>2. cursor' \in Nat /\ cursor <= cursor' /\ phase' \in {"order", "children"}
    BY <1>1, <2>1 DEF NextOrder, SameOrder
  <2>3. pending' \in Seq(Good)
    <3>1. ListsStep
      BY <1>1, <1>3, ActivateLists
    <3> QED  BY <3>1 DEF ListsStep, ListOK
  <2>4. DOMAIN pending' = DOMAIN pending
    BY <1>3 DEF Activate
  <2>5. ASSUME NEW i \in DOMAIN pending, pending'[i] # pending[i]
        PROVE  /\ pending'[i] = [pending[i] EXCEPT !.transmit = TRUE]
               /\ Copy(pending[i], pending'[i]) /\ pending'[i].status = pending[i].status
               /\ pending[i].parent = o.id
    <3>1. pending[i] \in Good
      BY ListFacts
    <3>2. pending[i].parent = o.id /\ pending'[i] = [pending[i] EXCEPT !.transmit = TRUE]
      BY <1>3, <2>5 DEF Activate
    <3>3. [pending[i] EXCEPT !.transmit = TRUE].status = pending[i].status
      BY <3>1 DEF Good, OrderRecords
    <3> QED  BY <3>1, <3>2, <3>3, TransmitKeepsGood
  <2> QED  BY <1>1, <1>3, <2>1, <2>2, <2>3, <2>4, <2>5 DEF Quieten
<1> QED  BY <1>1, <1>2, <1>3 DEF SettleOrder
-----------------------------------------------------------------------------
(* Every step *)

LEMMA OneOrderFollows ==
  ASSUME BInv, NEW o, OneOrder(o)
  PROVE  BookStep
<1>1. IInv
  BY DEF BInv
<1>2. CASE SkipDead(o)
  BY <1>1, <1>2, LoopMovesOn, QuietKeeps DEF SkipDead, InLoop
<1>3. CASE HoldChild(o) \/ KeepUntilData(o) \/ KeepUnfilled(o)
  BY <1>1, <1>3, HoldChildIs, KeepUntilDataIs, KeepUnfilledIs, KeepKeeps
<1>4. CASE RejectFeed(o) \/ Expire(o) \/ RejectUnpriced(o) \/ MarginCall(o) \/ FillOrder(o)
  BY <1>1, <1>4, RejectFeedIs, ExpireIs, RejectUnpricedIs, MarginCallIs, FillOrderIs,
     DecideKeeps
<1>5. CASE Admit(o)
  BY <1>1, <1>5, AdmitIs, DecideKeeps, QuietKeeps
<1>6. CASE SettleOrder(o)
  BY <1>1, <1>6, SettleOrderIs, QuietKeeps
<1> QED  BY <1>2, <1>3, <1>4, <1>5, <1>6 DEF OneOrder

LEMMA StrategyFollows ==
  ASSUME BInv, NoEmptyOrders, Strategy
  PROVE  BookStep
<1>1. IInv
  BY DEF BInv
<1>2. CASE \E r \in Requests : Submit(r)
  BY <1>1, <1>2, SubmitIs, PushKeeps
<1>3. CASE \E d \in Feeds : ClosePosition(d)
  BY <1>1, <1>3, ClosePositionIs, PushKeeps
<1>4. CASE \E b \in Brackets, size \in HookResults : PlaceBracket(b, size)
  BY <1>1, <1>4, PlaceBracketIs, PushKeeps
<1>5. CASE \E id \in DOMAIN orders : Cancel(id)
  <2>1. PICK id : Cancel(id)
    BY <1>5
  <2>2. \E i, p : Withdraw(i, p)
    BY <1>1, <2>1, CancelPendingIs DEF Cancel, StrategyActs, loopVars
  <2> QED  BY <2>2, WithdrawKeeps
<1>6. CASE NextOcoGroup
  <2>1. cursor \in Nat
    BY <1>1, ListFacts
  <2>2. Quieten
    BY <1>1, <1>6, <2>1, MovesOn DEF NextOcoGroup, Idle, loopVars
  <2> QED  BY <2>2, QuietKeeps
<1>7. CASE StartBar
  BY <1>7, StartBarFollows
<1> QED  BY <1>2, <1>3, <1>4, <1>5, <1>6, <1>7 DEF Strategy

LEMMA ProcessOrdersFollows ==
  ASSUME BInv, ProcessOrders
  PROVE  BookStep
<1>1. IInv
  BY DEF BInv
<1>2. CASE \E i \in DOMAIN pending : OneOrder(pending[i])
  BY <1>2, OneOrderFollows
<1>3. CASE \E i \in DOMAIN pending : CancelChild(i)
  BY <1>1, <1>3, CancelChildIs, WithdrawKeeps
<1>4. CASE AcceptOrder
  BY <1>1, <1>4, AcceptOrderIs, DecideKeeps
<1>5. CASE ChildrenDone \/ LoopEnds
  BY <1>1, <1>5, LoopMovesOn, QuietKeeps DEF ChildrenDone, LoopEnds, InLoop
<1>6. CASE \E i \in DOMAIN still : SweepCancel(i)
  BY <1>6, SweepCancelFollows
<1>7. CASE FinishBar
  BY <1>7, FinishBarFollows
<1> QED  BY <1>2, <1>3, <1>4, <1>5, <1>6, <1>7 DEF ProcessOrders

LEMMA CallbackFollows ==
  ASSUME BInv, NoEmptyOrders, Callback
  PROVE  BookStep
<1>1. IInv
  BY DEF BInv
<1>2. CASE CallbackReturn \/ CallbackReallocates
  BY <1>1, <1>2, CallbackMovesOn, QuietKeeps DEF CallbackReturn, CallbackReallocates
<1>3. CASE \E id \in DOMAIN orders : CallbackCancel(id)
  <2>1. PICK id : CallbackCancel(id)
    BY <1>3
  <2>2. \E i, p : Withdraw(i, p)
    BY <1>1, <2>1, CancelPendingIs DEF CallbackCancel, InCallback, loopVars
  <2> QED  BY <2>2, WithdrawKeeps
<1>4. CASE \E r \in Requests : CallbackSubmit(r)
  BY <1>1, <1>4, CallbackSubmitIs, PushKeeps
<1> QED  BY <1>2, <1>3, <1>4 DEF Callback

LEMMA BookStutters ==
  ASSUME BInv, UNCHANGED vars
  PROVE  BookStep
<1>1. UNCHANGED <<orders, pending, still, bar, bars, phase, cursor>> /\ IInv
  BY DEF vars, loopVars, BInv
<1>2. cursor \in Nat
  BY <1>1, ListFacts
<1> QED  BY <1>1, <1>2, MovesOn, QuietKeeps

LEMMA BookKeeps ==
  ASSUME BInv, NoEmptyOrders, [Next]_vars
  PROVE  BInv' /\ Frozen
<1>1. BookStep
  BY StrategyFollows, ProcessOrdersFollows, CallbackFollows, BookStutters DEF Next
<1>2. IInv'
  BY NextKeeps, StutterKeeps DEF BInv
<1> QED  BY <1>1, <1>2 DEF BookStep, BInv

LEMMA BookBegins == Init => BInv
<1> SUFFICES ASSUME Init PROVE BInv
  OBVIOUS
<1>1. /\ orders = << >> /\ pending = << >> /\ still = << >> /\ phase = "strategy"
  BY DEF Init
<1>2. Ordered /\ Behind /\ FillsAgree /\ LinksOK /\ TrailsOK
  BY <1>1 DEF Ordered, Increasing, Behind, FillsAgree, LinksOK, FillsLinked, TrailsOK
<1> QED  BY <1>2, InitKeeps DEF BInv

LEMMA BookHolds ==
  ASSUME NoEmptyOrders
  PROVE  Spec => []BInv /\ [][Frozen]_vars
<1>1. Init => BInv
  BY BookBegins
<1>2. BInv /\ [Next]_vars => BInv' /\ Frozen
  BY BookKeeps
<1> QED  BY <1>1, <1>2, PTL DEF Spec

\* Whatever is canceled, submitted or activated meanwhile, an order that
\* all_orders_ reports Completed is never changed again: no copy of it that
\* process_orders or a callback still holds overwrites the fill.
THEOREM FillsAreFinal == ASSUME NoEmptyOrders PROVE Spec => CompletedIsFinal
<1>1. Frozen => \A id \in DOMAIN orders :
                  orders[id].status = "Completed" => orders'[id] = orders[id]
  BY DEF Frozen
<1>2. UNCHANGED vars => \A id \in DOMAIN orders :
                          orders[id].status = "Completed" => orders'[id] = orders[id]
  BY DEF vars
<1> QED  BY <1>1, <1>2, BookHolds, PTL DEF CompletedIsFinal

\* No leg of a bracket fills before its main order has, or in an earlier bar
\* (is_parent_filled, activate_bracket_children).
THEOREM LegsFillAfterMain == ASSUME NoEmptyOrders PROVE Spec => []LegsAfterMain
<1>1. BInv => LegsAfterMain
  BY DEF BInv, LinksOK, FillsLinked, ParentFilled, LegsAfterMain
<1> QED  BY <1>1, BookHolds, PTL

\* A trailing stop that process_orders keeps for the next bar is as tight as
\* the bar it has just seen demands (update_trail_stop).
THEOREM TrailsFollowBars == ASSUME NoEmptyOrders PROVE Spec => []TrailFollowsBar
<1>1. BInv => TrailFollowsBar
  BY DEF BInv, TrailsOK, Follows, Tight, HasData, TrailFollowsBar, BetweenBars
<1> QED  BY <1>1, BookHolds, PTL
-----------------------------------------------------------------------------
(* Without calls from inside notify_order *)

\* p and o are copies that differ in transmit at most.
Alike(o, p) ==
  /\ Copy(o, p) /\ p.status = o.status /\ p.trailStop = o.trailStop
  /\ p.execPrice = o.execPrice /\ p.execSize = o.execSize /\ p.execBar = o.execBar

Silent == ~notified

CursorOK ==
  /\ phase # "undefined"
  /\ phase = "strategy" => cursor = 1
  /\ phase # "strategy" => last = Len(pending)

SameCopies ==
  /\ phase # "sweep" => \A i \in DOMAIN pending : Alike(orders[pending[i].id], pending[i])
  /\ \A k \in DOMAIN still : Alike(orders[still[k].id], still[k])

\* An order that is alive is still to be visited, or it has been kept.
Accounted ==
  \A id \in DOMAIN orders : Alive(orders[id]) =>
    \/ phase # "sweep" /\ \E i \in DOMAIN pending : cursor <= i /\ pending[i].id = id
    \/ \E k \in DOMAIN still : still[k].id = id

\* Where the order at the cursor is in its life.
StatusOK ==
  /\ phase = "submitted" => pending[cursor].status = "Submitted"
  /\ phase = "fill" => pending[cursor].status = "Accepted"
  /\ phase \in {"filled", "children"} => ~Alive(pending[cursor])
  /\ \A id \in DOMAIN orders :
       /\ orders[id].status # "Partial"
       /\ orders[id].status = "Submitted" => phase = "submitted" /\ pending[cursor].id = id

\* Slippage never keeps a market order from being filled.
AlwaysPriced == slip.open => slip.match \/ slip.out

Decided(o) ==
  o.type = "Market" /\ Alive(o) /\ AlwaysPriced => o.feed \in Feeds /\ bars[o.feed] = None

MarketsOK ==
  /\ phase = "strategy" => \A i \in DOMAIN pending : pending[i].born < bar => Decided(pending[i])
  /\ \A k \in DOMAIN still : Decided(still[k])

\* During the bar, filledOco holds the groups of the orders that fill.
GroupsOK ==
  /\ OcoGroupClosed
  /\ phase # "strategy" => \A id \in DOMAIN orders :
       orders[id].oco # 0 /\ orders[id].execBar = bar =>
         \/ orders[id].oco \in filledOco
         \/ phase = "filled" /\ pending[cursor].id = id

AInv == /\ BInv /\ Silent /\ CursorOK /\ SameCopies /\ Accounted /\ StatusOK
        /\ MarketsOK /\ GroupsOK

LEMMA AlikeIsSame ==
  ASSUME NEW o \in Good, NEW p \in Good, Alike(o, p)
  PROVE  [o EXCEPT !.transmit = TRUE] = [p EXCEPT !.transmit = TRUE]
<1> DEFINE u == [o EXCEPT !.transmit = TRUE]  v == [p EXCEPT !.transmit = TRUE]
<1>1. o \in OrderRecords /\ p \in OrderRecords
  BY DEF Good
<1>2. u \in OrderRecords /\ v \in OrderRecords
  BY <1>1 DEF OrderRecords
<1>3. /\ u.id = v.id /\ u.type = v.type /\ u.side = v.side /\ u.size = v.size
      /\ u.price = v.price /\ u.stop = v.stop /\ u.feed = v.feed /\ u.valid = v.valid
      /\ u.trail = v.trail /\ u.oco = v.oco /\ u.parent = v.parent
      /\ u.children = v.children /\ u.transmit = v.transmit
  BY <1>1 DEF OrderRecords, Alike, Copy
<1>4. /\ u.trailStop = v.trailStop /\ u.status = v.status /\ u.execPrice = v.execPrice
      /\ u.execSize = v.execSize /\ u.born = v.born /\ u.execBar = v.execBar
  BY <1>1 DEF OrderRecords, Alike, Copy
<1> HIDE DEF u, v
<1>5. u = v
  BY <1>2, <1>3, <1>4 DEF OrderRecords
<1> QED  BY <1>5 DEF u, v

LEMMA AlikeRefl == \A o : Alike(o, o)
BY DEF Alike, Copy

LEMMA AlikeTrans == ASSUME NEW o, NEW p, NEW q, Alike(o, p), Alike(p, q)
  PROVE Alike(o, q)
BY DEF Alike, Copy

\* A market order that slippage cannot keep from being filled is filled on the first bar.
LEMMA MarketFills ==
  ASSUME NEW o \in Good, NEW b \in Bars, o.type = "Market", AlwaysPriced
  PROVE  FillPrice(slip, o, b) # None
<1>1. IsBar(b) /\ IsSlip(slip)
  BY BarType, SlipType
<1>2. Triggered(o, b) /\ RawPrice(o, b) = b.open /\ b.open \in Int
  BY <1>1 DEF Triggered, RawPrice, IsBar
<1>3. CASE ~slip.open
  BY <1>1, <1>2, <1>3, NoneAssumption DEF FillPrice, Slips
<1>4. CASE slip.open
  <2> DEFINE a == Slipped(slip, b.open, o.side)
  <2>1. a \in Int
    BY <1>1, <1>2 DEF Slipped, IsSlip
  <2>2. FillPrice(slip, o, b) = ApplySlippage(slip, b.open, o.side, b)
    BY <1>2, <1>4 DEF FillPrice, Slips
  <2>3. a # None /\ Clamp(a, b) # None
    BY <1>1, <2>1, NoneAssumption DEF Clamp, Max2, Min2, IsBar
  <2> QED  BY <1>4, <2>2, <2>3 DEF ApplySlippage, AlwaysPriced
<1> QED  BY <1>1, <1>3, <1>4 DEF IsSlip

\* std::erase_if leaves every order that is alive.
LEMMA ErasesKeepsAlive ==
  ASSUME NEW s \in Seq(Good), NEW t, Erases(s, t), NEW i \in DOMAIN s, Alive(s[i])
  PROVE  \E k \in DOMAIN t : t[k] = s[i]
<1> DEFINE A == {j \in DOMAIN s : Alive(s[j])}
           n == Cardinality(A)
<1>1. IsFiniteSet(DOMAIN s)
  BY SeqIndices, FS_Interval
<1>2. IsFiniteSet(A) /\ n \in Nat
  BY <1>1, FS_Subset, FS_CardinalityType
<1>3. PICK f \in [1..n -> DOMAIN s] :
        /\ \A j, k \in 1..n : j < k => f[j] < f[k]
        /\ \A j \in 1..n : Alive(s[f[j]])
        /\ t = [j \in 1..n |-> s[f[j]]]
  BY DEF Erases
<1>4. f \in [1..n -> A]
  BY <1>3
<1>5. \A j, k \in 1..n : f[j] = f[k] => j = k
  <2> SUFFICES ASSUME NEW j \in 1..n, NEW k \in 1..n, f[j] = f[k] PROVE j = k
    OBVIOUS
  <2>1. f[j] \in Nat /\ f[k] \in Nat
    BY <1>3, SeqIndices
  <2>2. ~(j < k) /\ ~(k < j)
    BY <1>3, <2>1
  <2> QED  BY <1>2, <2>2
<1>8. i \in A /\ n = Cardinality(A)
  OBVIOUS
<1> HIDE DEF A, n
<1>6. f \in Injection(1..n, A)
  BY <1>4, <1>5 DEF Injection, IsInjective
<1>7. Cardinality(1..n) = n
  BY <1>2, FS_Interval
<1>9. Cardinality(1..n) = Cardinality(A)
  BY <1>7, <1>8
<1>10. f \in Surjection(1..n, A)
  BY <1>2, <1>6, <1>9, FS_Injection
<1>11. PICK k \in 1..n : f[k] = i
  BY <1>8, <1>10 DEF Surjection
<1>12. k \in DOMAIN t /\ t[k] = s[i]
  BY <1>3, <1>11
<1> QED  BY <1>12

\* What every step does, as long as nothing is called from notify_order.
AgreeStep ==
  CursorOK' /\ SameCopies' /\ Accounted' /\ StatusOK' /\ MarketsOK' /\ GroupsOK'
-----------------------------------------------------------------------------
(* A step that touches one order *)

LEMMA SameLength ==
  ASSUME NEW s \in Seq(Good), NEW t \in Seq(Good), DOMAIN s = DOMAIN t
  PROVE  Len(s) = Len(t)
<1>1. 1..Len(s) = 1..Len(t) /\ Len(s) \in Nat /\ Len(t) \in Nat
  BY SeqIndices
<1> DEFINE m == Len(s)  n == Len(t)
<1> HIDE DEF m, n
<1>2. m \in Nat /\ n \in Nat /\ 1..m = 1..n
  BY <1>1 DEF m, n
<1>3. ~(m < n) /\ ~(n < m)
  <2>1. m < n => n \in 1..n /\ n \notin 1..m
    BY <1>2
  <2>2. n < m => m \in 1..m /\ m \notin 1..n
    BY <1>2
  <2> QED  BY <1>2, <2>1, <2>2
<1> QED  BY <1>2, <1>3 DEF m, n

LEMMA TouchAgrees ==
  ASSUME AInv, NEW i, NEW p, Touch(i, p),
         \A k \in DOMAIN still : still[k].id # p.id,
         Alive(p) => Alive(pending[i]), phase # "sweep", phase' # "sweep",
         cursor' = cursor \/ (cursor' = cursor + 1 /\ i = cursor /\ ~Alive(p))
  PROVE  SameCopies' /\ Accounted' /\ Len(pending') = Len(pending)
<1>1. /\ i \in DOMAIN pending /\ p \in Good /\ p.id = pending[i].id /\ p.id \in DOMAIN orders
      /\ DOMAIN pending' = DOMAIN pending /\ pending'[i] = p
      /\ \A j \in DOMAIN pending : j # i => pending'[j] = pending[j]
      /\ DOMAIN orders' = DOMAIN orders /\ orders'[p.id] = p
      /\ \A id \in DOMAIN orders : id # p.id => orders'[id] = orders[id]
      /\ UNCHANGED still /\ pending \in Seq(Good)
  BY TouchFacts, ListFacts DEF AInv, BInv, Touch
<1>2. \A j \in DOMAIN pending : j # i => pending[j].id # p.id
  BY <1>1, PendingOnce DEF AInv
<1>3. SameCopies'
  <2>1. \A j \in DOMAIN pending : Alike(orders'[pending'[j].id], pending'[j])
    <3> SUFFICES ASSUME NEW j \in DOMAIN pending
                 PROVE  Alike(orders'[pending'[j].id], pending'[j])
      OBVIOUS
    <3>1. CASE j = i
      BY <1>1, <3>1, AlikeRefl
    <3>2. CASE j # i
      <4>1. Alike(orders[pending[j].id], pending[j]) /\ pending[j].id \in DOMAIN orders
        BY ListFacts DEF AInv, BInv, SameCopies
      <4> QED  BY <1>1, <1>2, <3>2, <4>1
    <3> QED  BY <3>1, <3>2
  <2>2. \A k \in DOMAIN still : Alike(orders'[still[k].id], still[k])
    <3> SUFFICES ASSUME NEW k \in DOMAIN still PROVE Alike(orders'[still[k].id], still[k])
      OBVIOUS
    <3>1. Alike(orders[still[k].id], still[k]) /\ still[k].id \in DOMAIN orders
      BY ListFacts DEF AInv, BInv, SameCopies
    <3> QED  BY <1>1, <3>1
  <2> QED  BY <1>1, <2>1, <2>2 DEF SameCopies
<1>4. Accounted'
  <2> SUFFICES ASSUME NEW id \in DOMAIN orders, Alive(orders'[id])
               PROVE  \/ \E j \in DOMAIN pending : cursor' <= j /\ pending'[j].id = id
                      \/ \E k \in DOMAIN still : still[k].id = id
    BY <1>1 DEF Accounted
  <2>1. Alive(orders[id])
    <3>1. CASE id = p.id
      <4>1. Alike(orders[p.id], pending[i]) /\ Alive(pending[i])
        BY <1>1, <3>1 DEF AInv, SameCopies
      <4> QED  BY <3>1, <4>1 DEF Alike, Alive
    <3>2. CASE id # p.id
      BY <1>1, <3>2
    <3> QED  BY <3>1, <3>2
  <2>2. CASE \E k \in DOMAIN still : still[k].id = id
    BY <2>2
  <2>3. CASE \E j \in DOMAIN pending : cursor <= j /\ pending[j].id = id
    <3>1. PICK j \in DOMAIN pending : cursor <= j /\ pending[j].id = id
      BY <2>3
    <3>2. pending'[j].id = id
      BY <1>1, <3>1
    <3>3. cursor' = cursor \/ (cursor' = cursor + 1 /\ j # cursor)
      BY <1>1, <3>1
    <3>4. cursor \in Nat /\ j \in Nat
      BY ListFacts DEF AInv, BInv
    <3>5. cursor' <= j
      BY <3>1, <3>3, <3>4
    <3> QED  BY <3>2, <3>5
  <2> QED  BY <2>1, <2>2, <2>3 DEF AInv, Accounted
<1>5. Len(pending') = Len(pending)
  <2>1. pending' \in Seq(Good)
    BY <1>1 DEF Touch
  <2> QED  BY <1>1, <2>1, SameLength
<1> QED  BY <1>3, <1>4, <1>5

\* An order with a bar of execution has been filled in it.
LEMMA ExecBars ==
  ASSUME IInv
  PROVE  \A id \in DOMAIN orders : orders[id].execBar = bar => orders[id].status = "Completed"
BY ListFacts, NoneAssumption DEF Good

LEMMA WithdrawAgrees ==
  ASSUME AInv, NEW i, NEW p, Withdraw(i, p)
  PROVE  AgreeStep
<1>1. /\ i \in DOMAIN pending /\ p \in Good /\ p.id = pending[i].id /\ p.id \in DOMAIN orders
      /\ DOMAIN pending' = DOMAIN pending /\ pending'[i] = p
      /\ \A j \in DOMAIN pending : j # i => pending'[j] = pending[j]
      /\ DOMAIN orders' = DOMAIN orders /\ orders'[p.id] = p
      /\ \A id \in DOMAIN orders : id # p.id => orders'[id] = orders[id]
      /\ \A j \in DOMAIN pending : Copy(pending[j], pending'[j])
  BY TouchFacts DEF AInv, BInv, Withdraw
<1>2. /\ Touch(i, p) /\ Alive(pending[i]) /\ p.status = "Canceled" /\ ~Alive(p)
      /\ UNCHANGED <<phase, cursor, still, filledOco, bar, bars, last>>
      /\ phase = "strategy" \/ (phase = "children" /\ AliveChild(i))
  BY DEF Withdraw, Touch, AInv, Silent, Alive, AliveStatuses
<1>3. \A k \in DOMAIN still : still[k].id # p.id
  <2>1. CASE phase = "strategy"
    BY <2>1 DEF AInv, BInv, Behind
  <2>2. CASE phase = "children" /\ AliveChild(i)
    <3>1. cursor \in DOMAIN pending /\ cursor \in Nat /\ i \in Nat
      BY <1>1, <2>2, AtReference, ListFacts DEF References, AInv, BInv
    <3>2. pending[i].parent = pending[cursor].id /\ pending[cursor].id # 0
      BY <2>2, <3>1, ListFacts DEF AliveChild, AInv, BInv
    <3>3. pending[cursor].id < pending[i].id
      BY <1>1, <3>2, ListFacts, GoodFields DEF AInv, BInv
    <3>4. cursor < i
      BY <1>1, <3>1, <3>3, PendingOnce DEF AInv
    <3> QED  BY <1>1, <3>1, <3>4, AheadNotKept DEF AInv
  <2> QED  BY <1>2, <2>1, <2>2
<1>4. SameCopies' /\ Accounted' /\ Len(pending') = Len(pending)
  BY <1>2, <1>3, TouchAgrees
<1>5. CursorOK'
  BY <1>2, <1>4 DEF AInv, CursorOK
<1>6. \A id \in DOMAIN orders : orders'[id] = orders[id] \/ orders'[id].status = "Canceled"
  BY <1>1, <1>2
<1>7. StatusOK'
  <2>1. phase \in {"strategy", "children"}
    BY <1>2
  <2>2. phase = "children" => ~Alive(pending'[cursor])
    BY <1>1, <1>2, AtReference DEF References, AInv, BInv, StatusOK
  <2>3. \A id \in DOMAIN orders' :
          orders'[id].status # "Partial" /\ orders'[id].status # "Submitted"
    BY <1>1, <1>6, <2>1 DEF AInv, StatusOK
  <2> QED  BY <1>2, <2>1, <2>2, <2>3 DEF StatusOK
<1>8. MarketsOK'
  <2>1. ASSUME phase = "strategy", NEW j \in DOMAIN pending', pending'[j].born < bar
        PROVE  Decided(pending'[j])
    <3>1. CASE j = i
      BY <1>1, <1>2, <3>1 DEF Decided
    <3>2. CASE j # i
      BY <1>1, <2>1, <3>2 DEF AInv, MarketsOK
    <3> QED  BY <3>1, <3>2
  <2> QED  BY <1>2, <2>1 DEF AInv, MarketsOK, Decided
<1>9. GroupsOK'
  <2>1. p.execBar = None /\ bar # None
    BY <1>1, <1>2, ListFacts, NoneAssumption DEF Good, AInv, BInv
  <2>2. \A id \in DOMAIN orders :
          orders'[id].execBar = bar => orders'[id] = orders[id] /\ id # p.id
    BY <1>1, <2>1
  <2>3. \A id \in DOMAIN orders :
          /\ Alive(orders'[id]) => Alive(orders[id])
          /\ orders'[id].born = orders[id].born /\ orders'[id].oco = orders[id].oco
    <3>1. Copy(orders[p.id], p)
      BY <1>1, <1>2 DEF AInv, SameCopies, Alike, Copy
    <3> QED  BY <1>1, <1>2, <3>1 DEF Copy
  <2>4. OcoGroupClosed'
    BY <1>1, <1>2, <2>2, <2>3 DEF AInv, GroupsOK, OcoGroupClosed, BetweenBars
  <2>5. ASSUME phase # "strategy", NEW id \in DOMAIN orders,
               orders'[id].oco # 0, orders'[id].execBar = bar
        PROVE  orders'[id].oco \in filledOco
    BY <1>2, <2>2, <2>5 DEF AInv, GroupsOK
  <2> QED  BY <1>1, <1>2, <2>4, <2>5 DEF GroupsOK
<1> QED  BY <1>4, <1>5, <1>7, <1>8, <1>9 DEF AgreeStep

\* What becomes of the order at the cursor, which is alive.
DecidedAs(p) ==
  \/ phase = "order" /\ phase' = "order" /\ cursor' = cursor + 1 /\ p.status \in {"Rejected", "Expired"}
  \/ /\ phase = "order" /\ phase' = "submitted" /\ cursor' = cursor
     /\ pending[cursor].status = "Created" /\ p.status = "Submitted"
  \/ /\ phase = "submitted" /\ phase' = "fill" /\ cursor' = cursor
     /\ pending[cursor].status = "Submitted" /\ p.status = "Accepted"
  \/ /\ phase = "fill" /\ phase' = "filled" /\ cursor' = cursor
     /\ pending[cursor].status = "Accepted" /\ p.status \in {"Rejected", "Margin", "Completed"}

LEMMA DecideFacts ==
  ASSUME AInv, NEW p, Decide(p)
  PROVE  Touch(cursor, p) /\ Alive(pending[cursor]) /\ DecidedAs(p)
<1>1. /\ phase = "submitted" => pending[cursor].status = "Submitted"
      /\ phase = "fill" => pending[cursor].status = "Accepted"
  BY DEF AInv, StatusOK
<1>2. Touch(cursor, p)
  BY DEF Decide, DecideAs
<1>3. Alive(pending[cursor])
  BY <1>1 DEF Decide, Alive, AliveStatuses
<1> QED  BY <1>1, <1>2, <1>3 DEF Decide, DecideAs, DecidedAs

LEMMA DecideAgrees ==
  ASSUME AInv, NEW p, Decide(p)
  PROVE  AgreeStep
<1>1. /\ cursor \in DOMAIN pending /\ p \in Good /\ p.id = pending[cursor].id
      /\ p.id \in DOMAIN orders /\ DOMAIN pending' = DOMAIN pending /\ pending'[cursor] = p
      /\ DOMAIN orders' = DOMAIN orders /\ orders'[p.id] = p
      /\ \A id \in DOMAIN orders : id # p.id => orders'[id] = orders[id]
      /\ cursor \in Nat
  BY DecideFacts, TouchFacts, ListFacts DEF AInv, BInv
<1>2. /\ Touch(cursor, p) /\ Alive(pending[cursor]) /\ DecidedAs(p)
      /\ UNCHANGED <<still, filledOco, bar, bars, last>>
  BY DecideFacts DEF Touch
<1>3. \A k \in DOMAIN still : still[k].id # p.id
  BY <1>1, AheadNotKept DEF AInv
<1>4. SameCopies' /\ Accounted' /\ Len(pending') = Len(pending)
  <2>1. phase # "sweep" /\ phase' # "sweep"
    BY <1>2 DEF DecidedAs
  <2>2. cursor' = cursor \/ (cursor' = cursor + 1 /\ ~Alive(p))
    BY <1>2 DEF DecidedAs, Alive, AliveStatuses
  <2> QED  BY <1>2, <1>3, <2>1, <2>2, TouchAgrees
<1>5. CursorOK'
  BY <1>2, <1>4 DEF AInv, CursorOK, DecidedAs
<1>6. StatusOK'
  <2>1. /\ phase' = "submitted" => pending'[cursor'].status = "Submitted"
        /\ phase' = "fill" => pending'[cursor'].status = "Accepted"
        /\ phase' \in {"filled", "children"} => ~Alive(pending'[cursor'])
    BY <1>1, <1>2 DEF DecidedAs, Alive, AliveStatuses
  <2>2. ASSUME NEW id \in DOMAIN orders
        PROVE  /\ orders'[id].status # "Partial"
               /\ orders'[id].status = "Submitted"
                    => phase' = "submitted" /\ pending'[cursor'].id = id
    <3>1. CASE id = p.id
      BY <1>1, <1>2, <3>1 DEF DecidedAs
    <3>2. CASE id # p.id
      BY <1>1, <3>2 DEF AInv, StatusOK
    <3> QED  BY <3>1, <3>2
  <2> QED  BY <1>1, <2>1, <2>2 DEF StatusOK
<1>7. MarketsOK'
  BY <1>2 DEF AInv, MarketsOK, Decided, DecidedAs
<1>8. GroupsOK'
  <2>1. phase' # "strategy" /\ phase \notin {"strategy", "filled"}
    BY <1>2 DEF DecidedAs
  <2>2. ASSUME NEW id \in DOMAIN orders, orders'[id].oco # 0, orders'[id].execBar = bar
        PROVE  \/ orders'[id].oco \in filledOco
               \/ phase' = "filled" /\ pending'[cursor'].id = id
    <3>1. CASE id = p.id
      <4>1. bar # None
        BY NoneAssumption, ListFacts DEF AInv, BInv
      <4>2. p.status = "Completed"
        BY <1>1, <2>2, <3>1, <4>1 DEF Good
      <4> QED  BY <1>1, <1>2, <3>1, <4>2 DEF DecidedAs
    <3>2. CASE id # p.id
      BY <1>1, <2>1, <2>2, <3>2 DEF AInv, GroupsOK
    <3> QED  BY <3>1, <3>2
  <2> QED  BY <1>1, <1>2, <2>1, <2>2 DEF GroupsOK, OcoGroupClosed, BetweenBars
<1> QED  BY <1>4, <1>5, <1>6, <1>7, <1>8 DEF AgreeStep

-----------------------------------------------------------------------------
(* A step that keeps the order at the cursor for the next bar *)

LEMMA KeepIsAlike ==
  ASSUME AInv, NEW p, KeepAs(p)
  PROVE  Alike(orders'[p.id], p) /\ p.status = orders[p.id].status /\ Alive(p)
<1>1. /\ cursor \in DOMAIN pending /\ pending[cursor] \in Good
      /\ p.id = pending[cursor].id /\ p.id \in DOMAIN orders /\ p.status = pending[cursor].status
  BY KeepFacts, ListFacts DEF AInv, BInv, Copy
<1>2. phase \in {"order", "fill"}
  BY DEF KeepAs
<1>3. Alike(orders[p.id], pending[cursor])
  BY <1>1, <1>2 DEF AInv, SameCopies
<1>4. Alike(orders'[p.id], p)
  <2>1. CASE p = pending[cursor] /\ UNCHANGED orders
    BY <1>3, <2>1
  <2>2. CASE p = Released(pending[cursor]) /\ UNCHANGED orders
    <3>1. Alike(pending[cursor], p)
      BY <1>1, <2>2, ReleaseKeepsGood, ReleasedFields DEF Alike
    <3> QED  BY <1>3, <2>2, <3>1, AlikeTrans
  <2>3. CASE Sync(p)
    BY <1>1, <2>3, AlikeRefl DEF Sync
  <2> QED  BY <2>1, <2>2, <2>3 DEF KeepAs
<1>5. Alive(p)
  BY <1>1, <1>2 DEF KeepAs, AInv, StatusOK, Alive, AliveStatuses
<1> QED  BY <1>1, <1>3, <1>4, <1>5 DEF Alike

LEMMA KeepDecides ==
  ASSUME AInv, NEW p, KeepAs(p)
  PROVE  Decided(p)
<1> SUFFICES ASSUME p.type = "Market", AlwaysPriced
             PROVE  p.feed \in Feeds /\ bars[p.feed] = None
  BY DEF Decided
<1>1. CASE Held(p)
  BY <1>1, GoodFields DEF KeepAs, Held, Good, Linked
<1>2. CASE p.feed \in Feeds /\ ~HasData(p.feed)
  BY <1>2 DEF HasData
<1>3. CASE phase = "fill" /\ Price(pending[cursor]) = None
  <2> DEFINE o == pending[cursor]
             b == bars[o.feed]
  <2>1. o \in Good /\ o.type = "Market"
    BY KeepFacts, ListFacts DEF AInv, BInv, Copy
  <2>2. o.feed \in Feeds /\ b # None /\ b \in Bars
    BY <1>3 DEF AInv, BInv, IInv, TriedOK, Tried, HasData, ControlOK
  <2>3. FillPrice(slip, o, b) = None
    BY <1>3 DEF Price
  <2> HIDE DEF o, b
  <2> QED  BY <2>1, <2>2, <2>3, MarketFills
<1> QED  BY <1>1, <1>2, <1>3 DEF KeepAs

LEMMA KeepAgrees ==
  ASSUME AInv, NEW p, KeepAs(p)
  PROVE  AgreeStep
<1> DEFINE n == Len(still)
<1>1. /\ cursor \in DOMAIN pending /\ p.id = pending[cursor].id /\ p.id \in DOMAIN orders
      /\ DOMAIN pending' = DOMAIN pending /\ pending'[cursor] = p
      /\ \A j \in DOMAIN pending : j # cursor => pending'[j] = pending[j]
      /\ DOMAIN orders' = DOMAIN orders
      /\ \A id \in DOMAIN orders : id # p.id => orders'[id] = orders[id]
      /\ UNCHANGED <<bar, bars>> /\ p \in Good
  BY KeepFacts DEF AInv, BInv, Copy
<1>2. /\ n \in Nat /\ DOMAIN still = 1..n /\ DOMAIN still' = 1..(n + 1) /\ still'[n + 1] = p
      /\ \A k \in DOMAIN still : still'[k] = still[k]
  BY KeepFacts DEF AInv, BInv
<1> HIDE DEF n
<1>3. \A k \in DOMAIN still' : k \in DOMAIN still \/ k = n + 1
  BY <1>2
<1>4. Alike(orders'[p.id], p) /\ p.status = orders[p.id].status /\ Alive(p) /\ Decided(p)
  BY KeepIsAlike, KeepDecides
<1>5. /\ phase \in {"order", "fill"} /\ phase' = "order" /\ cursor' = cursor + 1
      /\ UNCHANGED <<filledOco, last>> /\ cursor \in Nat
  BY ListFacts DEF KeepAs, AInv, BInv
<1>6. \A j \in DOMAIN pending : j # cursor => pending[j].id # p.id /\ pending[j].id \in DOMAIN orders
  BY <1>1, PendingOnce, ListFacts DEF AInv, BInv
<1>7. \A k \in DOMAIN still : still[k].id # p.id /\ still[k].id \in DOMAIN orders
  BY <1>1, <1>5, AheadNotKept, ListFacts DEF AInv, BInv
<1>8. SameCopies'
  <2>1. ASSUME NEW j \in DOMAIN pending' PROVE Alike(orders'[pending'[j].id], pending'[j])
    <3>1. CASE j = cursor
      BY <1>1, <1>4, <3>1
    <3>2. CASE j # cursor
      BY <1>1, <1>5, <1>6, <3>2 DEF AInv, SameCopies
    <3> QED  BY <3>1, <3>2
  <2>2. ASSUME NEW k \in DOMAIN still' PROVE Alike(orders'[still'[k].id], still'[k])
    <3>1. CASE k \in DOMAIN still
      BY <1>1, <1>2, <1>7, <3>1 DEF AInv, SameCopies
    <3>2. CASE k = n + 1
      BY <1>2, <1>4, <3>2
    <3> QED  BY <1>3, <3>1, <3>2
  <2> QED  BY <2>1, <2>2 DEF SameCopies
<1>9. Accounted'
  <2> SUFFICES ASSUME NEW id \in DOMAIN orders, Alive(orders'[id])
               PROVE  \/ \E j \in DOMAIN pending : cursor + 1 <= j /\ pending'[j].id = id
                      \/ \E k \in DOMAIN still' : still'[k].id = id
    BY <1>1, <1>5 DEF Accounted
  <2>1. CASE id = p.id
    <3>1. n + 1 \in DOMAIN still' /\ still'[n + 1].id = id
      BY <1>2, <2>1
    <3> QED  BY <3>1
  <2>2. CASE id # p.id
    <3>1. \/ \E j \in DOMAIN pending : cursor <= j /\ pending[j].id = id
          \/ \E k \in DOMAIN still : still[k].id = id
      BY <1>1, <2>2 DEF AInv, Accounted
    <3>2. ASSUME NEW j \in DOMAIN pending, cursor <= j, pending[j].id = id
          PROVE  cursor + 1 <= j /\ pending'[j].id = id
      <4>1. j # cursor /\ j \in Nat
        BY <1>1, <2>2, <3>2, ListFacts DEF AInv, BInv
      <4> QED  BY <1>1, <1>5, <3>2, <4>1
    <3>3. ASSUME NEW k \in DOMAIN still, still[k].id = id
          PROVE  k \in DOMAIN still' /\ still'[k].id = id
      BY <1>2, <3>3
    <3> QED  BY <3>1, <3>2, <3>3
  <2> QED  BY <2>1, <2>2
<1>10. Len(pending') = Len(pending)
  <2>1. pending \in Seq(Good) /\ pending' \in Seq(Good)
    <3>1. pending \in Seq(Good) /\ pending' = [pending EXCEPT ![cursor] = p]
      BY ListFacts DEF KeepAs, AInv, BInv
    <3> QED  BY <1>1, <3>1
  <2> QED  BY <1>1, <2>1, SameLength
<1>11. CursorOK'
  BY <1>5, <1>10 DEF AInv, CursorOK
<1>12. StatusOK'
  <2>1. \A id \in DOMAIN orders : orders'[id].status = orders[id].status
    BY <1>1, <1>4 DEF Alike
  <2> QED  BY <1>1, <1>5, <2>1 DEF AInv, StatusOK
<1>13. MarketsOK'
  <2>1. \A o : Decided(o) => Decided(o)'
    BY <1>1 DEF Decided
  <2>2. ASSUME NEW k \in DOMAIN still' PROVE Decided(still'[k])
    <3>1. CASE k \in DOMAIN still
      BY <1>2, <3>1 DEF AInv, MarketsOK
    <3>2. CASE k = n + 1
      BY <1>2, <1>4, <3>2
    <3> QED  BY <1>3, <3>1, <3>2
  <2> QED  BY <1>1, <1>5, <2>1, <2>2 DEF MarketsOK, Decided
<1>14. GroupsOK'
  <2>1. ASSUME NEW id \in DOMAIN orders, orders'[id].oco # 0, orders'[id].execBar = bar
        PROVE  orders'[id].oco \in filledOco
    <3>1. CASE id = p.id
      <4>1. p.execBar = bar /\ bar # None
        BY <1>4, <2>1, <3>1, NoneAssumption, ListFacts DEF Alike, AInv, BInv
      <4> QED  BY <1>1, <1>4, <4>1 DEF Good, Alive, AliveStatuses
    <3>2. CASE id # p.id
      BY <1>1, <1>5, <2>1, <3>2 DEF AInv, GroupsOK
    <3> QED  BY <3>1, <3>2
  <2> QED  BY <1>1, <1>5, <2>1 DEF GroupsOK, OcoGroupClosed, BetweenBars
<1> QED  BY <1>8, <1>9, <1>11, <1>12, <1>13, <1>14 DEF AgreeStep

-----------------------------------------------------------------------------
(* A step that appends new orders *)

LEMMA PushAgrees ==
  ASSUME AInv, Callbacks = {}, NEW new, Pushes(new)
  PROVE  AgreeStep
<1> DEFINE m == Len(orders)  n == Len(pending)  k == Len(new)
<1>1. /\ m \in Nat /\ n \in Nat /\ k \in Nat
      /\ DOMAIN orders = 1..m /\ DOMAIN orders' = 1..(m + k)
      /\ DOMAIN pending = 1..n /\ DOMAIN pending' = 1..(n + k)
      /\ \A j \in 1..m : orders'[j] = orders[j]
      /\ \A j \in 1..n : pending'[j] = pending[j]
      /\ \A j \in 1..k : /\ orders'[m + j] = new[j] /\ pending'[n + j] = new[j]
                         /\ new[j] \in Good /\ new[j].id = m + j /\ new[j].born = bar
                         /\ new[j].status = "Created"
  BY PushFacts DEF AInv, BInv
<1> HIDE DEF m, n, k
<1>2. /\ phase = "strategy" /\ phase' = "strategy" /\ cursor = 1 /\ cursor' = 1 /\ bar \in Nat
      /\ still = << >> /\ UNCHANGED <<still, filledOco, bar, bars, last>>
  BY ListFacts DEF Pushes, AInv, CursorOK, BInv, Behind
<1>3. ASSUME NEW j \in 1..k
      PROVE  /\ j \in Nat /\ pending'[n + j] = new[j] /\ orders'[m + j] = new[j]
             /\ new[j].id = m + j /\ new[j].born = bar /\ new[j].status = "Created"
             /\ new[j].execBar # bar
             /\ n + j \in DOMAIN pending' /\ m + j \in DOMAIN orders'
  <2>1. /\ orders'[m + j] = new[j] /\ pending'[n + j] = new[j] /\ j \in Nat
        /\ new[j].id = m + j /\ new[j].born = bar /\ new[j].status = "Created"
        /\ new[j] \in Good
    BY <1>1
  <2>2. new[j].execBar = None /\ bar # None
    BY <1>2, <2>1, NoneAssumption DEF Good
  <2>3. n + j \in DOMAIN pending' /\ m + j \in DOMAIN orders'
    BY <1>1
  <2> QED  BY <2>1, <2>2, <2>3
<1>4. \A i \in DOMAIN orders' : i \in DOMAIN orders \/ \E j \in 1..k : i = m + j
  <2> SUFFICES ASSUME NEW i \in 1..(m + k), i \notin 1..m PROVE \E j \in 1..k : i = m + j
    BY <1>1
  <2>1. i - m \in 1..k /\ i = m + (i - m)
    BY <1>1
  <2> QED  BY <2>1
<1>5. \A i \in DOMAIN pending' : i \in DOMAIN pending \/ \E j \in 1..k : i = n + j
  <2> SUFFICES ASSUME NEW i \in 1..(n + k), i \notin 1..n PROVE \E j \in 1..k : i = n + j
    BY <1>1
  <2>1. i - n \in 1..k /\ i = n + (i - n)
    BY <1>1
  <2> QED  BY <2>1
<1>6. /\ \A i \in DOMAIN orders : orders'[i] = orders[i]
      /\ \A i \in DOMAIN pending : /\ pending'[i] = pending[i] /\ i \in DOMAIN pending'
                                   /\ pending[i].id \in DOMAIN orders
  <2>1. \A i \in 1..n : i \in 1..(n + k)
    BY <1>1
  <2>2. \A i \in DOMAIN pending : pending[i].id \in DOMAIN orders
    BY ListFacts DEF AInv, BInv
  <2> QED  BY <1>1, <2>1, <2>2
<1>7. SameCopies'
  <2>1. ASSUME NEW i \in DOMAIN pending' PROVE Alike(orders'[pending'[i].id], pending'[i])
    <3>1. CASE i \in DOMAIN pending
      BY <1>2, <1>6, <3>1 DEF AInv, SameCopies
    <3>2. CASE \E j \in 1..k : i = n + j
      BY <1>3, <3>2, AlikeRefl
    <3> QED  BY <1>5, <3>1, <3>2
  <2> QED  BY <1>2, <2>1 DEF SameCopies
<1>8. Accounted'
  <2> SUFFICES ASSUME NEW id \in DOMAIN orders', Alive(orders'[id])
               PROVE  \E i \in DOMAIN pending' : 1 <= i /\ pending'[i].id = id
    BY <1>2 DEF Accounted
  <2>1. CASE id \in DOMAIN orders
    <3>1. PICK i \in DOMAIN pending : 1 <= i /\ pending[i].id = id
      BY <1>2, <1>6, <2>1 DEF AInv, Accounted
    <3> QED  BY <1>6, <3>1
  <2>2. CASE \E j \in 1..k : id = m + j
    <3>1. PICK j \in 1..k : id = m + j
      BY <2>2
    <3>2. n + j \in DOMAIN pending' /\ pending'[n + j].id = id
      BY <1>3, <3>1
    <3>3. 1 <= n + j
      BY <1>1
    <3> QED  BY <3>2, <3>3
  <2> QED  BY <1>4, <2>1, <2>2
<1>9. CursorOK'
  BY <1>2 DEF CursorOK
<1>10. StatusOK'
  <2>1. ASSUME NEW id \in DOMAIN orders'
        PROVE  orders'[id].status # "Partial" /\ orders'[id].status # "Submitted"
    <3>1. CASE id \in DOMAIN orders
      BY <1>2, <1>6, <3>1 DEF AInv, StatusOK
    <3>2. CASE \E j \in 1..k : id = m + j
      BY <1>3, <3>2
    <3> QED  BY <1>4, <3>1, <3>2
  <2> QED  BY <1>2, <2>1 DEF StatusOK
<1>11. MarketsOK'
  <2>1. ASSUME NEW i \in DOMAIN pending', pending'[i].born < bar PROVE Decided(pending'[i])
    <3>1. CASE i \in DOMAIN pending
      BY <1>2, <1>6, <2>1, <3>1 DEF AInv, MarketsOK
    <3>2. CASE \E j \in 1..k : i = n + j
      BY <1>2, <1>3, <2>1, <3>2
    <3> QED  BY <1>5, <3>1, <3>2
  <2> QED  BY <1>2, <2>1 DEF MarketsOK, Decided
<1>12. GroupsOK'
  <2>1. ASSUME NEW i \in DOMAIN orders', NEW j \in DOMAIN orders',
               orders'[i].oco # 0, orders'[i].oco = orders'[j].oco,
               orders'[i].execBar = bar, orders'[j].born < bar
        PROVE  ~Alive(orders'[j])
    <3>1. i \in DOMAIN orders
      BY <1>3, <1>4, <2>1
    <3>2. j \in DOMAIN orders
      BY <1>2, <1>3, <1>4, <2>1
    <3> QED  BY <1>2, <1>6, <2>1, <3>1, <3>2 DEF AInv, GroupsOK, OcoGroupClosed, BetweenBars
  <2> QED  BY <1>2, <2>1 DEF GroupsOK, OcoGroupClosed, BetweenBars
<1> QED  BY <1>7, <1>8, <1>9, <1>10, <1>11, <1>12 DEF AgreeStep

-----------------------------------------------------------------------------
(* The steps that change no order *)

LEMMA PassAgrees ==
  ASSUME AInv, UNCHANGED <<orders, still, bar, bars, last>>,
         pending' \in Seq(Good), DOMAIN pending' = DOMAIN pending,
         \A i \in DOMAIN pending : Alike(pending[i], pending'[i]),
         phase \in {"order", "filled", "children"},
         phase' \in {"order", "fill", "children", "sweep"},
         cursor' = cursor \/ (cursor' = cursor + 1 /\ ~Alive(pending[cursor])),
         phase' = "sweep" => last < cursor,
         phase' = "fill" => pending'[cursor'].status = "Accepted",
         phase' = "children" => ~Alive(pending'[cursor']),
         filledOco \subseteq filledOco',
         phase = "filled" => \A id \in DOMAIN orders :
           /\ orders[id].oco # 0 /\ orders[id].execBar = bar /\ pending[cursor].id = id
           => orders[id].oco \in filledOco'
  PROVE  AgreeStep
<1>1. /\ cursor \in Nat /\ pending \in Seq(Good) /\ last = Len(pending) /\ last \in Nat
      /\ DOMAIN pending = 1..last
  BY ListFacts DEF AInv, BInv, CursorOK
<1>2. Len(pending') = Len(pending)
  BY <1>1, SameLength
<1>3. \A i \in DOMAIN pending : pending'[i].id = pending[i].id
  BY DEF Alike, Copy
<1>4. SameCopies'
  <2>1. \A i \in DOMAIN pending : Alike(orders[pending[i].id], pending'[i])
    BY AlikeTrans DEF AInv, SameCopies
  <2> QED  BY <1>3, <2>1 DEF AInv, SameCopies
<1>5. Accounted'
  <2> SUFFICES ASSUME NEW id \in DOMAIN orders, Alive(orders[id])
               PROVE  \/ phase' # "sweep" /\ \E j \in DOMAIN pending : cursor' <= j /\ pending'[j].id = id
                      \/ \E k \in DOMAIN still : still[k].id = id
    BY DEF Accounted
  <2>1. CASE \E k \in DOMAIN still : still[k].id = id
    BY <2>1
  <2>2. CASE \E j \in DOMAIN pending : cursor <= j /\ pending[j].id = id
    <3>1. PICK j \in DOMAIN pending : cursor <= j /\ pending[j].id = id
      BY <2>2
    <3>2. j \in Nat /\ j <= last
      BY <1>1
    <3>3. Alive(pending[j])
      BY <3>1 DEF AInv, SameCopies, Alike, Alive
    <3>4. cursor' <= j /\ phase' # "sweep"
      BY <1>1, <3>1, <3>2, <3>3
    <3> QED  BY <1>3, <3>1, <3>4
  <2> QED  BY <2>1, <2>2 DEF AInv, Accounted
<1>6. CursorOK'
  BY <1>2 DEF AInv, CursorOK
<1>7. StatusOK'
  BY DEF AInv, StatusOK
<1>8. MarketsOK'
  BY DEF AInv, MarketsOK, Decided
<1>9. GroupsOK'
  BY DEF AInv, GroupsOK, OcoGroupClosed, BetweenBars
<1> QED  BY <1>4, <1>5, <1>6, <1>7, <1>8, <1>9 DEF AgreeStep

LEMMA StayAgrees ==
  ASSUME AInv, UNCHANGED <<orders, pending, still, filledOco, bar, bars, last, phase, cursor>>
  PROVE  AgreeStep
<1>1. SameCopies' /\ Accounted' /\ CursorOK' /\ StatusOK'
  BY DEF AInv, SameCopies, Accounted, CursorOK, StatusOK
<1>2. MarketsOK' /\ GroupsOK'
  BY DEF AInv, MarketsOK, Decided, GroupsOK, OcoGroupClosed, BetweenBars
<1> QED  BY <1>1, <1>2 DEF AgreeStep

LEMMA StillPending ==
  ASSUME AInv, UNCHANGED pending
  PROVE  /\ pending' \in Seq(Good) /\ DOMAIN pending' = DOMAIN pending
         /\ \A i \in DOMAIN pending : Alike(pending[i], pending'[i])
BY ListFacts, AlikeRefl DEF AInv, BInv

LEMMA SkipDeadAgrees ==
  ASSUME AInv, NEW o, SkipDead(o)
  PROVE  AgreeStep
<1>1. /\ phase = "order" /\ phase' = "order" /\ cursor' = cursor + 1 /\ ~Alive(pending[cursor])
      /\ UNCHANGED <<orders, pending, still, filledOco, bar, bars, last>>
  BY DEF SkipDead, AtOrder, NextOrder, InLoop
<1> QED  BY <1>1, StillPending, PassAgrees

LEMMA ChildrenDoneAgrees ==
  ASSUME AInv, ChildrenDone
  PROVE  AgreeStep
<1>1. /\ phase = "children" /\ phase' = "order" /\ cursor' = cursor + 1
      /\ UNCHANGED <<orders, pending, still, filledOco, bar, bars, last>>
  BY DEF ChildrenDone, NextOrder, InLoop
<1>2. ~Alive(pending[cursor])
  BY <1>1 DEF AInv, StatusOK
<1> QED  BY <1>1, <1>2, StillPending, PassAgrees

LEMMA LoopEndsAgrees ==
  ASSUME AInv, LoopEnds
  PROVE  AgreeStep
<1>1. /\ phase = "order" /\ phase' = "sweep" /\ cursor' = cursor /\ cursor > last
      /\ UNCHANGED <<orders, pending, still, filledOco, bar, bars, last>>
  BY DEF LoopEnds, SameOrder, InLoop
<1>2. last < cursor
  BY <1>1, ListFacts DEF AInv, BInv
<1> QED  BY <1>1, <1>2, StillPending, PassAgrees

\* An order that was accepted on an earlier bar is tried again.
LEMMA RetryAgrees ==
  ASSUME AInv, NEW o, Admit(o), o.status # "Created"
  PROVE  AgreeStep
<1> DEFINE p == Released(o)
<1>1. /\ phase = "order" /\ phase' = "fill" /\ cursor' = cursor /\ o = pending[cursor]
      /\ Alive(o) /\ cursor <= last /\ pending' = [pending EXCEPT ![cursor] = p]
      /\ UNCHANGED <<orders, still, filledOco, bar, bars, last>>
  BY DEF Admit, ToTry, AtOrder, SameOrder, InLoop, Work
<1>2. cursor \in DOMAIN pending /\ o \in Good /\ pending \in Seq(Good)
  BY <1>1, ListFacts, AtCursor DEF AInv, BInv, Resting
<1>3. p \in Good /\ Alike(o, p) /\ p.status = o.status
  BY <1>2, ReleaseKeepsGood, ReleasedFields DEF Alike
<1>4. o.status = "Accepted"
  <2>1. Alike(orders[o.id], o) /\ o.id \in DOMAIN orders
    BY <1>1, <1>2, ListFacts DEF AInv, BInv, SameCopies
  <2>2. o.status # "Partial" /\ o.status # "Submitted"
    BY <1>1, <2>1 DEF AInv, StatusOK, Alike
  <2> QED  BY <1>1, <2>2 DEF Alive, AliveStatuses
<1> HIDE DEF p
<1>5. /\ pending' \in Seq(Good) /\ DOMAIN pending' = DOMAIN pending /\ pending'[cursor] = p
      /\ \A i \in DOMAIN pending : i # cursor => pending'[i] = pending[i]
  BY <1>1, <1>2, <1>3
<1>6. \A i \in DOMAIN pending : Alike(pending[i], pending'[i])
  BY <1>1, <1>3, <1>5, AlikeRefl
<1> QED  BY <1>1, <1>3, <1>4, <1>5, <1>6, PassAgrees

LEMMA SettleOrderAgrees ==
  ASSUME AInv, NEW o, SettleOrder(o)
  PROVE  AgreeStep
<1>1. /\ phase = "filled" /\ o = pending[cursor]
      /\ phase' \in {"order", "children"} /\ (phase' = "children" => cursor' = cursor)
      /\ cursor' = cursor \/ cursor' = cursor + 1
      /\ filledOco' = IF o.status = "Completed" THEN filledOco \union ({o.oco} \ {0}) ELSE filledOco
      /\ UNCHANGED <<orders, still, bar, bars, last>>
  BY DEF SettleOrder, SameOrder, NextOrder, InLoop
<1>2. ~Alive(o) /\ cursor \in DOMAIN pending /\ Alike(orders[o.id], o)
  BY <1>1, AtReference DEF References, AInv, BInv, StatusOK, SameCopies
<1>3. /\ pending' \in Seq(Good) /\ DOMAIN pending' = DOMAIN pending
      /\ \A i \in DOMAIN pending : Alike(pending[i], pending'[i])
  <2>1. CASE UNCHANGED pending
    BY <2>1, StillPending
  <2>2. CASE pending' = Activate(o.id)
    <3>1. pending' \in Seq(Good)
      <4>1. ListsStep
        BY <1>1, <2>2, ActivateLists DEF AInv, BInv
      <4> QED  BY <4>1 DEF ListsStep, ListOK
    <3>2. DOMAIN pending' = DOMAIN pending
      BY <2>2 DEF Activate
    <3>3. ASSUME NEW i \in DOMAIN pending PROVE Alike(pending[i], pending'[i])
      <4>1. pending[i] \in Good
        BY ListFacts DEF AInv, BInv
      <4>2. pending'[i] = pending[i] \/ pending'[i] = [pending[i] EXCEPT !.transmit = TRUE]
        BY <2>2 DEF Activate
      <4> DEFINE q == [pending[i] EXCEPT !.transmit = TRUE]
      <4>3. Alike(pending[i], q)
        BY <4>1 DEF Alike, Copy, Good, OrderRecords
      <4> QED  BY <4>2, <4>3, AlikeRefl
    <3> QED  BY <3>1, <3>2, <3>3
  <2> QED  BY <2>1, <2>2 DEF SettleOrder
<1>4. phase' = "children" => ~Alive(pending'[cursor'])
  BY <1>1, <1>2, <1>3 DEF Alike, Alive
<1>5. ASSUME NEW id \in DOMAIN orders, orders[id].oco # 0, orders[id].execBar = bar,
             pending[cursor].id = id
      PROVE  orders[id].oco \in filledOco'
  <2>1. orders[id].status = "Completed"
    BY <1>5, ExecBars DEF AInv, BInv
  <2>2. o.status = "Completed" /\ o.oco = orders[id].oco
    BY <1>1, <1>2, <1>5, <2>1 DEF Alike, Copy
  <2> QED  BY <1>1, <1>5, <2>2
<1>6. filledOco \subseteq filledOco'
  BY <1>1
<1> QED  BY <1>1, <1>2, <1>3, <1>4, <1>5, <1>6, PassAgrees

-----------------------------------------------------------------------------
(* The first and the last steps of process_orders *)

LEMMA StartBarAgrees ==
  ASSUME AInv, StartBar
  PROVE  AgreeStep
<1>1. /\ UNCHANGED <<orders, pending, still, filledOco>> /\ bar' = bar + 1 /\ bar \in Nat
      /\ phase = "strategy" /\ phase' = "order" /\ cursor = 1 /\ cursor' = 1
      /\ last' = Len(pending) /\ still = << >>
  BY ListFacts DEF StartBar, StrategyActs, AInv, CursorOK, BInv, Behind
<1>2. SameCopies' /\ Accounted' /\ CursorOK' /\ MarketsOK'
  BY <1>1 DEF AInv, SameCopies, Accounted, CursorOK, MarketsOK
<1>3. StatusOK'
  BY <1>1 DEF AInv, StatusOK
<1>4. ASSUME NEW id \in DOMAIN orders PROVE orders[id].execBar # bar'
  <2>1. CASE orders[id].status = "Completed"
    <3>1. orders[id].execBar <= bar /\ orders[id].execBar \in Nat
      BY <2>1, ListFacts, GoodFields DEF AInv, BInv, LinksOK, FillsLinked
    <3> QED  BY <1>1, <3>1
  <2>2. CASE orders[id].status # "Completed"
    <3>1. orders[id].execBar = None /\ bar' \in Int
      BY <1>1, <2>2, ListFacts DEF Good, AInv, BInv
    <3> QED  BY <3>1, NoneAssumption
  <2> QED  BY <2>1, <2>2
<1>5. GroupsOK'
  BY <1>1, <1>4 DEF GroupsOK, OcoGroupClosed, BetweenBars
<1> QED  BY <1>2, <1>3, <1>5 DEF AgreeStep

LEMMA SweepCancelAgrees ==
  ASSUME AInv, NEW i \in DOMAIN still, SweepCancel(i)
  PROVE  AgreeStep
<1> DEFINE p == [still[i] EXCEPT !.status = "Canceled"]
<1>1. /\ UNCHANGED <<pending, filledOco, bar, bars, cursor, last>>
      /\ phase = "sweep" /\ phase' = "sweep" /\ Alive(still[i])
  BY DEF SweepCancel, InLoop, SameOrder, Swept
<1>2. still[i] \in Good /\ still[i].id \in DOMAIN orders
  BY ListFacts DEF AInv, BInv
<1>3. p.status = "Canceled" /\ p.id = still[i].id /\ p.execBar = still[i].execBar
  BY <1>2 DEF Good, OrderRecords
<1>4. still' = [still EXCEPT ![i] = p] /\ Sync(still'[i])
  BY <1>1 DEF SweepCancel, Move
<1>5. ~Alive(p) /\ p.execBar # bar
  <2>1. ~Alive(p)
    BY <1>3 DEF Alive, AliveStatuses
  <2>2. still[i].execBar = None /\ bar # None
    BY <1>1, <1>2, ListFacts, NoneAssumption DEF Good, Alive, AliveStatuses, AInv, BInv
  <2> QED  BY <1>3, <2>1, <2>2
<1> HIDE DEF p
<1>6. /\ DOMAIN still' = DOMAIN still /\ still'[i] = p
      /\ \A k \in DOMAIN still : k # i => still'[k] = still[k]
  BY <1>4
<1>7. /\ DOMAIN orders' = DOMAIN orders /\ orders'[p.id] = p /\ p.id \in DOMAIN orders
      /\ \A id \in DOMAIN orders : id # p.id => orders'[id] = orders[id]
  BY <1>2, <1>3, <1>4, <1>6 DEF Sync
<1>8. \A k \in DOMAIN still : k # i => still[k].id # p.id /\ still[k].id \in DOMAIN orders
  <2> SUFFICES ASSUME NEW k \in DOMAIN still, k # i
               PROVE  still[k].id # p.id /\ still[k].id \in DOMAIN orders
    OBVIOUS
  <2>1. k \in Nat /\ i \in Nat /\ still[k].id \in Nat /\ still[i].id \in Nat
        /\ still[k].id \in DOMAIN orders
    BY ListFacts, GoodFields DEF AInv, BInv
  <2>2. (i < k => still[i].id < still[k].id) /\ (k < i => still[k].id < still[i].id)
    BY DEF AInv, BInv, Ordered, Increasing
  <2> QED  BY <1>3, <2>1, <2>2
<1>9. SameCopies'
  <2>1. ASSUME NEW k \in DOMAIN still PROVE Alike(orders'[still'[k].id], still'[k])
    <3>1. CASE k = i
      BY <1>6, <1>7, <3>1, AlikeRefl
    <3>2. CASE k # i
      BY <1>6, <1>7, <1>8, <3>2 DEF AInv, SameCopies
    <3> QED  BY <3>1, <3>2
  <2> QED  BY <1>1, <1>6, <2>1 DEF SameCopies
<1>10. Accounted'
  <2>1. ASSUME NEW id \in DOMAIN orders, Alive(orders'[id])
        PROVE  \E k \in DOMAIN still' : still'[k].id = id
    <3>1. id # p.id /\ orders'[id] = orders[id]
      BY <1>5, <1>7, <2>1
    <3>2. PICK k \in DOMAIN still : still[k].id = id
      BY <1>1, <2>1, <3>1 DEF AInv, Accounted
    <3> QED  BY <1>3, <1>6, <3>1, <3>2
  <2> QED  BY <1>7, <2>1 DEF Accounted
<1>11. CursorOK' /\ StatusOK'
  <2>1. ASSUME NEW id \in DOMAIN orders
        PROVE  orders'[id].status # "Partial" /\ orders'[id].status # "Submitted"
    <3>1. CASE id = p.id
      BY <1>3, <1>7, <3>1
    <3>2. CASE id # p.id
      BY <1>1, <1>7, <3>2 DEF AInv, StatusOK
    <3> QED  BY <3>1, <3>2
  <2> QED  BY <1>1, <1>7, <2>1 DEF AInv, CursorOK, StatusOK
<1>12. MarketsOK'
  <2>1. ASSUME NEW k \in DOMAIN still PROVE Decided(still'[k])
    <3>1. CASE k = i
      BY <1>5, <1>6, <3>1 DEF Decided
    <3>2. CASE k # i
      BY <1>6, <3>2 DEF AInv, MarketsOK
    <3> QED  BY <3>1, <3>2
  <2> QED  BY <1>1, <1>6, <2>1 DEF MarketsOK, Decided
<1>13. GroupsOK'
  <2>1. ASSUME NEW id \in DOMAIN orders, orders'[id].oco # 0, orders'[id].execBar = bar
        PROVE  orders'[id].oco \in filledOco
    <3>1. id # p.id /\ orders'[id] = orders[id]
      BY <1>5, <1>7, <2>1
    <3> QED  BY <1>1, <2>1, <3>1 DEF AInv, GroupsOK
  <2> QED  BY <1>1, <1>7, <2>1 DEF GroupsOK, OcoGroupClosed, BetweenBars
<1> QED  BY <1>9, <1>10, <1>11, <1>12, <1>13 DEF AgreeStep

LEMMA FinishBarAgrees ==
  ASSUME AInv, FinishBar
  PROVE  AgreeStep
<1>1. /\ UNCHANGED <<orders, bar, bars>> /\ still' = << >> /\ cursor' = 1
      /\ phase = "sweep" /\ phase' = "strategy"
      /\ pending' = still \/ Erases(still, pending')
      /\ ~\E i \in DOMAIN still : Swept(i)
  BY DEF FinishBar
<1>2. still \in Seq(Good) /\ \A i \in DOMAIN still : Alike(orders[still[i].id], still[i])
  BY ListFacts DEF AInv, BInv, SameCopies
<1>3. /\ \A k \in DOMAIN pending' : \E i \in DOMAIN still : pending'[k] = still[i]
      /\ \A i \in DOMAIN still : Alive(still[i]) => \E k \in DOMAIN pending' : pending'[k] = still[i]
      /\ pending' \in Seq(Good)
  <2>1. CASE pending' = still
    BY <1>2, <2>1
  <2>2. CASE Erases(still, pending')
    BY <1>2, <2>2, ErasesKeepsList, ErasesKeepsAlive
  <2> QED  BY <1>1, <2>1, <2>2
<1>4. ASSUME NEW id \in DOMAIN orders, Alive(orders[id])
      PROVE  \E k \in DOMAIN still : still[k].id = id /\ Alive(still[k]) /\ Alike(orders[id], still[k])
  <2>1. PICK k \in DOMAIN still : still[k].id = id
    BY <1>1, <1>4 DEF AInv, Accounted
  <2> QED  BY <1>2, <1>4, <2>1 DEF Alike, Alive
<1>5. SameCopies'
  BY <1>1, <1>2, <1>3 DEF SameCopies
<1>6. Accounted'
  <2> SUFFICES ASSUME NEW id \in DOMAIN orders, Alive(orders[id])
               PROVE  \E j \in DOMAIN pending' : 1 <= j /\ pending'[j].id = id
    BY <1>1 DEF Accounted
  <2>1. PICK k \in DOMAIN still : still[k].id = id /\ Alive(still[k])
    BY <1>4
  <2>2. PICK j \in DOMAIN pending' : pending'[j] = still[k]
    BY <1>3, <2>1
  <2>3. 1 <= j
    BY <1>3, SeqIndices
  <2> QED  BY <2>1, <2>2, <2>3
<1>7. CursorOK' /\ StatusOK'
  BY <1>1 DEF AInv, CursorOK, StatusOK
<1>8. MarketsOK'
  <2>1. \A k \in DOMAIN pending' : Decided(pending'[k])
    BY <1>3 DEF AInv, MarketsOK
  <2>2. \A k \in DOMAIN pending' : Decided(pending[k])'
    BY <1>1, <2>1 DEF Decided
  <2> QED  BY <1>1, <2>2 DEF MarketsOK
<1>9. OcoGroupClosed'
  <2> SUFFICES ASSUME NEW i \in DOMAIN orders, NEW j \in DOMAIN orders,
                      orders[i].oco # 0, orders[i].oco = orders[j].oco,
                      orders[i].execBar = bar, Alive(orders[j])
               PROVE  FALSE
    BY <1>1 DEF OcoGroupClosed, BetweenBars
  <2>1. orders[j].oco \in filledOco
    BY <1>1 DEF AInv, GroupsOK
  <2>2. PICK k \in DOMAIN still : Alive(still[k]) /\ Alike(orders[j], still[k])
    BY <1>4
  <2>3. Swept(k)
    BY <2>1, <2>2 DEF Swept, Alike, Copy
  <2> QED  BY <1>1, <2>3
<1>10. GroupsOK'
  BY <1>1, <1>9 DEF GroupsOK
<1> QED  BY <1>5, <1>6, <1>7, <1>8, <1>10 DEF AgreeStep
-----------------------------------------------------------------------------
(* Every step *)

LEMMA OneOrderAgrees ==
  ASSUME AInv, NEW o, OneOrder(o)
  PROVE  AgreeStep
<1>1. IInv
  BY DEF AInv, BInv
<1>2. CASE SkipDead(o) \/ SettleOrder(o)
  BY <1>2, SkipDeadAgrees, SettleOrderAgrees
<1>3. CASE HoldChild(o) \/ KeepUntilData(o) \/ KeepUnfilled(o)
  BY <1>1, <1>3, HoldChildIs, KeepUntilDataIs, KeepUnfilledIs, KeepAgrees
<1>4. CASE RejectFeed(o) \/ Expire(o) \/ RejectUnpriced(o) \/ MarginCall(o) \/ FillOrder(o)
  BY <1>1, <1>4, RejectFeedIs, ExpireIs, RejectUnpricedIs, MarginCallIs, FillOrderIs,
     DecideAgrees
<1>5. CASE Admit(o)
  <2>1. CASE o.status = "Created"
    BY <1>1, <1>5, <2>1, AdmittedIs, DecideAgrees
  <2>2. CASE o.status # "Created"
    BY <1>5, <2>2, RetryAgrees
  <2> QED  BY <2>1, <2>2
<1> QED  BY <1>2, <1>3, <1>4, <1>5 DEF OneOrder

LEMMA StrategyAgrees ==
  ASSUME AInv, NoEmptyOrders, Callbacks = {}, Strategy
  PROVE  AgreeStep
<1>1. IInv
  BY DEF AInv, BInv
<1>2. CASE \E r \in Requests : Submit(r)
  BY <1>1, <1>2, SubmitIs, PushAgrees
<1>3. CASE \E d \in Feeds : ClosePosition(d)
  BY <1>1, <1>3, ClosePositionIs, PushAgrees
<1>4. CASE \E b \in Brackets, size \in HookResults : PlaceBracket(b, size)
  BY <1>1, <1>4, PlaceBracketIs, PushAgrees
<1>5. CASE \E id \in DOMAIN orders : Cancel(id)
  <2>1. PICK id : Cancel(id)
    BY <1>5
  <2>2. \E i, p : Withdraw(i, p)
    BY <1>1, <2>1, CancelPendingIs DEF Cancel, StrategyActs, loopVars
  <2> QED  BY <2>2, WithdrawAgrees
<1>6. CASE NextOcoGroup
  BY <1>6, StayAgrees DEF NextOcoGroup, Idle, loopVars
<1>7. CASE StartBar
  BY <1>7, StartBarAgrees
<1> QED  BY <1>2, <1>3, <1>4, <1>5, <1>6, <1>7 DEF Strategy

LEMMA ProcessOrdersAgrees ==
  ASSUME AInv, ProcessOrders
  PROVE  AgreeStep
<1>1. IInv
  BY DEF AInv, BInv
<1>2. CASE \E i \in DOMAIN pending : OneOrder(pending[i])
  BY <1>2, OneOrderAgrees
<1>3. CASE \E i \in DOMAIN pending : CancelChild(i)
  BY <1>1, <1>3, CancelChildIs, WithdrawAgrees
<1>4. CASE AcceptOrder
  BY <1>1, <1>4, AcceptOrderIs, DecideAgrees
<1>5. CASE ChildrenDone \/ LoopEnds
  BY <1>5, ChildrenDoneAgrees, LoopEndsAgrees
<1>6. CASE \E i \in DOMAIN still : SweepCancel(i)
  BY <1>6, SweepCancelAgrees
<1>7. CASE FinishBar
  BY <1>7, FinishBarAgrees
<1> QED  BY <1>2, <1>3, <1>4, <1>5, <1>6, <1>7 DEF ProcessOrders

\* No notification is ever waiting for a callback.
LEMMA StaysSilent ==
  ASSUME AInv, Callbacks = {}, [Next]_vars
  PROVE  Silent' /\ ~Callback
<1>1. Notify => ~notified'
  BY DEF Notify
<1>2. Quiet => ~notified'
  BY DEF Quiet
<1>3. ~notified /\ ~Callback
  BY DEF AInv, Silent, Callback, CallbackReturn, CallbackCancel, CallbackSubmit,
         CallbackReallocates, InCallback
<1>4. Strategy => ~notified'
  BY <1>1, <1>3 DEF Strategy, Submit, ClosePosition, PlaceBracket, Cancel, NextOcoGroup,
         StartBar, Idle
<1>5. \A o : OneOrder(o) => ~notified'
  BY <1>1, <1>2, <1>3 DEF OneOrder, SkipDead, HoldChild, RejectFeed, KeepUntilData, Expire,
         Admit, RejectUnpriced, KeepUnfilled, MarginCall, FillOrder, SettleOrder
<1>6. ProcessOrders => ~notified'
  BY <1>1, <1>3, <1>5 DEF ProcessOrders, CancelChild, AcceptOrder, ChildrenDone, LoopEnds,
         SweepCancel, FinishBar
<1>7. UNCHANGED vars => ~notified'
  BY <1>3 DEF vars
<1> QED  BY <1>3, <1>4, <1>6, <1>7 DEF Next, Silent

LEMMA AgreeKeeps ==
  ASSUME AInv, NoEmptyOrders, Callbacks = {}, [Next]_vars
  PROVE  AInv'
<1>1. Silent' /\ (Strategy \/ ProcessOrders \/ UNCHANGED vars)
  BY StaysSilent DEF Next
<1>2. AgreeStep
  <2>1. CASE UNCHANGED vars
    BY <2>1, StayAgrees DEF vars, loopVars
  <2> QED  BY <1>1, <2>1, StrategyAgrees, ProcessOrdersAgrees
<1>3. BInv'
  BY BookKeeps DEF AInv
<1> QED  BY <1>1, <1>2, <1>3 DEF AInv, AgreeStep

LEMMA AgreeBegins == Init => AInv
<1> SUFFICES ASSUME Init PROVE AInv
  OBVIOUS
<1>1. /\ orders = << >> /\ pending = << >> /\ still = << >> /\ phase = "strategy"
      /\ cursor = 1 /\ ~notified
  BY DEF Init
<1>2. Silent /\ CursorOK /\ SameCopies /\ Accounted /\ StatusOK /\ MarketsOK
  BY <1>1 DEF Silent, CursorOK, SameCopies, Accounted, StatusOK, MarketsOK
<1>3. GroupsOK
  BY <1>1 DEF GroupsOK, OcoGroupClosed
<1> QED  BY <1>2, <1>3, BookBegins DEF AInv

LEMMA AgreeHolds ==
  ASSUME NoEmptyOrders, Callbacks = {}
  PROVE  Spec => []AInv
<1>1. Init => AInv
  BY AgreeBegins
<1>2. AInv /\ [Next]_vars => AInv'
  BY AgreeKeeps
<1> QED  BY <1>1, <1>2, PTL DEF Spec

\* Between bars find_order and the loop over pending_orders_ see the same
\* orders: every order reported alive is worked on, once, with the same fields.
THEOREM BothCopiesAgree ==
  ASSUME NoEmptyOrders, Callbacks = {}
  PROVE  Spec => []CopiesAgree
<1>1. ASSUME AInv, BetweenBars, NEW i \in DOMAIN pending
      PROVE  [orders[pending[i].id] EXCEPT !.transmit = TRUE]
               = [pending[i] EXCEPT !.transmit = TRUE]
  <2>1. Alike(orders[pending[i].id], pending[i])
    BY <1>1 DEF AInv, SameCopies, BetweenBars
  <2>2. orders[pending[i].id] \in Good /\ pending[i] \in Good
    BY ListFacts, <1>1 DEF AInv, BInv
  <2> QED  BY <2>1, <2>2, AlikeIsSame
<1>2. ASSUME AInv, BetweenBars, NEW id \in DOMAIN orders, Alive(orders[id])
      PROVE  \E i \in DOMAIN pending :
               /\ [orders[id] EXCEPT !.transmit = TRUE] = [pending[i] EXCEPT !.transmit = TRUE]
               /\ \A j \in DOMAIN pending : pending[j].id = id => j = i
  <2>1. still = << >>
    BY <1>2 DEF AInv, BInv, Behind, BetweenBars
  <2>2. PICK i \in DOMAIN pending : pending[i].id = id
    BY <1>2, <2>1 DEF AInv, Accounted
  <2> QED  BY <1>1, <1>2, <2>2, PendingOnce DEF AInv
<1>3. AInv => CopiesAgree
  BY <1>1, <1>2 DEF CopiesAgree
<1> QED  BY <1>3, AgreeHolds, PTL

\* A market order does not outlive its first bar, unless its feed has no data
\* yet or slippage keeps the price out of the bar.
THEOREM MarketOrdersAreDecided ==
  ASSUME NoEmptyOrders, Callbacks = {}
  PROVE  Spec => []MarketOrdersDecided
<1>1. ASSUME AInv, BetweenBars, NEW id \in DOMAIN orders,
             orders[id].type = "Market", Alive(orders[id]), orders[id].born < bar, AlwaysPriced
      PROVE  orders[id].feed \in Feeds /\ bars[orders[id].feed] = None
  <2>1. still = << >>
    BY <1>1 DEF AInv, BInv, Behind, BetweenBars
  <2>2. PICK i \in DOMAIN pending : pending[i].id = id
    BY <1>1, <2>1 DEF AInv, Accounted
  <2>3. Alike(orders[id], pending[i])
    BY <1>1, <2>2 DEF AInv, SameCopies, BetweenBars
  <2>4. Decided(pending[i])
    BY <1>1, <2>3 DEF AInv, MarketsOK, BetweenBars, Alike, Copy
  <2> QED  BY <1>1, <2>3, <2>4 DEF Decided, Alike, Copy, Alive
<1>2. AInv => MarketOrdersDecided
  BY <1>1 DEF MarketOrdersDecided, AlwaysPriced
<1> QED  BY <1>2, AgreeHolds, PTL

\* The sweep at the end of process_orders reaches every order of a group that
\* has filled, wherever the group's orders are in the list.
THEOREM GroupsClose ==
  ASSUME NoEmptyOrders, Callbacks = {}
  PROVE  Spec => []OcoGroupClosed
<1>1. AInv => OcoGroupClosed
  BY DEF AInv, GroupsOK
<1> QED  BY <1>1, AgreeHolds, PTL

-----------------------------------------------------------------------------
(* The orders a strategy can look up, step by step *)

\* At most the order id changes, and it stays the order that was asked for.
Turn(id) ==
  /\ id \in DOMAIN orders /\ DOMAIN orders' = DOMAIN orders
  /\ Copy(orders[id], orders'[id])
  /\ \A j \in DOMAIN orders : j # id => orders'[j] = orders[j]

Calm == \/ UNCHANGED orders
        \/ \E id : Turn(id) /\ orders'[id].status = orders[id].status

Advances == \E id : Turn(id) /\ orders'[id].status \in Book!MayBecome(orders[id].status)

\* A main order that fails stays at the cursor until its legs are canceled.
Failed(q) == orders[q].status \in {"Margin", "Rejected"}
Dwells(q) == phase \in {"filled", "children"} /\ pending[cursor].id = q

Watched ==
  \A q \in DOMAIN orders :
    (/\ orders[q].feed \in Feeds /\ orders[q].parent = 0 /\ orders[q].children # {}
     /\ Failed(q)') =>
      \/ Failed(q) /\ ~Dwells(q)
      \/ Dwells(q)'
      \/ \A id \in DOMAIN orders : orders[id].parent = q => ~Alive(orders[id])

LEMMA QuietWatched ==
  ASSUME phase \notin {"filled", "children"}, \A q \in DOMAIN orders : Failed(q)' => Failed(q)
  PROVE  Watched
BY DEF Watched, Dwells

LEMMA TurnFacts ==
  ASSUME AInv, NEW i, NEW p, Touch(i, p), phase # "sweep"
  PROVE  /\ Turn(p.id) /\ orders'[p.id] = p /\ p.id = pending[i].id /\ p.id \in DOMAIN orders
         /\ orders[p.id].status = pending[i].status /\ orders[p.id].feed = pending[i].feed
         /\ \A j \in DOMAIN pending : pending'[j].id = pending[j].id
         /\ i \in DOMAIN pending
<1>1. /\ i \in DOMAIN pending /\ p \in Good /\ p.id = pending[i].id /\ p.id \in DOMAIN orders
      /\ \A j \in DOMAIN pending : Copy(pending[j], pending'[j])
      /\ pending'[i] = p
      /\ DOMAIN orders' = DOMAIN orders /\ orders'[p.id] = p
      /\ \A id \in DOMAIN orders : id # p.id => orders'[id] = orders[id]
  BY TouchFacts DEF AInv, BInv
<1>2. Alike(orders[p.id], pending[i]) /\ Copy(pending[i], p)
  BY <1>1 DEF AInv, SameCopies
<1>3. Copy(orders[p.id], p)
  BY <1>2 DEF Alike, Copy
<1>4. \A j \in DOMAIN pending : pending'[j].id = pending[j].id
  BY <1>1 DEF Copy
<1>5. Turn(p.id)
  BY <1>1, <1>3 DEF Turn
<1>6. orders[p.id].status = pending[i].status /\ orders[p.id].feed = pending[i].feed
  BY <1>2 DEF Alike, Copy
<1> QED  BY <1>1, <1>4, <1>5, <1>6

\* An alive order may be canceled.
LEMMA CancelAdvances ==
  ASSUME AInv, NEW id, Turn(id), Alive(orders[id]), orders'[id].status = "Canceled"
  PROVE  Advances
<1>1. orders[id].status \in {"Created", "Submitted", "Accepted"}
  BY DEF AInv, StatusOK, Turn, Alive, AliveStatuses
<1>2. "Canceled" \in Book!MayBecome(orders[id].status)
  BY <1>1 DEF Book!MayBecome, Book!Failures
<1> QED  BY <1>2 DEF Advances

LEMMA WithdrawMoves ==
  ASSUME AInv, NEW i, NEW p, Withdraw(i, p)
  PROVE  Advances /\ Watched
<1>1. /\ Touch(i, p) /\ Alive(pending[i]) /\ p.status = "Canceled"
      /\ UNCHANGED <<phase, cursor>> /\ phase # "sweep"
  BY DEF Withdraw, AInv, Silent
<1>2. /\ Turn(p.id) /\ orders'[p.id] = p /\ p.id \in DOMAIN orders
      /\ orders[p.id].status = pending[i].status
      /\ \A j \in DOMAIN pending : pending'[j].id = pending[j].id
  BY <1>1, TurnFacts
<1>3. Advances
  BY <1>1, <1>2, CancelAdvances DEF Alive
<1>4. ASSUME NEW q \in DOMAIN orders, Failed(q)' PROVE Failed(q)
  BY <1>1, <1>2, <1>4 DEF Failed, Turn
<1>5. phase \in {"filled", "children"} => cursor \in DOMAIN pending
  BY AtReference DEF References, AInv, BInv
<1>6. Watched
  BY <1>1, <1>2, <1>4, <1>5 DEF Watched, Dwells
<1> QED  BY <1>3, <1>6

LEMMA DecideMoves ==
  ASSUME AInv, NEW p, Decide(p)
  PROVE  /\ Watched
         /\ IF p.status = "Completed"
            THEN Turn(p.id) /\ p.id = pending[cursor].id /\ orders[p.id].status = "Accepted"
                 /\ orders'[p.id] = p
            ELSE Advances
<1>1. Touch(cursor, p) /\ Alive(pending[cursor]) /\ DecidedAs(p)
  BY DecideFacts
<1>2. phase \in {"order", "submitted", "fill"}
  BY <1>1 DEF DecidedAs
<1>3. /\ Turn(p.id) /\ orders'[p.id] = p /\ p.id = pending[cursor].id /\ p.id \in DOMAIN orders
      /\ orders[p.id].status = pending[cursor].status
      /\ orders[p.id].feed = pending[cursor].feed
      /\ \A j \in DOMAIN pending : pending'[j].id = pending[j].id
      /\ cursor \in DOMAIN pending
  BY <1>1, <1>2, TurnFacts
<1>4. IF p.status = "Completed"
      THEN Turn(p.id) /\ p.id = pending[cursor].id /\ orders[p.id].status = "Accepted"
           /\ orders'[p.id] = p
      ELSE Advances
  <2>1. CASE p.status = "Completed"
    BY <1>1, <1>3, <2>1 DEF DecidedAs
  <2>2. CASE p.status # "Completed"
    <3>1. orders[p.id].status \in {"Created", "Submitted", "Accepted"}
      BY <1>1, <1>3 DEF AInv, StatusOK, Alive, AliveStatuses
    <3>2. p.status \in Book!MayBecome(orders[p.id].status)
      BY <1>1, <1>3, <2>2, <3>1 DEF DecidedAs, Book!MayBecome, Book!Failures
    <3> QED  BY <1>3, <2>2, <3>2 DEF Advances
  <2> QED  BY <2>1, <2>2
<1>5. ASSUME NEW q \in DOMAIN orders, orders[q].feed \in Feeds, Failed(q)', ~Failed(q)
      PROVE  Dwells(q)'
  <2>1. q = p.id /\ p.status \in {"Margin", "Rejected"}
    BY <1>3, <1>5 DEF Failed, Turn
  <2>2. phase = "fill" /\ phase' = "filled" /\ cursor' = cursor
    <3>1. pending[cursor].feed \in Feeds
      BY <1>3, <1>5, <2>1
    <3> QED  BY <1>1, <2>1, <3>1 DEF Decide, DecideAs
  <2> QED  BY <1>3, <2>1, <2>2 DEF Dwells
<1>6. Watched
  BY <1>2, <1>5 DEF Watched, Dwells
<1> QED  BY <1>4, <1>6

LEMMA KeepMoves ==
  ASSUME AInv, NEW p, KeepAs(p)
  PROVE  Calm /\ Watched
<1>1. /\ p.id \in DOMAIN orders /\ DOMAIN orders' = DOMAIN orders
      /\ \A id \in DOMAIN orders : id # p.id => orders'[id] = orders[id]
      /\ orders'[p.id] = p \/ orders'[p.id] = orders[p.id]
      /\ cursor \in DOMAIN pending /\ Copy(pending[cursor], p) /\ p.id = pending[cursor].id
  BY KeepFacts DEF AInv, BInv, Copy
<1>2. Alike(orders'[p.id], p) /\ p.status = orders[p.id].status /\ phase \in {"order", "fill"}
  BY KeepIsAlike DEF KeepAs
<1>3. Copy(orders[p.id], pending[cursor])
  BY <1>1, <1>2 DEF AInv, SameCopies, Alike
<1>4. Copy(orders[p.id], orders'[p.id]) /\ orders'[p.id].status = orders[p.id].status
  BY <1>1, <1>2, <1>3 DEF Alike, Copy
<1>5. Turn(p.id)
  BY <1>1, <1>4 DEF Turn
<1>6. \A q \in DOMAIN orders : Failed(q)' => Failed(q)
  BY <1>1, <1>4 DEF Failed
<1> QED  BY <1>2, <1>4, <1>5, <1>6, QuietWatched DEF Calm

LEMMA PushWatched ==
  ASSUME AInv, Callbacks = {}, NEW new, Pushes(new)
  PROVE  Watched
<1>1. phase = "strategy"
  BY DEF Pushes
<1>2. \A q \in DOMAIN orders : orders'[q] = orders[q]
  BY PushFacts DEF AInv, BInv
<1> QED  BY <1>1, <1>2, QuietWatched DEF Failed

LEMMA SweepCancelMoves ==
  ASSUME AInv, NEW i \in DOMAIN still, SweepCancel(i)
  PROVE  Advances /\ Watched
<1> DEFINE p == Move(still[i], "Canceled")
<1>1. /\ phase = "sweep" /\ Alive(still[i]) /\ still[i] \in Good /\ still[i].id \in DOMAIN orders
      /\ Alike(orders[still[i].id], still[i])
  BY ListFacts DEF SweepCancel, Swept, AInv, BInv, SameCopies
<1>2. Copy(still[i], p) /\ p.status = "Canceled"
  BY <1>1, MoveKeepsGood, MoveFields DEF Failing, OrderStatuses
<1>3. still' = [still EXCEPT ![i] = p] /\ Sync(still'[i])
  BY DEF SweepCancel
<1> HIDE DEF p
<1>4. /\ DOMAIN orders' = DOMAIN orders /\ orders'[p.id] = p /\ p.id \in DOMAIN orders
      /\ p.id = still[i].id
      /\ \A id \in DOMAIN orders : id # p.id => orders'[id] = orders[id]
  BY <1>1, <1>2, <1>3 DEF Sync, Copy
<1>5. Turn(p.id) /\ Alive(orders[p.id])
  BY <1>1, <1>2, <1>4 DEF Turn, Alike, Copy, Alive
<1>6. Advances
  BY <1>2, <1>4, <1>5, CancelAdvances
<1>7. \A q \in DOMAIN orders : Failed(q)' => Failed(q)
  BY <1>2, <1>4 DEF Failed
<1> QED  BY <1>1, <1>6, <1>7, QuietWatched

LEMMA SettleOrderWatched ==
  ASSUME AInv, NEW o, SettleOrder(o)
  PROVE  Calm /\ Watched
<1>1. /\ phase = "filled" /\ o = pending[cursor] /\ UNCHANGED orders
      /\ pending' = pending \/ pending' = Activate(o.id)
  BY DEF SettleOrder
<1>2. cursor \in DOMAIN pending /\ Alike(orders[o.id], o)
  BY <1>1, AtReference DEF References, AInv, BInv, SameCopies
<1>3. pending'[cursor].id = o.id
  <2>1. pending[cursor] \in Good
    BY <1>2, ListFacts DEF AInv, BInv
  <2>2. [pending[cursor] EXCEPT !.transmit = TRUE].id = o.id
    BY <1>1, <2>1 DEF Good, OrderRecords
  <2> QED  BY <1>1, <1>2, <2>2 DEF Activate
<1>4. ASSUME NEW q \in DOMAIN orders, orders[q].parent = 0, orders[q].children # {},
             Failed(q), Dwells(q)
      PROVE  Dwells(q)'
  <2>1. q = o.id /\ o.parent = 0 /\ o.children # {} /\ o.status \in FailedStatuses
    BY <1>1, <1>2, <1>4 DEF Dwells, Failed, Alike, Copy, FailedStatuses
  <2>2. phase' = "children" /\ cursor' = cursor
    BY <2>1 DEF SettleOrder, SameOrder
  <2> QED  BY <1>3, <2>1, <2>2 DEF Dwells
<1>5. Watched
  BY <1>1, <1>4 DEF Watched, Failed
<1> QED  BY <1>1, <1>5 DEF Calm

\* When cancel_bracket_children is done, no leg is alive in either vector.
LEMMA ChildrenDoneWatched ==
  ASSUME AInv, ChildrenDone
  PROVE  Calm /\ Watched
<1>1. /\ phase = "children" /\ UNCHANGED orders
      /\ \A i \in DOMAIN pending : pending[i].parent = pending[cursor].id => ~Alive(pending[i])
  BY DEF ChildrenDone, AliveChild
<1>2. cursor \in DOMAIN pending /\ pending[cursor] \in Good /\ cursor \in Nat
  BY <1>1, AtReference, ListFacts DEF References, AInv, BInv
<1>3. ASSUME NEW q \in DOMAIN orders, Dwells(q), NEW id \in DOMAIN orders,
             orders[id].parent = q, Alive(orders[id])
      PROVE  FALSE
  <2>1. q = pending[cursor].id /\ q # 0 /\ q < id /\ q \in Nat /\ id \in Nat
    <3>1. orders[id] \in Good /\ orders[id].id = id /\ q \in Nat /\ id \in Nat /\ q # 0
      BY ListFacts DEF AInv, BInv
    <3> QED  BY <1>3, <3>1, GoodFields DEF Dwells
  <2>2. ASSUME NEW i \in DOMAIN pending, pending[i].id = id PROVE FALSE
    <3>1. Alike(orders[id], pending[i])
      BY <1>1, <2>2 DEF AInv, SameCopies
    <3> QED  BY <1>1, <1>3, <2>1, <3>1 DEF Alike, Copy, Alive
  <2>3. \A k \in DOMAIN still : \E i \in DOMAIN pending : pending[i].id = still[k].id
    BY DEF AInv, BInv, Behind
  <2> QED  BY <1>3, <2>2, <2>3 DEF AInv, Accounted
<1>4. Watched
  BY <1>1, <1>3 DEF Watched, Failed
<1> QED  BY <1>1, <1>4 DEF Calm

LEMMA StillWatched ==
  ASSUME AInv, UNCHANGED orders,
         phase \notin {"filled", "children"} \/ UNCHANGED <<phase, cursor, pending>>
  PROVE  Calm /\ Watched
<1>1. Calm
  BY DEF Calm
<1>2. CASE phase \notin {"filled", "children"}
  BY <1>1, <1>2, QuietWatched DEF Failed
<1>3. CASE UNCHANGED <<phase, cursor, pending>>
  BY <1>1, <1>3 DEF Watched, Dwells, Failed
<1> QED  BY <1>2, <1>3, <1>1

BookMoves == Watched /\ (Calm \/ Advances \/ \E new : Pushes(new))
-----------------------------------------------------------------------------
(* Every step but a fill leaves the positions alone *)

LEMMA OneOrderMoves ==
  ASSUME AInv, NEW o, OneOrder(o), ~FillOrder(o)
  PROVE  BookMoves /\ UNCHANGED ledgerVars
<1>1. IInv
  BY DEF AInv, BInv
<1>2. CASE SkipDead(o)
  BY <1>2, StillWatched DEF SkipDead, AtOrder, BookMoves
<1>3. CASE SettleOrder(o)
  BY <1>3, SettleOrderWatched DEF SettleOrder, BookMoves
<1>4. CASE HoldChild(o) \/ KeepUntilData(o) \/ KeepUnfilled(o)
  <2>1. \E p : KeepAs(p)
    BY <1>1, <1>4, HoldChildIs, KeepUntilDataIs, KeepUnfilledIs
  <2>2. UNCHANGED ledgerVars
    BY <1>4 DEF HoldChild, KeepUntilData, KeepUnfilled
  <2> QED  BY <2>1, <2>2, KeepMoves DEF BookMoves
<1>5. CASE RejectFeed(o) \/ Expire(o)
  <2>1. PICK p : Decide(p)
    BY <1>1, <1>5, RejectFeedIs, ExpireIs
  <2>2. phase = "order" /\ UNCHANGED ledgerVars
    BY <1>5 DEF RejectFeed, Expire, ToTry, AtOrder
  <2>3. p.status # "Completed"
    BY <2>1, <2>2, DecideFacts DEF DecidedAs
  <2> QED  BY <2>1, <2>2, <2>3, DecideMoves DEF BookMoves
<1>6. CASE RejectUnpriced(o) \/ MarginCall(o)
  <2>1. PICK p : Decide(p)
    BY <1>1, <1>6, RejectUnpricedIs, MarginCallIs
  <2>2. /\ phase = "fill" /\ o = pending[cursor] /\ UNCHANGED ledgerVars
        /\ Work(Move(o, "Rejected")) \/ Work(Move(o, "Margin"))
    BY <1>6 DEF RejectUnpriced, MarginCall, Trying
  <2>3. cursor \in DOMAIN pending /\ o \in Good /\ Alive(o) /\ pending'[cursor] = p
    BY <2>1, <2>2, DecideFacts, TouchFacts, ListFacts DEF AInv, BInv
  <2>4. p = Move(o, "Rejected") \/ p = Move(o, "Margin")
    BY <2>2, <2>3 DEF Work
  <2>5. p.status # "Completed"
    BY <2>3, <2>4, MoveFields
  <2> QED  BY <2>1, <2>2, <2>5, DecideMoves DEF BookMoves
<1>7. CASE Admit(o) /\ o.status = "Created"
  <2>1. PICK p : Decide(p)
    BY <1>1, <1>7, AdmittedIs
  <2>2. phase = "order" /\ UNCHANGED ledgerVars
    BY <1>7 DEF Admit, ToTry, AtOrder
  <2>3. p.status # "Completed"
    BY <2>1, <2>2, DecideFacts DEF DecidedAs
  <2> QED  BY <2>1, <2>2, <2>3, DecideMoves DEF BookMoves
<1>8. CASE Admit(o) /\ o.status # "Created"
  BY <1>8, StillWatched DEF Admit, ToTry, AtOrder, BookMoves
<1> QED  BY <1>2, <1>3, <1>4, <1>5, <1>6, <1>7, <1>8 DEF OneOrder

LEMMA StrategyMoves ==
  ASSUME AInv, NoEmptyOrders, Callbacks = {}, Strategy
  PROVE  BookMoves /\ UNCHANGED ledgerVars
<1>1. IInv
  BY DEF AInv, BInv
<1>2. CASE \/ \E r \in Requests : Submit(r)
           \/ \E d \in Feeds : ClosePosition(d)
           \/ \E b \in Brackets, size \in HookResults : PlaceBracket(b, size)
  <2>1. \E new : Pushes(new)
    BY <1>1, <1>2, SubmitIs, ClosePositionIs, PlaceBracketIs
  <2>2. UNCHANGED ledgerVars
    BY <1>2 DEF Submit, ClosePosition, PlaceBracket, Idle
  <2> QED  BY <2>1, <2>2, PushWatched DEF BookMoves
<1>3. CASE \E id \in DOMAIN orders : Cancel(id)
  <2>1. PICK id : Cancel(id)
    BY <1>3
  <2>2. \E i, p : Withdraw(i, p)
    BY <1>1, <2>1, CancelPendingIs DEF Cancel, StrategyActs, loopVars
  <2> QED  BY <2>1, <2>2, WithdrawMoves DEF Cancel, BookMoves
<1>4. CASE NextOcoGroup \/ StartBar
  BY <1>4, StillWatched DEF NextOcoGroup, StartBar, StrategyActs, Idle, BookMoves
<1> QED  BY <1>2, <1>3, <1>4 DEF Strategy

LEMMA ProcessOrdersMoves ==
  ASSUME AInv, ProcessOrders, \A i \in DOMAIN pending : ~FillOrder(pending[i])
  PROVE  BookMoves /\ UNCHANGED ledgerVars
<1>1. IInv
  BY DEF AInv, BInv
<1>2. CASE \E i \in DOMAIN pending : OneOrder(pending[i])
  BY <1>2, OneOrderMoves
<1>3. CASE \E i \in DOMAIN pending : CancelChild(i)
  BY <1>1, <1>3, CancelChildIs, WithdrawMoves DEF CancelChild, BookMoves
<1>4. CASE AcceptOrder
  <2>1. PICK p : Decide(p)
    BY <1>1, <1>4, AcceptOrderIs
  <2>2. phase = "submitted" /\ UNCHANGED ledgerVars
    BY <1>4 DEF AcceptOrder
  <2>3. p.status # "Completed"
    BY <2>1, <2>2, DecideFacts DEF DecidedAs
  <2> QED  BY <2>1, <2>2, <2>3, DecideMoves DEF BookMoves
<1>5. CASE ChildrenDone
  BY <1>5, ChildrenDoneWatched DEF ChildrenDone, BookMoves
<1>6. CASE LoopEnds \/ FinishBar
  BY <1>6, StillWatched DEF LoopEnds, FinishBar, BookMoves
<1>7. CASE \E i \in DOMAIN still : SweepCancel(i)
  BY <1>7, SweepCancelMoves DEF SweepCancel, BookMoves
<1> QED  BY <1>2, <1>3, <1>4, <1>5, <1>6, <1>7 DEF ProcessOrders

LEMMA StepMoves ==
  ASSUME AInv, NoEmptyOrders, Callbacks = {}, [Next]_vars
  PROVE  \/ BookMoves /\ UNCHANGED ledgerVars
         \/ \E i \in DOMAIN pending : FillOrder(pending[i])
<1>1. Strategy \/ ProcessOrders \/ UNCHANGED vars
  BY StaysSilent DEF Next
<1>2. CASE UNCHANGED vars
  BY <1>2, StillWatched DEF vars, loopVars, BookMoves
<1> QED  BY <1>1, <1>2, StrategyMoves, ProcessOrdersMoves

\* A fill completes an accepted order and moves its feed's position by its size.
LEMMA FillMoves ==
  ASSUME AInv, NEW o, FillOrder(o)
  PROVE  /\ Watched /\ Turn(o.id) /\ o.feed \in Feeds
         /\ orders[o.id].status = "Accepted" /\ orders'[o.id].status = "Completed"
         /\ Copy(orders[o.id], o)
         /\ position' = [position EXCEPT ![o.feed] = PositionAfter(@, SignedSize(o), Price(o))]
<1>1. PICK p : Decide(p)
  BY FillOrderIs DEF AInv, BInv
<1>2. /\ phase = "fill" /\ o = pending[cursor]
      /\ position' = [position EXCEPT ![o.feed] = PositionAfter(@, SignedSize(o), Price(o))]
  BY DEF FillOrder, Trying, ApplyFill
<1>3. /\ cursor \in DOMAIN pending /\ o \in Good /\ Alive(o) /\ pending'[cursor] = p
      /\ o.feed \in Feeds /\ o.id = p.id
  BY <1>1, <1>2, DecideFacts, TouchFacts, ListFacts DEF AInv, BInv, IInv, TriedOK, Tried
<1>4. p = [Execute(o, Price(o), o.size) EXCEPT !.execBar = bar]
  BY <1>3 DEF FillOrder, Work
<1>5. p.status = "Completed"
  <2> DEFINE q == Price(o)
  <2>1. p = [Execute(o, q, o.size) EXCEPT !.execBar = bar]
    BY <1>4
  <2> HIDE DEF q
  <2> QED  BY <1>3, <2>1 DEF Execute, Good, OrderRecords
<1>6. Copy(orders[o.id], o)
  BY <1>2, <1>3 DEF AInv, SameCopies, Alike
<1> QED  BY <1>1, <1>2, <1>3, <1>5, <1>6, DecideMoves

-----------------------------------------------------------------------------
(* No orphans *)

BracketsOnFeeds == \A b \in Brackets : b.feed \in Feeds

\* A parent is a main order on a feed of the run.
ParentsOK ==
  \A id \in DOMAIN orders :
    LET q == orders[id].parent
    IN  q # 0 => /\ q \in DOMAIN orders /\ orders[q].parent = 0
                 /\ orders[q].children # {} /\ orders[q].feed \in Feeds

\* The legs of a main order that has failed are dead once the loop has left it.
OrphansOK ==
  \A id \in DOMAIN orders :
    LET q == orders[id].parent
    IN  q # 0 /\ Failed(q) => ~Alive(orders[id]) \/ Dwells(q)

LEMMA LinksFollow ==
  ASSUME ParentsOK, OrphansOK, Watched, DOMAIN orders \subseteq DOMAIN orders',
         \A id \in DOMAIN orders :
           Copy(orders[id], orders'[id]) /\ (Alive(orders'[id]) => Alive(orders[id])),
         \A id \in DOMAIN orders' \ DOMAIN orders :
           LET q == orders'[id].parent
           IN  q # 0 => /\ q \in DOMAIN orders' /\ orders'[q].parent = 0
                        /\ orders'[q].children # {} /\ orders'[q].feed \in Feeds
                        /\ orders'[q].status = "Created"
  PROVE  ParentsOK' /\ OrphansOK'
<1>1. ASSUME NEW id \in DOMAIN orders'
      PROVE  LET q == orders'[id].parent
             IN  q # 0 => /\ q \in DOMAIN orders' /\ orders'[q].parent = 0
                          /\ orders'[q].children # {} /\ orders'[q].feed \in Feeds
  <2>1. CASE id \in DOMAIN orders
    BY <2>1 DEF ParentsOK, Copy
  <2>2. CASE id \notin DOMAIN orders
    BY <2>2
  <2> QED  BY <2>1, <2>2
<1>2. ASSUME NEW id \in DOMAIN orders', orders'[id].parent # 0, Failed(orders[id].parent)'
      PROVE  ~Alive(orders'[id]) \/ Dwells(orders[id].parent)'
  <2>1. id \in DOMAIN orders
    BY <1>2 DEF Failed
  <2> DEFINE q == orders[id].parent
  <2>2. q # 0 /\ orders'[id].parent = q
    BY <1>2, <2>1 DEF Copy
  <2>3. /\ q \in DOMAIN orders /\ orders[q].parent = 0 /\ orders[q].children # {}
        /\ orders[q].feed \in Feeds
    BY <2>1, <2>2 DEF ParentsOK
  <2>4. orders'[q].status \in {"Margin", "Rejected"}
    BY <1>2, <2>2 DEF Failed
  <2>5. \/ Failed(q) /\ ~Dwells(q)
        \/ phase' \in {"filled", "children"} /\ pending'[cursor'].id = q
        \/ ~Alive(orders[id])
    BY <2>1, <2>3, <2>4 DEF Watched, Failed, Dwells
  <2>6. Failed(q) /\ ~Dwells(q) => ~Alive(orders[id])
    BY <2>1, <2>2 DEF OrphansOK
  <2> QED  BY <2>1, <2>2, <2>5, <2>6 DEF Dwells
<1> QED  BY <1>1, <1>2 DEF ParentsOK, OrphansOK

LEMMA TurnDies ==
  ASSUME NEW id, Turn(id), Alive(orders'[id]) => Alive(orders[id])
  PROVE  /\ DOMAIN orders' = DOMAIN orders
         /\ \A j \in DOMAIN orders :
              Copy(orders[j], orders'[j]) /\ (Alive(orders'[j]) => Alive(orders[j]))
BY CopyRefl DEF Turn

LEMMA LinksKeep ==
  ASSUME AInv, ParentsOK, OrphansOK, NoEmptyOrders, Callbacks = {}, BracketsOnFeeds, [Next]_vars
  PROVE  ParentsOK' /\ OrphansOK'
<1>1. CASE \E i \in DOMAIN pending : FillOrder(pending[i])
  <2>1. PICK i \in DOMAIN pending : FillOrder(pending[i])
    BY <1>1
  <2> DEFINE id == pending[i].id
  <2>2. Watched /\ Turn(id) /\ orders'[id].status = "Completed"
    BY <2>1, FillMoves
  <2>3. ~Alive(orders'[id])
    BY <2>2 DEF Alive, AliveStatuses
  <2> HIDE DEF id
  <2> QED  BY <2>2, <2>3, TurnDies, LinksFollow
<1>2. CASE BookMoves
  <2>1. CASE UNCHANGED orders
    BY <1>2, <2>1, CopyRefl, LinksFollow DEF BookMoves
  <2>2. CASE \E id : Turn(id) /\ orders'[id].status = orders[id].status
    <3>1. PICK id : Turn(id) /\ orders'[id].status = orders[id].status
      BY <2>2
    <3>2. Alive(orders'[id]) => Alive(orders[id])
      BY <3>1 DEF Alive
    <3> QED  BY <1>2, <3>1, <3>2, TurnDies, LinksFollow DEF BookMoves
  <2>3. CASE Advances
    <3>1. PICK id : Turn(id) /\ orders'[id].status \in Book!MayBecome(orders[id].status)
      BY <2>3 DEF Advances
    <3>2. Alive(orders'[id]) => Alive(orders[id])
      BY <3>1 DEF Book!MayBecome, Alive, AliveStatuses
    <3> QED  BY <1>2, <3>1, <3>2, TurnDies, LinksFollow DEF BookMoves
  <2>4. CASE \E new : Pushes(new)
    <3>1. PICK new : Pushes(new)
      BY <2>4
    <3> DEFINE m == Len(orders)  k == Len(new)
    <3>2. /\ m \in Nat /\ k \in Nat /\ DOMAIN orders = 1..m /\ DOMAIN orders' = 1..(m + k)
          /\ \A j \in 1..m : orders'[j] = orders[j]
          /\ \A j \in 1..k : orders'[m + j] = new[j] /\ new[j].status = "Created"
      BY <3>1, PushFacts DEF AInv, BInv
    <3>3. /\ DOMAIN new = 1..k
          /\ \A j \in DOMAIN new : new[j].parent # 0 =>
               /\ new[j].parent = m + 1 /\ 1 \in DOMAIN new /\ new[1].parent = 0
               /\ new[1].children # {} /\ new[1].feed \in Feeds
      <4>1. DOMAIN new = 1..k
        BY <3>1, SeqIndices DEF Pushes, Numbered
      <4> QED  BY <3>1, <4>1 DEF Pushes, LegOf, BracketsOnFeeds
    <3> HIDE DEF m, k
    <3>4. DOMAIN orders \subseteq DOMAIN orders'
      BY <3>2
    <3>5. ASSUME NEW id \in DOMAIN orders' \ DOMAIN orders, orders'[id].parent # 0
          PROVE  LET q == orders'[id].parent
                 IN  /\ q \in DOMAIN orders' /\ orders'[q].parent = 0
                     /\ orders'[q].children # {} /\ orders'[q].feed \in Feeds
                     /\ orders'[q].status = "Created"
      <4>1. id - m \in 1..k /\ id = m + (id - m)
        BY <3>2
      <4>2. orders'[id] = new[id - m]
        BY <3>2, <4>1
      <4>3. /\ orders'[id].parent = m + 1 /\ 1 \in 1..k /\ new[1].parent = 0
            /\ new[1].children # {} /\ new[1].feed \in Feeds
        BY <3>3, <3>5, <4>1, <4>2
      <4>4. orders'[m + 1] = new[1] /\ new[1].status = "Created" /\ m + 1 \in DOMAIN orders'
        BY <3>2, <4>3
      <4> QED  BY <4>3, <4>4
    <3>6. \A id \in DOMAIN orders : orders'[id] = orders[id]
      BY <3>2
    <3> QED  BY <1>2, <3>4, <3>5, <3>6, CopyRefl, LinksFollow DEF BookMoves
  <2> QED  BY <1>2, <2>1, <2>2, <2>3, <2>4 DEF BookMoves, Calm
<1> QED  BY <1>1, <1>2, StepMoves

\* A main order that is rejected or margin-called leaves no leg of its bracket
\* alive (cancel_bracket_children), provided that brackets name feeds of the
\* run: the rejection of an unknown feed does not cancel the legs.
THEOREM NoOrphanIsLeft ==
  ASSUME NoEmptyOrders, Callbacks = {}, BracketsOnFeeds
  PROVE  Spec => []NoOrphanAfterMargin
<1> DEFINE PInv == AInv /\ ParentsOK /\ OrphansOK
<1>1. Init => PInv
  BY AgreeBegins DEF ParentsOK, OrphansOK, Init
<1>2. PInv /\ [Next]_vars => PInv'
  BY AgreeKeeps, LinksKeep
<1>3. PInv => NoOrphanAfterMargin
  BY DEF OrphansOK, Failed, Dwells, NoOrphanAfterMargin, BetweenBars
<1> HIDE DEF PInv
<1> QED  BY <1>1, <1>2, <1>3, PTL DEF Spec

-----------------------------------------------------------------------------
(* The refinement of the order book *)

Entry(o)   == [feed |-> o.feed, size |-> SignedSize(o), status |-> o.status]
Entries(s) == [id \in DOMAIN s |-> Entry(s[id])]
Nets(p)    == [d \in Feeds |-> p[d].size]

LEMMA LenOf ==
  ASSUME NEW S, NEW m \in Nat, NEW s \in [1..m -> S]
  PROVE  s \in Seq(S) /\ Len(s) = m
OBVIOUS

\* What a turn of one order does to its book.
LEMMA TurnEntries ==
  ASSUME NEW id, Turn(id)
  PROVE  Entries(orders') = [Entries(orders) EXCEPT ![id].status = orders'[id].status]
<1>1. ASSUME NEW j \in DOMAIN orders
      PROVE  Entry(orders'[j]) = IF j = id THEN [Entry(orders[j]) EXCEPT !.status = orders'[id].status]
                                           ELSE Entry(orders[j])
  <2>1. CASE j = id
    BY <2>1 DEF Turn, Copy, Entry, SignedSize
  <2>2. CASE j # id
    BY <2>2 DEF Turn
  <2> QED  BY <2>1, <2>2
<1>2. DOMAIN orders' = DOMAIN orders /\ id \in DOMAIN orders
  BY DEF Turn
<1> DEFINE s == Entries(orders)
<1>3. /\ DOMAIN s = DOMAIN orders /\ \A j \in DOMAIN orders : s[j] = Entry(orders[j])
      /\ Entries(orders') = [j \in DOMAIN orders |-> Entry(orders'[j])]
  BY <1>2 DEF Entries
<1> HIDE DEF s
<1>4. [s EXCEPT ![id].status = orders'[id].status]
        = [j \in DOMAIN orders |-> IF j = id THEN [s[j] EXCEPT !.status = orders'[id].status]
                                             ELSE s[j]]
  BY <1>2, <1>3
<1>5. [s EXCEPT ![id].status = orders'[id].status] = [j \in DOMAIN orders |-> Entry(orders'[j])]
  BY <1>1, <1>3, <1>4
<1> QED  BY <1>3, <1>5 DEF s

LEMMA AdvanceRefines ==
  ASSUME Advances, UNCHANGED position
  PROVE  Book!Advance
<1>1. PICK id : Turn(id) /\ orders'[id].status \in Book!MayBecome(orders[id].status)
  BY DEF Advances
<1>2. Entries(orders') = [Entries(orders) EXCEPT ![id].status = orders'[id].status]
  BY <1>1, TurnEntries
<1>3. id \in DOMAIN Entries(orders) /\ Entries(orders)[id].status = orders[id].status
  BY <1>1 DEF Turn, Entries, Entry
<1> QED  BY <1>1, <1>2, <1>3 DEF Book!Advance, Entries, Entry

LEMMA FillRefines ==
  ASSUME AInv, NEW o, FillOrder(o)
  PROVE  Book!Complete
<1> DEFINE n == SignedSize(o)  q == Price(o)
<1>1. /\ Turn(o.id) /\ o.feed \in Feeds
      /\ orders[o.id].status = "Accepted" /\ orders'[o.id].status = "Completed"
      /\ Copy(orders[o.id], o)
      /\ position' = [position EXCEPT ![o.feed] = PositionAfter(@, n, q)]
  BY FillMoves
<1>2. Entries(orders') = [Entries(orders) EXCEPT ![o.id].status = "Completed"]
  BY <1>1, TurnEntries
<1>3. /\ o.id \in DOMAIN Entries(orders) /\ Entries(orders)[o.id].status = "Accepted"
      /\ Entries(orders)[o.id].feed = o.feed /\ Entries(orders)[o.id].size = n
  BY <1>1 DEF Turn, Entries, Entry, Copy, SignedSize
<1>4. position \in [Feeds -> [size : Int, price : Int]]
  BY DEF AInv, BInv, IInv, LedgerInv, LedgerTypeOK
<1> HIDE DEF n, q
<1>5. \A pos : PositionAfter(pos, n, q).size = pos.size + n
  BY DEF PositionAfter
<1> DEFINE after == PositionAfter(position[o.feed], n, q)
<1>6. after.size = position[o.feed].size + n
  BY <1>5
<1>7. position' = [position EXCEPT ![o.feed] = after]
  BY <1>1, <1>4
<1> HIDE DEF after
<1>8. Nets(position') = [Nets(position) EXCEPT ![o.feed] = @ + n]
  BY <1>1, <1>4, <1>6, <1>7 DEF Nets
<1> QED  BY <1>2, <1>3, <1>8 DEF Book!Complete, Entries, Entry, Nets

LEMMA PushRefines ==
  ASSUME AInv, NEW new, Pushes(new), UNCHANGED position
  PROVE  [Book!BookNext]_<<Entries(orders), Nets(position)>>
<1> DEFINE m == Len(orders)  k == Len(new)
           s == Entries(orders)  t == Entries(orders')
           S == {Entry(o) : o \in Good}
<1>1. /\ m \in Nat /\ k \in Nat /\ DOMAIN orders = 1..m /\ DOMAIN orders' = 1..(m + k)
      /\ \A j \in 1..m : orders'[j] = orders[j]
      /\ \A j \in 1..k : orders'[m + j] = new[j] /\ new[j].status = "Created" /\ new[j] \in Good
      /\ k \in 0..3
  BY PushFacts DEF AInv, BInv, Pushes
<1>2. \A j \in 1..m : orders[j] \in Good
  BY <1>1, ListFacts DEF AInv, BInv
<1> HIDE DEF m, k
<1>3. \A j \in 1..(m + k) : orders'[j] \in Good
  <2> SUFFICES ASSUME NEW j \in 1..(m + k), j \notin 1..m PROVE orders'[j] \in Good
    BY <1>1, <1>2
  <2>1. j - m \in 1..k /\ m + (j - m) = j
    BY <1>1
  <2> QED  BY <1>1, <2>1
<1>4. /\ s \in [1..m -> S] /\ t \in [1..(m + k) -> S]
      /\ \A j \in 1..m : t[j] = s[j]
      /\ \A j \in 1..(m + k) : t[j] = Entry(orders'[j])
  <2>1. \A j \in 1..m : j \in 1..(m + k)
    BY <1>1
  <2> QED  BY <1>1, <1>2, <1>3, <2>1 DEF Entries
<1>5. \A j \in 1..k : t[m + j].status = "Created"
  <2> SUFFICES ASSUME NEW j \in 1..k PROVE t[m + j].status = "Created"
    OBVIOUS
  <2>1. orders'[m + j].status = "Created"
    BY <1>1
  <2>2. m + j \in 1..(m + k)
    BY <1>1
  <2> QED  BY <1>4, <2>1, <2>2 DEF Entry
<1> HIDE DEF S
<1>6. /\ Len(t) = Len(s) + k /\ SubSeq(t, 1, Len(s)) = s
      /\ \A i \in Len(s) + 1 .. Len(t) : t[i].status = "Created"
  <2> HIDE DEF s, t
  <2>1. m \in Nat /\ k \in Nat
    BY <1>1
  <2>2. s \in [1..m -> S] /\ t \in [1..(m + k) -> S]
    BY <1>4
  <2>3. \A j \in 1..m : t[j] = s[j]
    BY <1>4
  <2>4. s \in Seq(S) /\ Len(s) = m /\ t \in Seq(S) /\ Len(t) = m + k
    BY ONLY <2>1, <2>2, LenOf
  <2>5. SubSeq(t, 1, m) = s
    BY ONLY <2>1, <2>2, <2>3, <2>4
  <2>6. ASSUME NEW i \in m + 1 .. m + k PROVE t[i].status = "Created"
    <3>1. i - m \in 1..k /\ m + (i - m) = i
      BY <2>1
    <3> QED  BY ONLY <1>5, <3>1
  <2> QED  BY ONLY <2>4, <2>5, <2>6
<1>7. CASE k = 0
  <2>1. t = s
    <3> HIDE DEF s, t
    <3>1. m + k = m
      BY <1>1, <1>7
    <3> QED  BY <1>1, <1>4, <3>1
  <2> QED  BY <2>1 DEF Entries, Nets
<1>8. CASE k \in 1..3
  <2>1. Book!Place
    BY <1>6, <1>8 DEF Book!Place, Entries, Entry, Nets
  <2> QED  BY <2>1 DEF Book!BookNext
<1> QED  BY <1>1, <1>7, <1>8

LEMMA CalmRefines ==
  ASSUME Calm, UNCHANGED position
  PROVE  UNCHANGED <<Entries(orders), Nets(position)>>
<1>1. CASE UNCHANGED orders
  BY <1>1 DEF Entries, Nets
<1>2. CASE \E id : Turn(id) /\ orders'[id].status = orders[id].status
  <2>1. PICK id : Turn(id) /\ orders'[id].status = orders[id].status
    BY <1>2
  <2> DEFINE s == Entries(orders)
             st == orders[id].status
  <2>2. Entries(orders') = [s EXCEPT ![id].status = st]
    BY <2>1, TurnEntries
  <2>3. id \in DOMAIN s /\ s[id] = Entry(orders[id]) /\ s = [j \in DOMAIN s |-> s[j]]
    <3>1. id \in DOMAIN orders
      BY <2>1 DEF Turn
    <3> QED  BY ONLY <3>1 DEF Entries
  <2>4. [s[id] EXCEPT !.status = st] = s[id]
    BY <2>3 DEF Entry
  <2> HIDE DEF s
  <2>5. [s EXCEPT ![id].status = st] = s
    BY <2>3, <2>4
  <2>6. Entries(orders') = Entries(orders)
    BY <2>2, <2>5 DEF s
  <2> QED  BY <2>6 DEF Entries, Nets
<1> QED  BY <1>1, <1>2 DEF Calm

\* Without calls from inside notify_order the broker implements the order
\* book: an order moves along the state machine of order.hpp, once, and a
\* feed's net position moves with an order exactly when the order completes.
THEOREM BrokerIsAnOrderBook ==
  ASSUME NoEmptyOrders, Callbacks = {}
  PROVE  Spec => ImplementsOrderBook
<1>1. Init => Book!BookInit
  BY DEF Init, LedgerInit, Book!BookInit, Entries
<1>2. AInv /\ [Next]_vars => [Book!BookNext]_<<Entries(orders), Nets(position)>>
  <2> SUFFICES ASSUME AInv, [Next]_vars
               PROVE  [Book!BookNext]_<<Entries(orders), Nets(position)>>
    OBVIOUS
  <2>1. CASE \E i \in DOMAIN pending : FillOrder(pending[i])
    BY <2>1, FillRefines DEF Book!BookNext
  <2>2. CASE BookMoves /\ UNCHANGED ledgerVars
    <3>1. UNCHANGED position
      BY <2>2 DEF ledgerVars
    <3>2. CASE Calm
      BY <3>1, <3>2, CalmRefines
    <3>3. CASE Advances
      BY <3>1, <3>3, AdvanceRefines DEF Book!BookNext
    <3>4. CASE \E new : Pushes(new)
      BY <3>1, <3>4, PushRefines
    <3> QED  BY <2>2, <3>2, <3>3, <3>4 DEF BookMoves
  <2> QED  BY <2>1, <2>2, StepMoves
<1> QED  BY <1>1, <1>2, AgreeHolds, PTL DEF Spec, ImplementsOrderBook, Book!BookSpec, Entries, Nets, Entry
-----------------------------------------------------------------------------
(* Positions *)

SizesOn(d) == [id \in FilledOn(d) |-> SignedSize(orders[id])]

LEMMA FilledFacts ==
  ASSUME AInv, NEW d
  PROVE  IsFiniteSet(FilledOn(d)) /\ \A id \in FilledOn(d) : SignedSize(orders[id]) \in Int
<1>1. IsFiniteSet(DOMAIN orders)
  <2>1. Len(orders) \in Nat /\ DOMAIN orders = 1..Len(orders)
    BY ListFacts DEF AInv, BInv
  <2> QED  BY <2>1, FS_Interval
<1>2. FilledOn(d) \subseteq DOMAIN orders
  BY DEF FilledOn
<1>3. \A id \in DOMAIN orders : orders[id].size \in Nat
  BY ListFacts DEF AInv, BInv, Good, OrderRecords
<1> QED  BY <1>1, <1>2, <1>3, FS_Subset DEF SignedSize

\* A step in which nothing fills leaves both sides as they are.
LEMMA SameFills ==
  ASSUME UNCHANGED position, DOMAIN orders \subseteq DOMAIN orders',
         \A id \in DOMAIN orders' :
           IF id \in DOMAIN orders
           THEN /\ orders'[id].feed = orders[id].feed
                /\ SignedSize(orders'[id]) = SignedSize(orders[id])
                /\ orders'[id].status = "Completed" <=> orders[id].status = "Completed"
           ELSE orders'[id].status # "Completed"
  PROVE  PositionIsCompletedOrders => PositionIsCompletedOrders'
<1>1. ASSUME NEW d PROVE SizesOn(d)' = SizesOn(d)
  <2>1. FilledOn(d)' = FilledOn(d)
    BY DEF FilledOn
  <2>2. \A id \in FilledOn(d) : SignedSize(orders'[id]) = SignedSize(orders[id])
    BY DEF FilledOn
  <2> QED  BY <2>1, <2>2 DEF SizesOn
<1> QED  BY <1>1 DEF PositionIsCompletedOrders, SizesOn

\* A fill adds the same to both.
LEMMA FillCounts ==
  ASSUME AInv, PositionIsCompletedOrders, NEW o, FillOrder(o)
  PROVE  PositionIsCompletedOrders'
<1> DEFINE n == SignedSize(o)  q == Price(o)
<1>1. /\ Turn(o.id) /\ o.feed \in Feeds
      /\ orders[o.id].status = "Accepted" /\ orders'[o.id].status = "Completed"
      /\ Copy(orders[o.id], o)
      /\ position' = [position EXCEPT ![o.feed] = PositionAfter(@, n, q)]
  BY FillMoves
<1>2. position \in [Feeds -> [size : Int, price : Int]]
  BY DEF AInv, BInv, IInv, LedgerInv, LedgerTypeOK
<1>3. /\ o.id \in DOMAIN orders /\ orders[o.id].feed = o.feed /\ SignedSize(orders[o.id]) = n
      /\ orders'[o.id].feed = o.feed /\ SignedSize(orders'[o.id]) = n
  BY <1>1 DEF Turn, Copy, SignedSize
<1>4. n \in Int
  <2>1. orders[o.id].size \in Nat
    BY <1>3, ListFacts DEF AInv, BInv, Good, OrderRecords
  <2> QED  BY <1>3, <2>1 DEF SignedSize
<1>5. \A id \in DOMAIN orders : id # o.id => orders'[id] = orders[id]
  BY <1>1 DEF Turn
<1> HIDE DEF n, q
<1> SUFFICES ASSUME NEW d \in Feeds
             PROVE  position'[d].size = SumFunction(SizesOn(d)')
  BY DEF PositionIsCompletedOrders, SizesOn
<1>6. position[d].size = SumFunction(SizesOn(d))
  BY DEF PositionIsCompletedOrders, SizesOn
<1>7. CASE d # o.feed
  <2>1. FilledOn(d)' = FilledOn(d)
    BY <1>1, <1>3, <1>5, <1>7 DEF FilledOn, Turn
  <2>2. \A id \in FilledOn(d) : id \in DOMAIN orders /\ id # o.id
    BY <1>3, <1>7 DEF FilledOn
  <2>3. SizesOn(d)' = SizesOn(d)
    BY <1>5, <2>1, <2>2 DEF SizesOn
  <2> QED  BY <1>1, <1>2, <1>6, <1>7, <2>3
<1>8. CASE d = o.feed
  <2> DEFINE F == FilledOn(d)  y == o.id  g == SizesOn(d)  h == SizesOn(d)'
  <2>1. FilledOn(d)' = F \union {y} /\ y \notin F
    BY <1>1, <1>3, <1>5, <1>8 DEF FilledOn, Turn
  <2>2. \A id \in F : id \in DOMAIN orders /\ id # o.id
    BY <2>1 DEF FilledOn
  <2>3. DOMAIN g = F /\ DOMAIN h = F \union {y}
    BY <2>1 DEF SizesOn
  <2>4. IsFiniteSet(F) /\ \A id \in F : g[id] \in Int
    BY FilledFacts DEF SizesOn
  <2>5. h[y] = n /\ \A id \in F : h[id] = g[id]
    BY <1>3, <1>5, <2>1, <2>2 DEF SizesOn
  <2>6. position'[d].size = position[d].size + n
    <3>1. \A pos : PositionAfter(pos, n, q).size = pos.size + n
      BY DEF PositionAfter
    <3> QED  BY <1>1, <1>2, <1>8, <3>1
  <2> HIDE DEF F, y, g, h
  <2> DEFINE T == F \union {y}
  <2>7. IsFiniteSet(T) /\ y \in T /\ T \ {y} = F
    BY <2>1, <2>4, FS_AddElement
  <2>8. (\A id \in T : h[id] \in Int) /\ (\A id \in T \ {y} : h[id] = g[id])
    BY <1>4, <2>4, <2>5
  <2> HIDE DEF T
  <2>9. SumFunctionOnSet(h, T) = SumFunctionOnSet(g, T \ {y}) + h[y]
    BY <2>7, <2>8, SumGrows
  <2>10. SumFunction(h) = SumFunction(g) + n
    BY <2>3, <2>5, <2>7, <2>9 DEF SumFunction, T
  <2> QED  BY <1>6, <2>6, <2>10 DEF g, h
<1> QED  BY <1>7, <1>8

\* What the account holds is what the orders report, at every moment: no fill
\* is booked without an order that says Completed, none twice and none halfway.
THEOREM PositionsAreFills ==
  ASSUME NoEmptyOrders, Callbacks = {}
  PROVE  Spec => []PositionIsCompletedOrders
<1>1. Init => PositionIsCompletedOrders
  <2> SUFFICES ASSUME Init, NEW d \in Feeds
               PROVE  position[d].size = SumFunction(SizesOn(d))
    BY DEF PositionIsCompletedOrders, SizesOn
  <2>1. FilledOn(d) = {} /\ position[d].size = 0
    BY DEF Init, LedgerInit, FilledOn
  <2> QED  BY <2>1, SumStart DEF SumFunction, SizesOn
<1>2. AInv /\ PositionIsCompletedOrders /\ [Next]_vars => PositionIsCompletedOrders'
  <2> SUFFICES ASSUME AInv, PositionIsCompletedOrders, [Next]_vars
               PROVE  PositionIsCompletedOrders'
    OBVIOUS
  <2>1. CASE \E i \in DOMAIN pending : FillOrder(pending[i])
    BY <2>1, FillCounts
  <2>2. CASE BookMoves /\ UNCHANGED ledgerVars
    <3>1. UNCHANGED position
      BY <2>2 DEF ledgerVars
    <3>2. CASE Calm
      <4>1. CASE UNCHANGED orders
        BY <3>1, <4>1 DEF PositionIsCompletedOrders, FilledOn
      <4>2. CASE \E id : Turn(id) /\ orders'[id].status = orders[id].status
        BY <3>1, <4>2, SameFills DEF Turn, Copy, SignedSize
      <4> QED  BY <3>2, <4>1, <4>2 DEF Calm
    <3>3. CASE Advances
      <4>1. PICK id : Turn(id) /\ orders'[id].status \in Book!MayBecome(orders[id].status)
        BY <3>3 DEF Advances
      <4>2. orders[id].status # "Completed" /\ orders'[id].status # "Completed"
        BY <4>1 DEF Book!MayBecome, Book!Failures
      <4> QED  BY <3>1, <4>1, <4>2, SameFills DEF Turn, Copy, SignedSize
    <3>4. CASE \E new : Pushes(new)
      <4>1. PICK new : Pushes(new)
        BY <3>4
      <4> DEFINE m == Len(orders)  k == Len(new)
      <4>2. /\ m \in Nat /\ k \in Nat /\ DOMAIN orders = 1..m /\ DOMAIN orders' = 1..(m + k)
            /\ \A j \in 1..m : orders'[j] = orders[j]
            /\ \A j \in 1..k : orders'[m + j] = new[j] /\ new[j].status = "Created"
        BY <4>1, PushFacts DEF AInv, BInv, Pushes
      <4> HIDE DEF m, k
      <4>3. ASSUME NEW j \in 1..(m + k), j \notin 1..m
            PROVE  orders'[j].status # "Completed"
        <5>1. m \in Nat /\ k \in Nat
          BY <4>2
        <5>2. j - m \in 1..k /\ m + (j - m) = j
          BY <4>3, <5>1
        <5> QED  BY <4>2, <5>2
      <4> QED  BY <3>1, <4>2, <4>3, SameFills
    <3> QED  BY <2>2, <3>2, <3>3, <3>4 DEF BookMoves
  <2> QED  BY <2>1, <2>2, StepMoves
<1> QED  BY <1>1, <1>2, AgreeHolds, PTL DEF Spec
=============================================================================
