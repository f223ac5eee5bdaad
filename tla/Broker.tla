------------------------------- MODULE Broker -------------------------------
(***************************************************************************)
(* BackBroker in backtest mode: orders, brackets and OCO groups between    *)
(* bars, and process_orders, which walks pending_orders_ on every bar one  *)
(* order at a time and calls the strategy back from the middle of it.      *)
(*                                                                         *)
(* The broker keeps every order twice: pending_orders_ holds the copy that *)
(* is worked on and all_orders_ the one that find_order and                *)
(* is_parent_filled read; sync_order copies the former over the latter.    *)
(* The loop builds a third copy, still_pending, that replaces              *)
(* pending_orders_ at the end of the bar.                                  *)
(***************************************************************************)
EXTENDS FillRules, Ledger, Sequences

CONSTANTS
  slip,         \* slippage settings: [perc, fixed, open, limit, match, out]
  Requests,     \* parameters a strategy passes to buy/sell/buy_ext/sell_ext
  Brackets,     \* parameters of buy_bracket/sell_bracket: [side, limit, stop, feed]
  HookResults,  \* what pre_order_hook_ makes of a bracket: leg -> size, None rejects
  Bars,         \* the bars a feed can show
  Callbacks,    \* what notify_order may do: subset of {"cancel", "submit"}
  MaxBar,       \* bound: bars in the run
  MaxOrders,    \* bound: orders in the run
  MaxOco        \* bound: OCO groups in the run

RequestRecords ==
  [type : OrderTypes, side : OrderSides, size : Nat, price : Int,
   stop : Int \union {None}, feed : Nat, valid : Nat \union {None},
   trail : [amount : Nat, perc : Nat], oco : Nat]

ASSUME BrokerAssumption ==
  /\ slip \in [perc : Int, fixed : Int, open : BOOLEAN, limit : BOOLEAN,
              match : BOOLEAN, out : BOOLEAN]
  /\ Feeds \subseteq Nat
  /\ Requests \subseteq RequestRecords
  /\ Brackets \subseteq [side : OrderSides, limit : Int, stop : Int, feed : Nat]
  /\ HookResults \subseteq [{"main", "limit", "stop"} -> Nat \union {None}]
  /\ None \notin Bars /\ \A b \in Bars : IsBar(b)
  /\ MaxBar \in Nat /\ MaxOrders \in Nat /\ MaxOco \in Nat

VARIABLES
  orders,      \* all_orders_; the index is the order's id
  pending,     \* pending_orders_
  bar,         \* data_bar_index_ + 1; 0 before the first bar
  bars,        \* feed -> its current bar, None before its first one
  nextOco,     \* next_oco_group_id_
  phase,       \* where process_orders is, "strategy" when it is not running
  cursor,      \* position in pending of the loop
  last,        \* the end of pending when the loop began
  still,       \* still_pending
  filledOco,   \* filled_oco_groups
  notified     \* a notify_order callback is on the stack

loopVars == <<bar, bars, cursor, last>>
vars == <<orders, pending, nextOco, phase, still, filledOco, notified, loopVars, ledgerVars>>

NoTrail == [amount |-> 0, perc |-> 0]

\* born and execBar do not exist in the code: they record the bar in which an
\* order was submitted and the one in which it was filled.
NewOrder(id, r, parent, children, transmit) ==
  [id |-> id, type |-> r.type, side |-> r.side, size |-> r.size, price |-> r.price,
   stop |-> r.stop, feed |-> r.feed, valid |-> r.valid, trail |-> r.trail,
   trailStop |-> 0, oco |-> r.oco, parent |-> parent, children |-> children,
   transmit |-> transmit, status |-> "Created", execPrice |-> 0, execSize |-> 0,
   born |-> bar, execBar |-> None]

MarketRequest(side, size, feed) ==
  [type |-> "Market", side |-> side, size |-> size, price |-> 0, stop |-> None,
   feed |-> feed, valid |-> None, trail |-> NoTrail, oco |-> 0]

\* Strategy::buy and sell have no stop price to pass on, whatever the type.
StrategyRequest(type, side, size, price, feed) ==
  [MarketRequest(side, size, feed) EXCEPT !.type = type, !.price = price]

Opposite(side) == IF side = "Buy" THEN "Sell" ELSE "Buy"

\* order_notify_: the strategy may act again before the broker goes on.
Notify == notified' = (Callbacks # {})
Quiet  == notified' = FALSE

Sync_AliveOnly(o) == orders' = IF Alive(o) THEN [orders EXCEPT ![o.id] = o] ELSE orders

\* sync_order
Sync(o) == orders' = [orders EXCEPT ![o.id] = o]

Init ==
  /\ orders = << >> /\ pending = << >>
  /\ bar = 0 /\ bars = [d \in Feeds |-> None]
  /\ nextOco = 1
  /\ phase = "strategy" /\ cursor = 1 /\ last = 0
  /\ still = << >> /\ filledOco = {} /\ notified = FALSE
  /\ LedgerInit
-----------------------------------------------------------------------------
(* What the strategy does between two bars *)

StrategyActs == phase = "strategy" /\ ~notified

\* push_back on both vectors.
Push(new) ==
  /\ Len(orders) + Len(new) <= MaxOrders
  /\ orders' = orders \o new
  /\ pending' = pending \o new

Idle == UNCHANGED <<phase, still, filledOco, notified, loopVars, ledgerVars>>

\* buy, sell, buy_ext, sell_ext.  Nothing checks the group a request names.
Submit(r) ==
  /\ StrategyActs
  /\ Push(<<NewOrder(Len(orders) + 1, r, 0, {}, TRUE)>>)
  /\ Idle /\ UNCHANGED nextOco

ClosePosition(d) ==
  /\ StrategyActs
  /\ position[d].size # 0
  /\ LET side == IF position[d].size > 0 THEN "Sell" ELSE "Buy"
     IN  Push(<<NewOrder(Len(orders) + 1,
                         MarketRequest(side, Abs(position[d].size), d), 0, {}, TRUE)>>)
  /\ Idle /\ UNCHANGED nextOco

NextOcoGroup ==
  /\ StrategyActs
  /\ nextOco <= MaxOco
  /\ nextOco' = nextOco + 1
  /\ Idle /\ UNCHANGED <<orders, pending>>

LegRequest(b, leg, size) ==
  IF leg = "main" THEN MarketRequest(b.side, size, b.feed)
  ELSE [MarketRequest(Opposite(b.side), size, b.feed) EXCEPT
          !.type  = IF leg = "limit" THEN "Limit" ELSE "Stop",
          !.price = IF leg = "limit" THEN b.limit ELSE 0,
          !.stop  = IF leg = "stop" THEN b.stop ELSE None,
          !.oco   = nextOco]

Leg(b, leg, size, id, parent, children) ==
  IF size[leg] = None THEN << >>
  ELSE <<NewOrder(id, LegRequest(b, leg, size[leg]), parent, children, leg = "main")>>

\* Each leg passes the hook on its own and takes the next id; a rejected one
\* has the id 0, which the other legs are then linked to.
PlaceBracket(b, size) ==
  LET n     == Len(orders)
      main  == IF size["main"] = None THEN 0 ELSE n + 1
      limit == IF size["limit"] = None THEN 0 ELSE Max2(n, main) + 1
      stop  == IF size["stop"] = None THEN 0 ELSE Max2(Max2(n, main), limit) + 1
  IN  /\ StrategyActs
      /\ nextOco <= MaxOco
      /\ Push(Leg(b, "main", size, main, 0, {limit, stop})
                \o Leg(b, "limit", size, limit, main, {})
                \o Leg(b, "stop", size, stop, main, {}))
      /\ nextOco' = nextOco + 1
      /\ Idle

\* cancel_order: only the pending copy says whether there is anything to cancel.
CancelPending(id) ==
  \E i \in DOMAIN pending :
    /\ pending[i].id = id /\ Alive(pending[i])
    /\ pending' = [pending EXCEPT ![i] = Move(@, "Canceled")]
    /\ Sync(pending'[i])

Cancel(id) ==
  /\ StrategyActs
  /\ CancelPending(id)
  /\ Notify
  /\ UNCHANGED <<nextOco, phase, still, filledOco, loopVars, ledgerVars>>

\* The engine shows the next bar of each feed and calls process_orders; a feed
\* that has delivered once never becomes empty again.
StartBar ==
  /\ StrategyActs
  /\ bar < MaxBar
  /\ bar' = bar + 1
  /\ bars' \in [Feeds -> Bars \union {None}]
  /\ \A d \in Feeds : bars[d] # None => bars'[d] # None
  /\ phase' = "order" /\ cursor' = 1 /\ last' = Len(pending)
  /\ UNCHANGED <<orders, pending, nextOco, still, filledOco, notified, ledgerVars>>
-----------------------------------------------------------------------------
(* process_orders, one order at a time *)

ParentFilled_NotAlive(o) == o.parent \in DOMAIN orders /\ ~Alive(orders[o.parent])

\* is_parent_filled reads all_orders_, not the pending copy of the parent.
ParentFilled(o) == o.parent \in DOMAIN orders /\ orders[o.parent].status = "Completed"
Held(o)         == ~o.transmit /\ o.parent # 0 /\ ~ParentFilled(o)

\* A held order is released for good once its parent has filled.
Released(o) == IF o.parent # 0 THEN [o EXCEPT !.transmit = TRUE] ELSE o

AtOrder_LiveEnd(o) ==
  phase = "order" /\ ~notified /\ cursor <= Len(pending) /\ o = pending[cursor]

AtOrder(o)   == phase = "order" /\ ~notified /\ cursor <= last /\ o = pending[cursor]
ToTry(o)     == AtOrder(o) /\ Alive(o) /\ ~Held(o)
HasData(d)   == bars[d] # None
PastDue(o)   == o.valid # None /\ bar > o.valid
Work(o)      == pending' = [pending EXCEPT ![cursor] = o]
Keep(o)      == still' = Append(still, o)
NextOrder    == phase' = "order" /\ cursor' = cursor + 1
SameOrder(p) == phase' = p /\ UNCHANGED cursor
InLoop       == UNCHANGED <<bar, bars, last, nextOco>>

SkipDead(o) ==
  /\ AtOrder(o)
  /\ ~Alive(o)
  /\ NextOrder /\ InLoop
  /\ UNCHANGED <<orders, pending, still, filledOco, notified, ledgerVars>>

HoldChild(o) ==
  /\ AtOrder(o)
  /\ Alive(o) /\ Held(o)
  /\ Keep(o)
  /\ NextOrder /\ InLoop
  /\ UNCHANGED <<orders, pending, filledOco, notified, ledgerVars>>

RejectFeed(o) ==
  /\ ToTry(o)
  /\ o.feed \notin Feeds
  /\ Work(Move(Released(o), "Rejected")) /\ Sync(pending'[cursor])
  /\ Notify /\ NextOrder /\ InLoop
  /\ UNCHANGED <<still, filledOco, ledgerVars>>

KeepUntilData(o) ==
  /\ ToTry(o)
  /\ o.feed \in Feeds /\ ~HasData(o.feed)
  /\ Work(Released(o)) /\ Keep(Released(o))
  /\ NextOrder /\ InLoop
  /\ UNCHANGED <<orders, filledOco, notified, ledgerVars>>

Expire(o) ==
  /\ ToTry(o)
  /\ o.feed \in Feeds /\ HasData(o.feed) /\ PastDue(o)
  /\ Work(Move(Released(o), "Expired")) /\ Sync(pending'[cursor])
  /\ Notify /\ NextOrder /\ InLoop
  /\ UNCHANGED <<still, filledOco, ledgerVars>>

\* A new order is submitted and accepted, with a notification after each; one
\* accepted on an earlier bar is tried again.
Admit(o) ==
  /\ ToTry(o)
  /\ o.feed \in Feeds /\ HasData(o.feed) /\ ~PastDue(o)
  /\ \/ /\ o.status = "Created"
        /\ Work(Move(Released(o), "Submitted")) /\ Sync(pending'[cursor])
        /\ Notify /\ SameOrder("submitted")
     \/ /\ o.status # "Created"
        /\ Work(Released(o)) /\ UNCHANGED orders
        /\ Quiet /\ SameOrder("fill")
  /\ InLoop /\ UNCHANGED <<still, filledOco, ledgerVars>>

AcceptOrder ==
  /\ phase = "submitted" /\ ~notified
  /\ Work(Move(pending[cursor], "Accepted")) /\ Sync(pending'[cursor])
  /\ Notify /\ SameOrder("fill") /\ InLoop
  /\ UNCHANGED <<still, filledOco, ledgerVars>>
-----------------------------------------------------------------------------
(* try_fill_order.  None of it asks whether the order is still alive. *)

Trying(o)  == phase = "fill" /\ ~notified /\ o = pending[cursor]
Price(o)   == FillPrice(slip, o, bars[o.feed])
Priced(o)  == ~LacksStop(o) /\ Price(o) # None
Covered(o) == o.side = "Sell" \/ Affordable(o.feed, o.size, Price(o))

RejectUnpriced(o) ==
  /\ Trying(o)
  /\ LacksStop(o)
  /\ Work(Move(o, "Rejected")) /\ Sync(pending'[cursor])
  /\ Notify /\ SameOrder("filled") /\ InLoop
  /\ UNCHANGED <<still, filledOco, ledgerVars>>

\* Not filled on this bar: a trailing order follows the bar.
KeepUnfilled(o) ==
  LET kept == IF IsTrail(o) THEN UpdateTrailStop(o, bars[o.feed]) ELSE o
  IN  /\ Trying(o)
      /\ ~LacksStop(o) /\ Price(o) = None
      /\ Work(kept) /\ Keep(kept)
      /\ orders' = IF kept # o THEN [orders EXCEPT ![o.id] = kept] ELSE orders
      /\ NextOrder /\ InLoop
      /\ UNCHANGED <<filledOco, notified, ledgerVars>>

MarginCall(o) ==
  /\ Trying(o)
  /\ Priced(o) /\ ~Covered(o)
  /\ Work(Move(o, "Margin")) /\ Sync(pending'[cursor])
  /\ Notify /\ SameOrder("filled") /\ InLoop
  /\ UNCHANGED <<still, filledOco, ledgerVars>>

FillOrder(o) ==
  /\ Trying(o)
  /\ Priced(o) /\ Covered(o)
  /\ Work(IF Alive(o) THEN [Execute(o, Price(o), o.size) EXCEPT !.execBar = bar] ELSE o)
  /\ Sync(pending'[cursor])
  /\ ApplyFill(o.feed, SignedSize(o), Price(o))
  /\ Notify /\ SameOrder("filled") /\ InLoop
  /\ UNCHANGED <<still, filledOco>>

\* activate_bracket_children
Activate(id) == [i \in DOMAIN pending |->
                   IF pending[i].parent = id THEN [pending[i] EXCEPT !.transmit = TRUE]
                                             ELSE pending[i]]

FailedStatuses_NoMargin == {"Canceled", "Rejected", "Expired"}
FailedStatuses == {"Canceled", "Rejected", "Margin", "Expired"}

\* What follows a fill, a rejection or a margin call.
SettleOrder(o) ==
  /\ phase = "filled" /\ ~notified /\ o = pending[cursor]
  /\ filledOco' = IF o.status = "Completed" THEN filledOco \union ({o.oco} \ {0})
                                            ELSE filledOco
  /\ pending' = IF o.status = "Completed" /\ o.children # {} THEN Activate(o.id) ELSE pending
  /\ IF o.parent = 0 /\ o.children # {} /\ o.status \in FailedStatuses
     THEN SameOrder("children") ELSE NextOrder
  /\ InLoop /\ UNCHANGED <<orders, still, notified, ledgerVars>>

\* cancel_bracket_children, one child at a time.
AliveChild(i) == pending[i].parent = pending[cursor].id /\ Alive(pending[i])

CancelChild(i) ==
  /\ phase = "children" /\ ~notified
  /\ AliveChild(i) /\ \A j \in DOMAIN pending : AliveChild(j) => i <= j
  /\ pending' = [pending EXCEPT ![i] = Move(@, "Canceled")] /\ Sync(pending'[i])
  /\ Notify /\ SameOrder("children") /\ InLoop
  /\ UNCHANGED <<still, filledOco, ledgerVars>>

ChildrenDone ==
  /\ phase = "children" /\ ~notified
  /\ ~\E i \in DOMAIN pending : AliveChild(i)
  /\ NextOrder /\ InLoop
  /\ UNCHANGED <<orders, pending, still, filledOco, notified, ledgerVars>>
-----------------------------------------------------------------------------
(* After the last order: the OCO sweep over still_pending *)

LoopEnds_LiveEnd ==
  /\ phase = "order" /\ ~notified /\ cursor > Len(pending)
  /\ SameOrder("sweep") /\ InLoop
  /\ UNCHANGED <<orders, pending, still, filledOco, notified, ledgerVars>>

LoopEnds ==
  /\ phase = "order" /\ ~notified /\ cursor > last
  /\ SameOrder("sweep") /\ InLoop
  /\ UNCHANGED <<orders, pending, still, filledOco, notified, ledgerVars>>

Swept_FirstOnly(i) == i = 1 /\ still[i].oco \in filledOco /\ Alive(still[i])
Swept(i) == still[i].oco \in filledOco /\ Alive(still[i])

SweepCancel(i) ==
  /\ phase = "sweep" /\ ~notified
  /\ Swept(i) /\ \A j \in DOMAIN still : Swept(j) => i <= j
  /\ still' = [still EXCEPT ![i] = Move(@, "Canceled")] /\ Sync(still'[i])
  /\ Notify /\ SameOrder("sweep") /\ InLoop
  /\ UNCHANGED <<pending, filledOco, ledgerVars>>

\* std::erase_if: t is what is left of s without its dead orders, in order.
Erases(s, t) ==
  LET n == Cardinality({i \in DOMAIN s : Alive(s[i])})
  IN  \E f \in [1..n -> DOMAIN s] :
        /\ \A i, j \in 1..n : i < j => f[i] < f[j]
        /\ \A i \in 1..n : Alive(s[f[i]])
        /\ t = [i \in 1..n |-> s[f[i]]]

\* still_pending replaces pending_orders_, and with it whatever was appended to
\* or canceled in pending_orders_ meanwhile.
FinishBar ==
  /\ phase = "sweep" /\ ~notified
  /\ ~\E i \in DOMAIN still : Swept(i)
  /\ IF filledOco = {} THEN pending' = still ELSE Erases(still, pending')
  /\ still' = << >> /\ filledOco' = {}
  /\ phase' = "strategy" /\ cursor' = 1 /\ last' = 0
  /\ UNCHANGED <<orders, notified, bar, bars, nextOco, ledgerVars>>
-----------------------------------------------------------------------------
(* notify_order: at most one call into the broker per notification *)

InCallback == notified /\ Quiet /\ UNCHANGED <<nextOco, still, filledOco, loopVars, ledgerVars>>

CallbackReturn ==
  /\ InCallback
  /\ UNCHANGED <<orders, pending, phase>>

CallbackCancel(id) ==
  /\ "cancel" \in Callbacks /\ InCallback
  /\ CancelPending(id)
  /\ UNCHANGED phase

\* push_back while the loop over pending_orders_ runs.  Its end was computed
\* before, so the new order is not visited.
CallbackSubmit(r) ==
  /\ "submit" \in Callbacks /\ InCallback
  /\ Push(<<NewOrder(Len(orders) + 1, r, 0, {}, TRUE)>>)
  /\ UNCHANGED phase

\* Once the buffer reserved for 64 orders has been replaced by a bar's
\* still_pending, push_back may reallocate under the loop: undefined behaviour.
CallbackReallocates ==
  /\ "submit" \in Callbacks /\ InCallback
  /\ phase # "sweep" /\ (bar > 1 \/ (bar = 1 /\ phase = "strategy"))
  /\ Len(orders) < MaxOrders
  /\ phase' = "undefined"
  /\ UNCHANGED <<orders, pending>>
-----------------------------------------------------------------------------
Strategy ==
  \/ \E r \in Requests : Submit(r)
  \/ \E d \in Feeds : ClosePosition(d)
  \/ \E b \in Brackets, size \in HookResults : PlaceBracket(b, size)
  \/ \E id \in DOMAIN orders : Cancel(id)
  \/ NextOcoGroup
  \/ StartBar

OneOrder(o) ==
  \/ SkipDead(o) \/ HoldChild(o) \/ RejectFeed(o) \/ KeepUntilData(o)
  \/ Expire(o) \/ Admit(o) \/ RejectUnpriced(o) \/ KeepUnfilled(o)
  \/ MarginCall(o) \/ FillOrder(o) \/ SettleOrder(o)

ProcessOrders ==
  \/ \E i \in DOMAIN pending : OneOrder(pending[i]) \/ CancelChild(i)
  \/ AcceptOrder \/ ChildrenDone \/ LoopEnds
  \/ \E i \in DOMAIN still : SweepCancel(i)
  \/ FinishBar

Callback ==
  \/ CallbackReturn
  \/ \E id \in DOMAIN orders : CallbackCancel(id)
  \/ \E r \in Requests : CallbackSubmit(r)
  \/ CallbackReallocates

Next == Strategy \/ ProcessOrders \/ Callback

\* process_orders and the callbacks run to their end on the engine's thread;
\* nothing makes the strategy act or the data continue.
Spec == Init /\ [][Next]_vars /\ WF_vars(ProcessOrders \/ CallbackReturn)
-----------------------------------------------------------------------------
(* What the broker promises *)

BetweenBars == phase = "strategy"

OrderRecords ==
  [id : Nat, type : OrderTypes, side : OrderSides, size : Nat, price : Int,
   stop : Int \union {None}, feed : Nat, valid : Nat \union {None},
   trail : [amount : Nat, perc : Nat], trailStop : Int, oco : Nat, parent : Nat,
   children : SUBSET Nat, transmit : BOOLEAN, status : OrderStatuses,
   execPrice : Int, execSize : Nat, born : Nat, execBar : Nat \union {None}]

Phases == {"strategy", "order", "submitted", "fill", "filled", "children", "sweep", "undefined"}

\* Every variable has its type; an order's id is its index, and the cursor
\* points at an order wherever process_orders holds a reference to one.
TypeOK ==
  /\ orders \in Seq(OrderRecords) /\ pending \in Seq(OrderRecords)
  /\ still \in Seq(OrderRecords)
  /\ \A id \in DOMAIN orders : orders[id].id = id
  /\ \A i \in DOMAIN pending : pending[i].id \in DOMAIN orders
  /\ bar \in Nat /\ bars \in [Feeds -> Bars \union {None}]
  /\ nextOco \in Nat /\ filledOco \subseteq Nat /\ notified \in BOOLEAN
  /\ phase \in Phases /\ cursor \in Nat \ {0} /\ last \in 0..Len(pending)
  /\ phase \in {"submitted", "fill", "filled", "children"} => cursor \in 1..last
  /\ LedgerTypeOK

\* Between bars the two copies of an order agree: an order that find_order
\* reports alive is worked on, exactly once and with the same fields, and an
\* order that is still worked on is alive in all_orders_.  (transmit is set in
\* the pending copy first.)
CopiesAgree ==
  BetweenBars =>
    LET Same(o, p) == [o EXCEPT !.transmit = TRUE] = [p EXCEPT !.transmit = TRUE]
    IN  /\ \A id \in DOMAIN orders : Alive(orders[id]) =>
             \E i \in DOMAIN pending :
               /\ Same(orders[id], pending[i])
               /\ \A j \in DOMAIN pending : pending[j].id = id => j = i
        /\ \A i \in DOMAIN pending :
             Alive(pending[i]) => Same(orders[pending[i].id], pending[i])

\* At every moment a feed's net position is the sum of the orders reported
\* Completed on it.
FilledOn(d) == {id \in DOMAIN orders : orders[id].feed = d /\ orders[id].status = "Completed"}

PositionIsCompletedOrders ==
  \A d \in Feeds :
    position[d].size = SumFunction([id \in FilledOn(d) |-> SignedSize(orders[id])])

\* A terminal status is final: Completed, Canceled, Rejected, Expired and
\* Margin are the ends of the state machine of order.hpp.
TerminalIsFinal ==
  [][\A id \in DOMAIN orders :
       ~Alive(orders[id]) => orders'[id].status = orders[id].status]_vars

\* A fill is never taken back, even by a callback that cancels the order.
CompletedIsFinal ==
  [][\A id \in DOMAIN orders :
       orders[id].status = "Completed" => orders'[id] = orders[id]]_vars

\* An OCO group closes behind the first of its orders that fills: when the
\* bar is over no member submitted before it is left alive.
OcoGroupClosed ==
  BetweenBars =>
    \A i, j \in DOMAIN orders :
      (orders[i].oco # 0 /\ orders[i].oco = orders[j].oco /\ orders[i].execBar = bar
         /\ orders[j].born < bar)
      => ~Alive(orders[j])

\* One cancels the other: at most one order of an OCO group ever fills.
OneFillPerOcoGroup ==
  \A i, j \in DOMAIN orders :
    (/\ orders[i].oco # 0 /\ orders[i].oco = orders[j].oco
     /\ orders[i].status = "Completed" /\ orders[j].status = "Completed")
    => i = j

\* No fill comes later than the last bar the order is valid on, and none
\* in the bar the order was submitted in, whose prices the strategy has seen.
InTime(o) ==
  o.status = "Completed" =>
    /\ o.execBar \in Nat /\ o.execBar > o.born
    /\ ~(o.valid # None /\ o.execBar > o.valid)

FillsInTime == \A id \in DOMAIN orders : InTime(orders[id])

\* Without slippage on limits, a fill never breaks the order's own limit.
WithinLimit(o) ==
  (o.status = "Completed" /\ o.type \in {"Limit", "StopLimit", "StopTrailLimit"}
     /\ ~slip.limit)
  => IF o.side = "Buy" THEN o.execPrice <= o.price ELSE o.execPrice >= o.price

LimitsRespected == \A id \in DOMAIN orders : WithinLimit(orders[id])

\* A market order is decided on the first bar its feed shows: it is not alive
\* afterwards, whatever else the bar's other orders did.
MarketOrdersDecided ==
  BetweenBars =>
    \A id \in DOMAIN orders :
      (/\ orders[id].type = "Market" /\ Alive(orders[id]) /\ orders[id].born < bar
       /\ (slip.open => slip.match \/ slip.out))
      => orders[id].feed \in Feeds /\ bars[orders[id].feed] = None

\* A trailing stop that survives a bar is at least as tight as that bar's
\* extreme and the trail distance demand.
TrailFollowsBar ==
  BetweenBars =>
    \A i \in DOMAIN pending :
      LET o == pending[i]
      IN  (/\ IsTrail(o) /\ Alive(o) /\ ~Held(o) /\ o.born < bar
           /\ bars[o.feed] # None)
          => IF o.side = "Sell" THEN o.trailStop >= TrailTarget(o, bars[o.feed])
                                ELSE o.trailStop <= TrailTarget(o, bars[o.feed])

\* The legs of a bracket follow its main order: none fills before the main
\* order has, none fills in an earlier bar, ...
LegsAfterMain ==
  \A id \in DOMAIN orders :
    LET o == orders[id]
    IN  (o.parent # 0 /\ o.status = "Completed") =>
          /\ orders[o.parent].status = "Completed"
          /\ orders[o.parent].execBar <= o.execBar

\* ... and none is left alive by the bar in which the main order fails.
NoOrphanAfterMargin ==
  BetweenBars =>
    \A id \in DOMAIN orders :
      (orders[id].parent # 0 /\ orders[orders[id].parent].status \in {"Margin", "Rejected"})
      => ~Alive(orders[id])

\* process_orders always comes back to the engine, whatever the callbacks do.
BarEnds == phase \notin {"strategy", "undefined"} ~> phase \in {"strategy", "undefined"}

-----------------------------------------------------------------------------
(* The broker implements the order book *)

Book == INSTANCE OrderBook WITH
  BookFeeds <- Feeds,
  book <- [id \in DOMAIN orders |->
             [feed |-> orders[id].feed, size |-> SignedSize(orders[id]),
              status |-> orders[id].status]],
  net  <- [d \in Feeds |-> position[d].size]

\* Without calls from inside notify_order, the orders a strategy can look up
\* move along the state machine of order.hpp and the positions move with them.
ImplementsOrderBook == Book!BookSpec
=============================================================================
