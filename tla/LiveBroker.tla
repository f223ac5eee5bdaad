----------------------------- MODULE LiveBroker -----------------------------
(***************************************************************************)
(* The live half of BackBroker: orders go to a market through a connector  *)
(* and come back as cumulative reports, each applied as its difference to  *)
(* the report before it (submit_live_order, cancel_order, record_live_fill,*)
(* apply_live_execution).                                                  *)
(*                                                                         *)
(* The market behind MarketConnector is external.  It may execute an order *)
(* in parts, sell part of it back before it is complete, and report at any *)
(* moment: executions may share one report and a report may be repeated.   *)
(* Reports arrive in the order they were sent, and the one that completes  *)
(* an order is sent once.                                                  *)
(***************************************************************************)
EXTENDS Ledger, SequencesExt

VARIABLES
  orders,     \* all_orders_: the id of an order is its place
  pending,    \* ids in pending_orders_, whose copies never differ in live mode
  snapshots,  \* live_trade_snapshots_: id -> last report, or None
  heard,      \* id -> last report that was applied; never forgotten
  market,     \* what the market did with each order it was sent
  told,       \* ids whose executions are all in a report that was not dropped
  reports,    \* reports under way, oldest first
  lost        \* a report of an unwinding has been dropped

liveBrokerVars == <<ledgerVars, orders, pending, snapshots, heard, market, told, reports, lost>>

\* The Trade a report carries; entry and exit are 0 where it has none.
Report == [id : Nat, size : Int, entry : Int, exit : Int, pnl : Int, comm : Int,
           closed : BOOLEAN]

ASSUME ReportAssumption == None \notin Report

Nothing(id) == [id |-> id, size |-> 0, entry |-> 0, exit |-> 0, pnl |-> 0, comm |-> 0,
                closed |-> FALSE]

NewOrder(s) == [feed |-> s.feed, lots |-> s.lots, flatten |-> s.flatten, status |-> s.status]

(***************************************************************************)
(* submit_live_order for each submission in turn.  The local copy that is  *)
(* sent knows nothing of a cancellation made from the Submitted or the     *)
(* Accepted notification; the stored copy keeps only the latter.  sent is  *)
(* whether the connector passes the order on.                              *)
(***************************************************************************)
Place(submissions) ==
  LET ids  == Len(orders) + 1 .. Len(orders) + Len(submissions)
      Of(id) == submissions[id - Len(orders)]
      sent == {id \in ids : Of(id).sent}
  IN  /\ orders' = orders \o [i \in DOMAIN submissions |-> NewOrder(submissions[i])]
      /\ pending' = pending \union ids
      /\ snapshots' = snapshots \o [i \in DOMAIN submissions |-> None]
      /\ heard' = heard \o [i \in DOMAIN submissions |-> None]
      /\ market' = [id \in DOMAIN market \union sent |->
                      IF id \in sent THEN Nothing(id) ELSE market[id]]
      /\ UNCHANGED <<ledgerVars, told, reports, lost>>

\* cancel_order in live mode: the order stays in pending_orders_, and the
\* market may have executed it all the same.
CancelLive(id) ==
  /\ orders' = [orders EXCEPT ![id].status = IF @ \in AliveStatuses THEN "Canceled" ELSE @]
  /\ UNCHANGED <<ledgerVars, pending, snapshots, heard, market, told, reports, lost>>
-----------------------------------------------------------------------------
(* record_live_fill *)

SizeOf(snapshot) == IF snapshot = None THEN 0 ELSE snapshot.size

Grows(m, n) == (m > 0 /\ n > m) \/ (m < 0 /\ n < m)

ReportPrice_Average(prev, r, delta) == r.entry

\* The price of what lies between two reports.
ReportPrice(prev, r, delta) ==
  IF prev = None THEN r.entry
  ELSE IF r.closed /\ r.exit > 0 THEN r.exit
  ELSE IF Grows(prev.size, r.size)
  THEN (r.entry * Abs(r.size) - prev.entry * Abs(prev.size)) \div Abs(delta)
  ELSE IF Abs(r.size) < Abs(prev.size)
  THEN prev.entry + (IF prev.size > 0 THEN 1 ELSE -1) * ((r.pnl - prev.pnl) \div Abs(delta))
  ELSE r.entry

Terminal(r) == r.closed \/ Abs(r.size) >= Abs(orders[r.id].lots)

StatusAfter_KeepsCanceled(r) ==
  IF orders[r.id].status = "Canceled" THEN "Canceled"
  ELSE IF Terminal(r) THEN "Completed" ELSE "Partial"

\* Whatever the status was.
StatusAfter(r) == IF Terminal(r) THEN "Completed" ELSE "Partial"

\* apply_live_execution: the fill of a report, with its own commission.
ApplyExecution(r, n, price, comm) ==
  LET d == orders[r.id].feed
  IN  /\ cash' = [cash EXCEPT ![Settle(d)] = @ - (n * price + comm)]
      /\ position' = [position EXCEPT ![d] = PositionAfter(@, n, price)]
      /\ \/ OpenTrade(d, n, price, comm)
         \/ GrowTrade(d, n, price, comm)
         \/ ShrinkTrade(d, n, price, comm)
         \/ ReverseTrade(d, n, price, comm)
      /\ orders' = [orders EXCEPT ![r.id].status = StatusAfter(r)]
      /\ pending' = IF Terminal(r) THEN pending \ {r.id} ELSE pending

RecordFill(r) ==
  LET prev  == snapshots[r.id]
      delta == r.size - SizeOf(prev)
      comm  == r.comm - IF prev = None THEN 0 ELSE prev.comm
  IN  /\ IF delta = 0
         THEN /\ snapshots' = [snapshots EXCEPT ![r.id] = r]
              /\ UNCHANGED <<ledgerVars, orders, pending>>
         ELSE /\ ApplyExecution(r, delta, ReportPrice(prev, r, delta), comm)
              /\ snapshots' = [snapshots EXCEPT ![r.id] = IF Terminal(r) THEN None ELSE r]
      /\ heard' = [heard EXCEPT ![r.id] = r]

\* A report nobody takes: the next one of a growing order makes up for it,
\* that of an unwinding is gone.
DropFill(r) ==
  /\ told' = told \ {r.id}
  /\ lost' = (lost \/ r.exit > 0)
-----------------------------------------------------------------------------
(* The market, external to src/ *)

Finished(id) == market[id].closed \/ Abs(market[id].size) = Abs(orders[id].lots)

\* k more lots of the order at price p, for a fee of one tick a lot.
MarketExecutes(id, k, p) ==
  LET m == market[id]
      n == IF orders[id].lots > 0 THEN k ELSE -k
  IN  /\ ~Finished(id) /\ Abs(m.size) + k <= Abs(orders[id].lots)
      /\ market' = [market EXCEPT ![id] =
                      [m EXCEPT !.size = @ + n, !.entry = AvgPrice(m.size, m.entry, n, p),
                                !.comm = @ + k]]
      /\ told' = told \ {id}
      /\ UNCHANGED <<ledgerVars, orders, pending, snapshots, heard, reports, lost>>

MarketReports(id) ==
  /\ market[id].size # 0
  /\ Finished(id) => id \notin told
  /\ told' = told \union {id}
  /\ reports' = Append(reports, market[id])
  /\ UNCHANGED <<ledgerVars, orders, pending, snapshots, heard, market, lost>>

\* The round trip an unfinished order began gives back k lots at price p,
\* reported by itself, once for each order.
MarketUnwinds(id, k, p) ==
  LET m    == market[id]
      sign == IF m.size > 0 THEN 1 ELSE -1
      u    == [m EXCEPT !.size = @ - sign * k, !.pnl = @ + sign * k * (p - m.entry),
                        !.comm = @ + k, !.exit = p, !.closed = k = Abs(m.size)]
  IN  /\ ~Finished(id) /\ id \in told /\ m.exit = 0 /\ 0 < Abs(m.size) /\ k <= Abs(m.size)
      /\ market' = [market EXCEPT ![id] = u]
      /\ reports' = Append(reports, u)
      /\ UNCHANGED <<ledgerVars, orders, pending, snapshots, heard, told, lost>>

LiveBrokerInit ==
  /\ LedgerInit
  /\ orders = <<>> /\ pending = {} /\ snapshots = <<>> /\ heard = <<>>
  /\ market = [id \in {} |-> Nothing(id)]
  /\ told = {} /\ reports = <<>> /\ lost = FALSE
-----------------------------------------------------------------------------
(* What the live broker promises *)

Heard == {id \in DOMAIN orders : heard[id] # None}

\* However executions are split, shared between reports and repeated, the
\* differences add up: every position is the sum of the last reports of its
\* orders.
HeardOn(d) == {id \in Heard : orders[id].feed = d}

PositionsFollowReports ==
  \A d \in Feeds : position[d].size = SumFunction([id \in HeardOn(d) |-> heard[id].size])

\* The cash of every currency is what those reports have cost.
CashFollowsReports ==
  \A c \in Currencies :
    LET paid == [id \in {id \in Heard : Settle(orders[id].feed) = c} |->
                   heard[id].entry * heard[id].size - heard[id].pnl + heard[id].comm]
    IN  cash[c] = Funding[c] - SumFunction(paid)

\* Reports that came while the engine was stopped may be missing: the position
\* follows what was heard all the same, the cash unless one was of an unwinding.
BookFollowsReports == PositionsFollowReports /\ (~lost => CashFollowsReports)

\* The status of an order says what the market was last heard to have done
\* with it, and only finished orders have left pending_orders_, whatever has
\* been dropped meanwhile; a canceled order that goes on filling is Partial or
\* Completed like any other.
StatusFollowsReports ==
  \A id \in DOMAIN orders :
    /\ orders[id].status = "Completed" <=> id \notin pending
    /\ id \in Heard =>
         IF Terminal(heard[id]) THEN orders[id].status = "Completed"
         ELSE orders[id].status \in {"Partial", "Canceled"}
=============================================================================
