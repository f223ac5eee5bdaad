------------------------------- MODULE Session -------------------------------
(***************************************************************************)
(* A run of Cerebro as the corrective layer and the increment stream see   *)
(* it: one feed, orders with the candidate the hook gave them, the trades  *)
(* they open and close, and the order in which each bar reaches the broker,*)
(* the strategy, the batcher and the collector.                            *)
(*                                                                         *)
(* When an order fills, and that it may instead end without a fill, is     *)
(* left open: the module Broker has the rules.                             *)
(***************************************************************************)
EXTENDS IncrementBatcher

CONSTANTS
  NumBars,      \* bars of the feed
  Sizes,        \* signed lots a strategy may order
  Results,      \* of a trade, net: only their signs matter
  MaxProposals  \* bound on the orders of a run

ASSUME SessionAssumption ==
  /\ State \in {"kDisabled", "kCollectOnly", "kEnabled"}
  /\ Horizon \in Nat /\ NumBars \in Nat /\ MaxBarsPerBatch \in Nat
  /\ Sizes \subseteq Int \ {0}

VARIABLES
  phase,       \* what the loop of Cerebro::run does next
  bar,         \* the master bar
  work,        \* orders process_orders has still to look at
  pending,     \* pending_orders_: [cand, lots]
  position,    \* signed lots
  trade,       \* the open trade: [id, cand]
  nextTrade,   \* next_trade_id_
  proposals,   \* how many orders have been proposed
  openers,     \* candidates whose order opened a trade
  rejects,     \* candidates rejected while on_stop was still to come
  recorded,    \* every outcome, in the order of being recorded
  closed       \* every trade, in the order of closing

runVars   == <<phase, bar, work, pending, position, trade, nextTrade, proposals>>
auditVars == <<openers, rejects, recorded, closed>>
vars      == <<collectorVars, batcherVars, runVars, auditVars>>

NoTrade == [id |-> 0, cand |-> 0]
-----------------------------------------------------------------------------
(* process_orders *)

BeginBar ==
  /\ phase = "loop" /\ bar < NumBars
  /\ phase' = "orders" /\ bar' = bar + 1
  /\ work' = pending /\ pending' = <<>>
  /\ UNCHANGED <<position, trade, nextTrade, proposals, collectorVars, batcherVars, auditVars>>

AtOrder == phase = "orders" /\ work # <<>>

KeepOrder ==
  /\ AtOrder
  /\ pending' = Append(pending, Head(work)) /\ work' = Tail(work)
  /\ UNCHANGED <<phase, bar, position, trade, nextTrade, proposals, collectorVars,
                 batcherVars, auditVars>>

\* Margin, expiry, rejection, or canceled by its group.
DropOrder ==
  /\ AtOrder
  /\ work' = Tail(work)
  /\ UNCHANGED <<phase, bar, pending, position, trade, nextTrade, proposals, collectorVars,
                 batcherVars, auditVars>>

\* The trade notification of Cerebro: observers, then the collector.
CloseTrade(pnl) ==
  /\ NotifyTrade(trade.id, pnl)
  /\ pendingOutcomes' = pendingOutcomes \o OutcomesOfTrade(trade.cand)
  /\ recorded' = recorded \o OutcomesOfTrade(trade.cand)
  /\ closed' = Append(closed, trade.id)
  /\ UNCHANGED <<nextCandidate, pendingCandidates, shadows>>

ReverseCand_Kept(o) == trade.cand
ReverseCand(o) == o.cand

OpenTrade(o, cand) ==
  /\ trade' = [id |-> nextTrade, cand |-> cand]
  /\ nextTrade' = nextTrade + 1
  /\ openers' = openers \union {cand}

\* update_trades for the fill of the next order.
FillOrder(pnl) ==
  LET o     == Head(work)
      after == position + o.lots
  IN  /\ AtOrder
      /\ work' = Tail(work) /\ position' = after
      /\ \/ /\ position = 0
            /\ OpenTrade(o, o.cand)
            /\ UNCHANGED <<recorded, closed, collectorVars, batcherVars>>
         \/ /\ position # 0 /\ ~Reduces(position, o.lots)
            /\ UNCHANGED <<trade, nextTrade, openers, recorded, closed, collectorVars,
                           batcherVars>>
         \/ /\ Reduces(position, o.lots) /\ after * position > 0
            /\ UNCHANGED <<trade, nextTrade, openers, recorded, closed, collectorVars,
                           batcherVars>>
         \/ /\ Reduces(position, o.lots) /\ after = 0
            /\ CloseTrade(pnl)
            /\ trade' = NoTrade
            /\ UNCHANGED <<nextTrade, openers>>
         \/ /\ after * position < 0
            /\ CloseTrade(pnl)
            /\ OpenTrade(o, ReverseCand(o))
      /\ UNCHANGED <<phase, bar, pending, proposals, rejects>>

OrdersDone ==
  /\ phase = "orders" /\ work = <<>>
  /\ phase' = "strategy"
  /\ UNCHANGED <<bar, work, pending, position, trade, nextTrade, proposals, collectorVars,
                 batcherVars, auditVars>>
-----------------------------------------------------------------------------
(* Strategies, then the batcher, then the collector *)

Queue(cand, lots) == pending' = Append(pending, [cand |-> cand, lots |-> lots])

\* buy() or sell() through the hook, on a bar or in Strategy::stop.
Propose(lots, rejected) ==
  /\ phase \in {"strategy", "stopping"} /\ proposals < MaxProposals
  /\ proposals' = proposals + 1
  /\ \/ /\ PassOrder(position, lots) /\ ~rejected
        /\ Queue(0, lots)
        /\ UNCHANGED rejects
     \/ /\ Capture(position, lots, rejected)
        /\ IF rejected THEN UNCHANGED pending ELSE Queue(nextCandidate, lots)
        /\ rejects' = IF rejected /\ phase = "strategy" THEN rejects \union {nextCandidate}
                      ELSE rejects
  /\ UNCHANGED <<phase, bar, work, position, trade, nextTrade, batcherVars, openers, recorded,
                 closed>>

Observers(timeIsUp, throws) ==
  /\ phase = "strategy"
  /\ BatchBar(bar, timeIsUp, throws)
  /\ phase' = IF throws THEN "failed" ELSE "collector"
  /\ UNCHANGED <<nextCandidate, shadows, bar, work, pending, position, trade, nextTrade,
                 proposals, auditVars>>

\* What the collector has added to its outcomes.
NewOutcomes == SubSeq(pendingOutcomes', Len(pendingOutcomes) + 1, Len(pendingOutcomes'))

CollectorBar ==
  /\ phase = "collector"
  /\ TickShadows
  /\ recorded' = recorded \o NewOutcomes
  /\ phase' = "loop"
  /\ UNCHANGED <<bar, work, pending, position, trade, nextTrade, proposals, batcherVars,
                 openers, rejects, closed>>

OpenCands == IF position = 0 \/ trade.cand = 0 THEN <<>> ELSE <<trade.cand>>

CollectorStop ==
  /\ phase = "loop" /\ bar = NumBars
  /\ IF Enabled THEN Censor(OpenCands) ELSE UNCHANGED collectorVars
  /\ recorded' = recorded \o NewOutcomes
  /\ phase' = "stopping"
  /\ UNCHANGED <<bar, work, pending, position, trade, nextTrade, proposals, batcherVars,
                 openers, rejects, closed>>

ObserversStop(throws) ==
  /\ phase = "stopping"
  /\ FinalBatch(throws)
  /\ phase' = IF throws THEN "failed" ELSE "done"
  /\ UNCHANGED <<bar, work, pending, position, trade, nextTrade, proposals, auditVars>>

Init ==
  /\ CollectorInit /\ BatcherInit
  /\ phase = "loop" /\ bar = 0 /\ work = <<>> /\ pending = <<>>
  /\ position = 0 /\ trade = NoTrade /\ nextTrade = 1 /\ proposals = 0
  /\ openers = {} /\ rejects = {} /\ recorded = <<>> /\ closed = <<>>

ProcessOrders == BeginBar \/ KeepOrder \/ DropOrder \/ OrdersDone
                   \/ \E pnl \in Results : FillOrder(pnl)

Next ==
  \/ ProcessOrders
  \/ \E lots \in Sizes, rejected \in BOOLEAN : Propose(lots, rejected)
  \/ \E timeIsUp, throws \in BOOLEAN : Observers(timeIsUp, throws)
  \/ CollectorBar
  \/ CollectorStop
  \/ \E throws \in BOOLEAN : ObserversStop(throws)

Spec == Init /\ [][Next]_vars
-----------------------------------------------------------------------------
(* What reaches the other side of the stream *)

\* A field of all batches, one after the other.
Over(field) == FlattenSeq([i \in DOMAIN batches |-> batches[i][field]])

\* Whenever and however batches are cut, every bar, closed trade, candidate
\* and outcome is in exactly one of them or still pending, in the order they
\* came about.  Only a callback that throws loses a batch, and ends the run.
StreamIsComplete ==
  phase # "failed" =>
    /\ Over("bars") \o pendingBars = [i \in 1 .. processedBars |-> i]
    /\ Over("trades") \o pendingTrades = closed
    /\ Over("candidates") \o pendingCandidates = [i \in 1 .. nextCandidate - 1 |-> i]
    /\ Over("outcomes") \o pendingOutcomes = recorded

\* Batches are numbered from 1 without a gap, none is larger than configured
\* while MaxBarsPerBatch is positive, and exactly the last batch of a run that
\* ended is final: what follows it was never announced.
SequenceIsClosed ==
  /\ \A i \in DOMAIN batches :
       /\ batches[i].seq = i
       /\ MaxBarsPerBatch > 0 => Len(batches[i].bars) <= MaxBarsPerBatch
       /\ batches[i].final <=> i = Len(batches) /\ phase = "done"
  /\ phase = "done" => batches # <<>>

\* No batch carries an outcome whose candidate the reader has not been given
\* by then.
CandidateBeforeOutcome ==
  \A i \in DOMAIN batches : \A o \in Range(batches[i].outcomes) :
    \E j \in 1 .. i : o.cand \in Range(batches[j].candidates)

\* At the end a candidate whose order opened a trade, or that was rejected
\* before on_stop, has its outcome, also when that trade was ended by an order
\* of another candidate, and no candidate has two.
DecidedHaveOneOutcome ==
  phase = "done" =>
    /\ \A i, j \in DOMAIN recorded : recorded[i].cand = recorded[j].cand => i = j
    /\ (openers \ {0}) \union rejects \subseteq {recorded[i].cand : i \in DOMAIN recorded}

\* What "every candidate has exactly one outcome" of test_corrective_p1 says of
\* the end of a run.  The code writes none for an order that never filled,
\* joined or closed the trade of another candidate or was placed in
\* Strategy::stop.
EveryCandidateHasOutcome ==
  phase = "done" =>
    \A cand \in 1 .. nextCandidate - 1 :
      Cardinality({i \in DOMAIN recorded : recorded[i].cand = cand}) = 1
=============================================================================
