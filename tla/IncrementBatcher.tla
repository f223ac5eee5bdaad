-------------------------- MODULE IncrementBatcher --------------------------
(***************************************************************************)
(* IncrementBatcher: an observer that collects bars, equity points and     *)
(* closed trades and hands them to a callback in numbered batches, together*)
(* with what the collector has pending: on the first bar, when a batch is  *)
(* full, when max_interval is over, and once more at the end.              *)
(*                                                                         *)
(* A bar is its number and a trade its id.  Equity points are pushed and   *)
(* moved together with the bars.  The tally of wins and losses leaves out  *)
(* trades that broke even.                                                 *)
(***************************************************************************)
EXTENDS CandidateCollector

CONSTANTS
  MaxBarsPerBatch,          \* max_bars_per_batch
  EmitFirstBarImmediately

VARIABLES
  seq,             \* seq_
  pendingBars,     \* pending_bars_, and pending_equity_
  pendingTrades,   \* pending_trades_
  processedBars,   \* processed_bars_
  tally,           \* closed_trade_count_, winning_count_, losing_count_
  batches          \* the batches the callback has taken, in order

batcherVars == <<seq, pendingBars, pendingTrades, processedBars, tally, batches>>

Tallied(pnl) ==
  [closed |-> tally.closed + 1,
   won    |-> tally.won + IF pnl > 0 THEN 1 ELSE 0,
   lost   |-> tally.lost + IF pnl < 0 THEN 1 ELSE 0]

\* notify_trade; trades are notified when they close.
NotifyTrade(trade, pnl) ==
  /\ pendingTrades' = Append(pendingTrades, trade)
  /\ tally' = Tallied(pnl)
  /\ UNCHANGED <<seq, pendingBars, processedBars, batches>>

ShouldFlush_TimeOnly(bars, timeIsUp) == timeIsUp
\* maybe_flush_; bars is what is pending by now, timeIsUp the clock.
ShouldFlush(bars, timeIsUp) ==
  \/ EmitFirstBarImmediately /\ seq = 0
  \/ Len(bars) >= MaxBarsPerBatch
  \/ timeIsUp

Batch_CandidatesAtEnd(bars, final) ==
  [seq |-> seq + 1, bars |-> bars, trades |-> pendingTrades, tally |-> tally,
   candidates |-> IF final THEN pendingCandidates ELSE <<>>,
   outcomes |-> pendingOutcomes, final |-> final]

Batch(bars, final) ==
  [seq |-> seq + 1, bars |-> bars, trades |-> pendingTrades, tally |-> tally,
   candidates |-> pendingCandidates, outcomes |-> pendingOutcomes, final |-> final]

Drained_KeepOutcomes ==
  /\ pendingCandidates' = <<>>
  /\ UNCHANGED <<nextCandidate, pendingOutcomes, shadows>>

\* drain_pending_candidates and drain_pending_outcomes
Drained ==
  /\ pendingCandidates' = <<>> /\ pendingOutcomes' = <<>>
  /\ UNCHANGED <<nextCandidate, shadows>>

\* emit_: everything pending is moved out and the collector is drained
\* before the callback, which takes the batch or throws.
Emit(bars, final, throws) ==
  /\ seq' = seq + 1
  /\ pendingBars' = <<>> /\ pendingTrades' = <<>>
  /\ Drained
  /\ batches' = IF throws THEN batches ELSE Append(batches, Batch(bars, final))
  /\ UNCHANGED tally

\* next()
BatchBar(bar, timeIsUp, throws) ==
  LET bars == Append(pendingBars, bar)
  IN  /\ processedBars' = processedBars + 1
      /\ IF ShouldFlush(bars, timeIsUp)
         THEN Emit(bars, FALSE, throws)
         ELSE /\ ~throws
              /\ pendingBars' = bars
              /\ UNCHANGED <<seq, pendingTrades, tally, batches, collectorVars>>

\* stop()
FinalBatch(throws) == Emit(pendingBars, TRUE, throws) /\ UNCHANGED processedBars

BatcherInit ==
  /\ seq = 0 /\ pendingBars = <<>> /\ pendingTrades = <<>> /\ processedBars = 0
  /\ tally = [closed |-> 0, won |-> 0, lost |-> 0]
  /\ batches = <<>>
=============================================================================
