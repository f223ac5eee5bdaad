-------------------------- MODULE SignalEvaluation ---------------------------
(***************************************************************************)
(* SignalEvaluator: the signals of an entry strategy over a span of bars,  *)
(* without broker and engine.  It drives the strategy by itself, and says  *)
(* of its result that it is what Cerebro's loop sees.                      *)
(*                                                                         *)
(* A signal is what the strategy can base it on: how often its indicators  *)
(* have been advanced, and the bar the cursor of the feed is on.  The      *)
(* engine advances them through update_indicators(feed), which for feed 0  *)
(* falls back on update_indicators(); the evaluator calls the latter, so a *)
(* strategy that overrides the former keeps its indicators where they were.*)
(***************************************************************************)
EXTENDS Cerebro

\* The overload of update_indicators that a strategy overrides.
Hooks == {"plain", "indexed"}

Neutral == [updates |-> 0, index |-> 0]
Signal(updated, at) == [updates |-> updated, index |-> at]

\* update_indicators(), n being how often it has advanced something.
UpdateIndicators(hook, n) == IF hook = "plain" THEN n + 1 ELSE n

EvaluateBar_OneBarLate(hook, run, i, n, min, from, to) ==
  LET updated == UpdateIndicators(hook, run.updated)
      signal == IF i > min THEN Signal(updated, run.at) ELSE Neutral
  IN  [updated |-> updated,
       at      |-> IF i < n THEN run.at + 1 ELSE run.at,
       out     |-> IF from < i /\ i <= to THEN Append(run.out, signal) ELSE run.out]

\* Bar i of n, counted from 1, for a strategy with minimum period min.
EvaluateBar(hook, run, i, n, min, from, to) ==
  LET updated == UpdateIndicators(hook, run.updated)
      signal == IF i >= min THEN Signal(updated, run.at) ELSE Neutral
  IN  [updated |-> updated,
       at      |-> IF i < n THEN run.at + 1 ELSE run.at,
       out     |-> IF from < i /\ i <= to THEN Append(run.out, signal) ELSE run.out]

\* evaluate_slice(bars, from, to)
EvaluateSlice(hook, n, min, from, to) ==
  LET run[i \in 0 .. n] ==
        IF i = 0 THEN [updated |-> 0, at |-> 0, out |-> <<>>]
        ELSE EvaluateBar(hook, run[i - 1], i, n, min, from, to)
  IN  run[n].out
-----------------------------------------------------------------------------
MasterAlone(s) == \A k \in Contexts : plan.min[s][k] = 0

\* Of a strategy that asks for bars of the master feed alone, any slice that
\* the evaluator takes of these bars has for the current one the signal the
\* strategy has just come to in the engine's loop, and none while it warms up.
\* For a strategy that overrides update_indicators(feed) that is true of the
\* bar the signal is read on and not of its indicators.
EvaluatorAgrees ==
  phase = "strategies" => \A s \in Strategies : (s < strategyAt /\ MasterAlone(s)) =>
    \A hook \in Hooks, from \in 0 .. bar, to \in bar + 1 .. Length(0) :
      LET signal == EvaluateSlice(hook, Length(0), plan.min[s][0], from, to)[bar + 1 - from]
      IN  IF called[s] = "prenext" THEN signal = Neutral
          ELSE /\ signal.index = index[0]
               /\ hook = "plain" => signal.updates = updates[s][0]
=============================================================================
