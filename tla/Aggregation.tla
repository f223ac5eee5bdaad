----------------------------- MODULE Aggregation -----------------------------
(***************************************************************************)
(* The three ways to make coarser bars out of a feed.  Resampler and       *)
(* DataReplay number the periods themselves and walk over the source with  *)
(* the same accumulator: one emits a bar when its period is over, the      *)
(* other the state of the accumulator after every source bar.              *)
(* ResampledFeed, whose buckets are in Interval, asks the calendar.        *)
(*                                                                         *)
(* preload reads one source bar after the other and looks only at bars it  *)
(* has read, so here the source grows by one bar in every step and both    *)
(* walks follow.  A time is a number of half minutes; the last one of a    *)
(* day stands for 23:59:59, and no source bar falls on it.                 *)
(***************************************************************************)
EXTENDS Interval, SequencesExt

CONSTANTS
  Targets,  \* timeframes to aggregate to
  Bodies,   \* of source bars: [o, h, l, c, v]
  Gaps,     \* between the times of two source bars
  NumBars   \* bars of the source

ASSUME AggregationAssumption ==
  /\ Targets \subseteq TimeFrames /\ NumBars \in Nat
  /\ Bodies \subseteq [o : Int, h : Int, l : Int, c : Int, v : Int]
  \* Sources are in the order of time, not older than 1970 and on whole minutes.
  /\ Gaps \subseteq Nat \ {0} /\ \A gap \in Gaps : gap % 2 = 0
  \* A day has whole minutes, and months begin at midnight.
  /\ DayLength % 2 = 0 /\ \A s \in MonthStarts : s % DayLength = 0

VARIABLES
  target,     \* target_tf_ and target_compression_
  source,     \* the source bars read: [t, body]
  acc,        \* o, h, l, c, v of Resampler::preload
  resampled,  \* bars of the Resampler: [t, body]
  replayed,   \* bars of the DataReplay: [t, body]
  done        \* preload has returned

vars == <<target, source, acc, resampled, replayed, done>>

Day(t) == t \div DayLength

GetBucket_MinuteOfDay(t) ==
  CASE target.unit = "Minutes" -> <<0, (t % DayLength) \div target.n>>
    [] target.unit = "Days"    -> <<Day(t) \div target.n, 0>>
    [] target.unit = "Weeks"   -> <<(Day(t) + 3) \div 7, 0>>
    [] target.unit = "Months"  -> <<Max({s \in MonthStarts : s <= t}), 0>>

\* get_bucket; the number of a minute's bucket is unique within its day, and
\* the compression of weeks and months is ignored.
GetBucket(t) ==
  CASE target.unit = "Minutes" -> <<Day(t), (t % DayLength) \div target.n>>
    [] target.unit = "Days"    -> <<Day(t) \div target.n, 0>>
    [] target.unit = "Weeks"   -> <<(Day(t) + 3) \div 7, 0>>
    [] target.unit = "Months"  -> <<Max({s \in MonthStarts : s <= t}), 0>>

EndOfDay(t) == Day(t) * DayLength + DayLength - 1

\* compute_bar_timestamp, with get_bucket_timestamp of minutes.
ComputeBarTimestamp(t) ==
  IF target.unit = "Minutes"
  THEN Day(t) * DayLength + ((t % DayLength) \div target.n + 1) * target.n
  ELSE EndOfDay(t)

Stamp_OfNewDay(last, t) ==
  IF target.unit = "Minutes" /\ Day(last) # Day(t) THEN EndOfDay(t)
  ELSE ComputeBarTimestamp(last)

\* The time of a bar whose last source bar is at last, emitted at t.
Stamp(last, t) ==
  IF target.unit = "Minutes" /\ Day(last) # Day(t) THEN EndOfDay(last)
  ELSE ComputeBarTimestamp(last)

Merge(a, b) ==
  [o |-> a.o, h |-> Max({a.h, b.h}), l |-> Min({a.l, b.l}), c |-> b.c, v |-> a.v + b.v]

Bar(t, body) == [t |-> t, body |-> body]

\* One turn of the loops of both preloads.
ReadBar(t, body) ==
  LET first  == source = <<>>
      last   == Last(source).t
      starts == ~first /\ GetBucket(t) # GetBucket(last)
  IN  /\ source' = Append(source, Bar(t, body))
      /\ acc' = IF first \/ starts THEN body ELSE Merge(acc, body)
      /\ resampled' = IF starts THEN Append(resampled, Bar(Stamp(last, t), acc)) ELSE resampled
      /\ replayed' =
           Append(replayed,
             Bar(t, IF first \/ starts THEN body ELSE Merge(Last(replayed).body, body)))

Read ==
  /\ ~done /\ Len(source) < NumBars
  /\ \E gap \in Gaps, body \in Bodies :
       ReadBar((IF source = <<>> THEN 0 ELSE Last(source).t) + gap, body)
  /\ UNCHANGED <<target, done>>

\* The final bar of the Resampler.
Finish ==
  /\ ~done
  /\ done' = TRUE
  /\ resampled' = IF source = <<>> THEN <<>>
                  ELSE Append(resampled, Bar(ComputeBarTimestamp(Last(source).t), acc))
  /\ UNCHANGED <<target, source, acc, replayed>>

NoBody == [o |-> 0, h |-> 0, l |-> 0, c |-> 0, v |-> 0]

Init ==
  /\ target \in Targets
  /\ source = <<>> /\ acc = NoBody /\ resampled = <<>> /\ replayed = <<>> /\ done = FALSE

Next == Read \/ Finish

Spec == Init /\ [][Next]_vars
-----------------------------------------------------------------------------
\* is_period_end of DataReplay, counted from 1.
IsPeriodEnd(i) == i = Len(source) \/ GetBucket(source[i].t) # GetBucket(source[i + 1].t)

\* ResampledFeed: the body of a bucket.
BodyOf(bucket) ==
  LET at == bucket.from .. bucket.to
      volume[i \in at] == (IF i = bucket.from THEN 0 ELSE volume[i - 1]) + source[i].body.v
  IN  [o |-> source[bucket.from].body.o,
       h |-> Max({source[i].body.h : i \in at}),
       l |-> Min({source[i].body.l : i \in at}),
       c |-> source[bucket.to].body.c,
       v |-> volume[bucket.to]]

Times == [i \in DOMAIN source |-> source[i].t]

\* What ResampledFeed accepts and the calendar cuts at midnight.
Canonical(tf) ==
  CASE tf.unit = "Minutes" -> DayLength % tf.n = 0
    [] tf.unit = "Days"    -> TRUE
    [] OTHER               -> tf.n = 1

PeriodEnds == {i \in DOMAIN source : IsPeriodEnd(i)}

\* Which of the periods a source bar that ends one is the end of.
PeriodOf(i) == Cardinality({j \in PeriodEnds : j <= i})

\* A DataReplay at the ends of its periods shows exactly the bars of the
\* Resampler, for any compression; and these are, for the timeframes all
\* three accept, the bars ResampledFeed makes with the calendar.
AggregatorsAgree ==
  done =>
    LET buckets == Buckets(Times, target)
    IN  /\ Len(resampled) = Cardinality(PeriodEnds)
        /\ \A i \in PeriodEnds : resampled[PeriodOf(i)].body = replayed[i].body
        /\ Canonical(target) =>
             /\ Len(resampled) = Len(buckets)
             /\ \A k \in DOMAIN buckets : resampled[k].body = BodyOf(buckets[k])

\* The times of resampled bars increase and are not before the last source
\* bar in them, and a run that takes the feed as a context (period_end of
\* such a time, Cerebro::run) does not show a bar before its period is over.
StampsNeverEarly ==
  done =>
    LET buckets == Buckets(Times, target)
    IN  /\ \A k \in 1 .. Len(resampled) - 1 : resampled[k].t < resampled[k + 1].t
        /\ Canonical(target) =>
             \A k \in DOMAIN resampled :
               LET last == source[buckets[k].to].t
               IN  /\ resampled[k].t >= last
                   /\ PeriodEnd(resampled[k].t, target) >= PeriodEnd(last, target)
=============================================================================
