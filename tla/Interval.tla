------------------------------ MODULE Interval ------------------------------
(***************************************************************************)
(* The calendar arithmetic of data/interval.hpp and the aggregation of     *)
(* data/resampled_feed.hpp.  A time is a number of minutes; days have      *)
(* DayLength minutes, weeks begin on Mondays and day 0 is a Thursday;      *)
(* months begin where the calendar says.                                   *)
(***************************************************************************)
EXTENDS Integers, Sequences, FiniteSetsExt

CONSTANTS
  DayLength,   \* minutes in a day
  MonthStarts  \* times at which a month begins

ASSUME IntervalAssumption == DayLength \in Nat \ {0} /\ MonthStarts \subseteq Int

Units == {"Minutes", "Days", "Weeks", "Months"}

\* TimeFrameCompression
TimeFrames == [unit : Units, n : Nat \ {0}]

Rank == [Minutes |-> 1, Days |-> 2, Weeks |-> 3, Months |-> 4]

FinerThan(a, b) ==
  \/ Rank[a.unit] < Rank[b.unit]
  \/ a.unit = b.unit /\ a.n < b.n

IsCalendar(tf) == tf.unit \in {"Weeks", "Months"}

\* The timeframes that have a period_start and a period_end: of weeks and months
\* there is one at a time, any other compression throws.
PeriodFrames == {tf \in TimeFrames : IsCalendar(tf) => tf.n = 1}

\* duration_of: only timeframes of a fixed span have one.
DurationOf(tf) == IF tf.unit = "Minutes" THEN tf.n ELSE tf.n * DayLength

PeriodStart(t, tf) ==
  LET day == t \div DayLength
  IN  CASE tf.unit \in {"Minutes", "Days"} -> (t \div DurationOf(tf)) * DurationOf(tf)
        [] tf.unit = "Weeks"  -> (day - ((day + 3) % 7)) * DayLength
        [] tf.unit = "Months" -> Max({s \in MonthStarts : s <= t})

\* advance_periods(t, tf, 1): the start of the next period, not t plus a span.
PeriodEnd(t, tf) ==
  LET start == PeriodStart(t, tf)
  IN  CASE tf.unit \in {"Minutes", "Days"} -> start + DurationOf(tf)
        [] tf.unit = "Weeks"  -> start + 7 * DayLength
        [] tf.unit = "Months" -> Min({s \in MonthStarts : s > t})

Joins(t, bucket, tf) == PeriodStart(t, tf) = bucket.start

\* ResampledFeed::preload: a bar joins the current bucket or begins the next
\* one.  A bucket is the run of base bars it is made of: its open is that of
\* the first, its close that of the last, its volume their sum.
Buckets(times, tf) ==
  LET fold[i \in 0..Len(times)] ==
        IF i = 0 THEN << >>
        ELSE LET s == fold[i - 1]
             IN  IF s # << >> /\ Joins(times[i], s[Len(s)], tf)
                 THEN [s EXCEPT ![Len(s)].to = i]
                 ELSE Append(s, [start |-> PeriodStart(times[i], tf), from |-> i, to |-> i])
  IN  fold[Len(times)]
=============================================================================
