------------------------------ MODULE MCCerebro ------------------------------
(***************************************************************************)
(* Small multi-clock runs for TLC.  A day has 6 minutes and the months     *)
(* begin at 0, 12 and 24.  The master feed has bars of 2 minutes, with     *)
(* gaps.  Feed 1 is aggregated from it; feed 2 is a second instrument,     *)
(* either in lockstep with the master feed or with bars of a day.          *)
(***************************************************************************)
EXTENDS SignalEvaluation, SequencesExt

MCMonthStarts == {0, 12, 24, 36}

Tf(unit, n) == [unit |-> unit, n |-> n]

Sorted(set) == SetToSortSeq(set, LAMBDA a, b : a < b)

\* The bars of the master feed: every choice out of five, across two months.
Masters == {Sorted(set) : set \in SUBSET {2, 4, 6, 12, 16}}

\* Across the Monday that is day 4.
Weekend == {Sorted(set) : set \in SUBSET {20, 22, 24, 30}}

Resampled(times, tf) == [i \in 1..Len(Buckets(times, tf)) |-> Buckets(times, tf)[i].start]

\* Two strategies: one that asks for n bars of the master feed alone and one
\* that asks for n bars of feed 1 and for a bar of feed 2.
Mins(n) == <<[k \in Feeds |-> IF k = 0 THEN n ELSE 0],
             [k \in Feeds |-> CASE k = 0 -> 1 [] k = 1 -> n [] OTHER -> 1]>>

Plan(times, tf1, tf2, times2, n) ==
  [tf    |-> [k \in Feeds |-> CASE k = 0 -> Tf("Minutes", 2) [] k = 1 -> tf1 [] OTHER -> tf2],
   times |-> [k \in Feeds |-> CASE k = 0 -> times [] k = 1 -> Resampled(times, tf1)
                                [] OTHER -> times2],
   min   |-> [s \in Strategies |-> Mins(n)[s]]]

MCPlans ==
  {Plan(times, Tf(unit, 1), Tf("Minutes", 2), times, n) :
     times \in Masters, unit \in {"Days", "Months"}, n \in {1, 2}}
  \union
  {Plan(times, Tf("Weeks", 1), Tf("Days", 1), <<19, 27, 33>>, 1) : times \in Weekend}
  \union {Plan(<<2, 4>>, Tf("Minutes", 1), Tf("Days", 1), <<1>>, 0)}

\* A bar of 2 minutes and the day it is in, which does not end.
OneDayPlans == {Plan(<<2>>, Tf("Days", 1), Tf("Days", 1), <<1>>, 1)}
=============================================================================
