---------------------------- MODULE MCAggregation ----------------------------
(***************************************************************************)
(* Five bars over days of 12 half minutes and months of eight days, at gaps *)
(* within an hour of such a day, over a night, a week and a month.         *)
(***************************************************************************)
EXTENDS Aggregation

TF(u, n) == [unit |-> u, n |-> n]

MCTargets == {TF("Minutes", 4), TF("Minutes", 6), TF("Minutes", 10), TF("Days", 1),
              TF("Days", 2), TF("Weeks", 1), TF("Weeks", 2), TF("Months", 1)}

MCMonthStarts == {k * 96 : k \in 0 .. 8}

Body(o, h, l, c, v) == [o |-> o, h |-> h, l |-> l, c |-> c, v |-> v]

\* A rising and a falling bar, neither within the other.
MCBodies == {Body(2, 5, 2, 4, 1), Body(3, 4, 1, 2, 3)}
=============================================================================
