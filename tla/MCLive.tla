------------------------------- MODULE MCLive -------------------------------
(***************************************************************************)
(* A small live session: two feeds, of which the first is traded, orders   *)
(* of 3 lots that fill in parts, prices whose means are whole numbers.     *)
(***************************************************************************)
EXTENDS LiveEngine

MCFeeds      == {0, 1}
MCCurrencies == {"USD"}
MCFunding    == [c \in MCCurrencies |-> 120]
MCInstrument == [d \in MCFeeds |-> None]
MCFees       == [d \in MCFeeds |-> [type |-> "Fixed", rate |-> 0, min |-> 0]]
MCFxRate     == [c \in MCCurrencies |-> None]
MCPeriod     == [d \in MCFeeds |-> 1]
Buy(n)       == [feed |-> 0, lots |-> n]
Bars(n)      == [d \in MCFeeds |-> IF d = 0 THEN n ELSE 1]

Bounded(b, requests, parted, submits, sessions, heartbeat) ==
  [bars |-> Bars(b), requests |-> requests, parted |-> parted, submits |-> submits,
   starts |-> sessions, strategies |-> sessions, timer |-> heartbeat]

\* An order that fills in parts, gives back and is canceled; orders of both
\* sides and orders over two bars, each against the timer; a session that is
\* stopped, started again and given another strategy.
MCBounds ==
  {Bounded(1, {Buy(3)}, 1, 1, 1, FALSE),
   Bounded(1, {Buy(3), Buy(-1)}, 0, 2, 1, TRUE),
   Bounded(2, {Buy(2)}, 0, 2, 1, TRUE),
   Bounded(3, {Buy(2)}, 0, 1, 2, FALSE)}
=============================================================================
