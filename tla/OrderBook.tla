----------------------------- MODULE OrderBook ------------------------------
(***************************************************************************)
(* What an order-processing broker promises its strategy, whatever its     *)
(* loops and copies look like: an order moves along the state machine of   *)
(* broker/order.hpp, once, and a feed's net position moves with an order   *)
(* if, and in the same step in which, that order completes.                *)
(***************************************************************************)
EXTENDS Integers, Sequences

CONSTANT BookFeeds

VARIABLES
  book,  \* the orders by id: [feed, signed size, status]
  net    \* feed -> net position

Waiting  == {"Created", "Submitted", "Accepted"}
Failures == {"Canceled", "Rejected", "Expired", "Margin"}

\* Created -> Submitted -> Accepted -> Completed/Canceled/Rejected/Expired/Margin,
\* where an order may fail before it is accepted.
MayBecome(s) ==
  CASE s = "Created"   -> {"Submitted"} \union Failures
    [] s = "Submitted" -> {"Accepted"} \union Failures
    [] s = "Accepted"  -> Failures
    [] OTHER           -> {}

BookInit == book = << >> /\ net = [d \in BookFeeds |-> 0]

\* One submission may place several linked orders.
Place == \E k \in 1..3 :
  /\ Len(book') = Len(book) + k
  /\ SubSeq(book', 1, Len(book)) = book
  /\ \A i \in Len(book) + 1 .. Len(book') : book'[i].status = "Created"
  /\ UNCHANGED net

Advance == \E i \in DOMAIN book : \E s \in MayBecome(book[i].status) :
  /\ book' = [book EXCEPT ![i].status = s]
  /\ UNCHANGED net

Complete == \E i \in DOMAIN book :
  /\ book[i].status = "Accepted"
  /\ book' = [book EXCEPT ![i].status = "Completed"]
  /\ net' = [net EXCEPT ![book[i].feed] = @ + book[i].size]

BookNext == Place \/ Advance \/ Complete

BookSpec == BookInit /\ [][BookNext]_<<book, net>>
=============================================================================
