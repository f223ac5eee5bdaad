------------------------------- MODULE Orders -------------------------------
(***************************************************************************)
(* The Order record of broker/order.hpp and its status state machine.      *)
(* Prices, sizes and trail distances are integers (ticks and lots).        *)
(* The broker keeps two copies of an order, one in all_orders_ and one in  *)
(* pending_orders_; both are records of this shape.                        *)
(*                                                                         *)
(* Definitions named Op_Bug in this project are not part of the model:     *)
(* each is Op with one plausible mistake in it, which the property it is   *)
(* paired with must expose.                                                *)
(***************************************************************************)
EXTENDS Integers

CONSTANT None   \* an empty std::optional: no stop price, expiry, fill, instrument, rate

ASSUME NoneAssumption == None \notin Int

OrderTypes    == {"Market", "Limit", "Stop", "StopLimit", "StopTrail", "StopTrailLimit"}
OrderSides    == {"Buy", "Sell"}
AliveStatuses_WithCompleted == {"Created", "Submitted", "Accepted", "Partial", "Completed"}
AliveStatuses == {"Created", "Submitted", "Accepted", "Partial"}
OrderStatuses == AliveStatuses \union
                   {"Completed", "Canceled", "Rejected", "Expired", "Margin"}

Alive(o)   == o.status \in AliveStatuses
IsTrail(o) == o.type \in {"StopTrail", "StopTrailLimit"}

(***************************************************************************)
(* submit, accept, cancel, reject, expire and margin: every one of them is *)
(* a no-op on an order that is already in a terminal state.                *)
(***************************************************************************)
Move(o, status) == IF Alive(o) THEN [o EXCEPT !.status = status] ELSE o

Execute_AsPartial(o, price, size) ==
  [o EXCEPT !.status = "Partial", !.execPrice = price, !.execSize = @ + size]

Execute_SignedSize(o, price, size) ==
  [o EXCEPT !.status = "Completed", !.execPrice = price,
            !.execSize = IF o.side = "Buy" THEN size ELSE -size]

\* execute(): a full fill.  executed_size is overwritten by the fill.
Execute(o, price, size) ==
  IF Alive(o)
  THEN [o EXCEPT !.status = "Completed", !.execPrice = price, !.execSize = size]
  ELSE o

\* The change of the position a fill of the whole order makes.
SignedSize(o) == IF o.side = "Buy" THEN o.size ELSE -o.size
=============================================================================
