---------------------------- MODULE LedgerFills -----------------------------
(***************************************************************************)
(* The account on its own: any sequence of full fills, buys behind the     *)
(* buying power check and sells unchecked, as try_fill_order makes them.   *)
(***************************************************************************)
EXTENDS Ledger

CONSTANTS
  Sizes,      \* order sizes; the broker does not exclude 0
  Prices,     \* fill prices
  MaxFills    \* bound: number of fills

ASSUME FillsAssumption == Sizes \subseteq Nat /\ Prices \subseteq Nat /\ MaxFills \in Nat

VARIABLE fills   \* fills so far, for the bound only

vars == <<ledgerVars, fills>>

Init == LedgerInit /\ fills = 0

Buy(d, size, price) ==
  /\ fills < MaxFills
  /\ Affordable(d, size, price)
  /\ ApplyFill(d, size, price)
  /\ fills' = fills + 1

Sell(d, size, price) ==
  /\ fills < MaxFills
  /\ ApplyFill(d, -size, price)
  /\ fills' = fills + 1


Next == \E d \in Feeds, size \in Sizes, price \in Prices :
          Buy(d, size, price) \/ Sell(d, size, price)

Spec == Init /\ [][Next]_vars
=============================================================================
