------------------------------ MODULE MCLedger ------------------------------
(***************************************************************************)
(* Small accounts for TLC.  Prices are multiples of 5040 so that every     *)
(* weighted mean of at most four fills of sizes 1 and 2 is a whole number. *)
(***************************************************************************)
EXTENDS LedgerFills

MCFeeds      == {0, 1}
MCCurrencies == {"USD", "JPY"}
MCPrices     == {5040, 10080}
MCFunding    == [c \in MCCurrencies |-> IF c = "USD" THEN 16000 ELSE 0]
\* Feed 0 is a legacy feed, feed 1 an instrument settled in yen.
MCInstrument == [d \in MCFeeds |->
                   IF d = 0 THEN None
                   ELSE [ccy |-> "JPY", unitMargin |-> 10, percMargin |-> 50]]
MCFees       == [d \in MCFeeds |->
                   IF d = 0 THEN [type |-> "Percentage", rate |-> 1, min |-> 40]
                   ELSE [type |-> "PerShare", rate |-> 6, min |-> 0]]
MCFxRate     == [c \in MCCurrencies |-> IF c = "JPY" THEN 2 ELSE None]
=============================================================================
