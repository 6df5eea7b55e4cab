----------------------------- MODULE MCStocksScreen -----------------------------
(* The instance of StocksScreen that TLC checks. *)
EXTENDS StocksScreen, TLC

CONSTANTS apple, google

TwoStocks == <<apple, google>>
=============================================================================
