--------------------------- MODULE MCTradeSizing ---------------------------
(* Values of the sizing constants for TLC: prices from half a cent to 20 EUR. *)
EXTENDS TradeSizing, TLC

MCPrices == {50, 200, 9050, 9141, 16800, 16968, 16990, 101000, 200000, 202000}
MCProbabilities == {85, 94, 97, 100}
MCNetLiqs == {0, 166700, 2000000}

=============================================================================
