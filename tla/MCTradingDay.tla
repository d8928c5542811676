----------------------------- MODULE MCTradingDay -----------------------------
(* Values of the trading day's constants for TLC. *)
EXTENDS TradingDay, TLC

CONSTANTS d1, d2, nobody

MCDeals == {d1, d2}
OwnFiles == [d \in MCDeals |-> d]
MCNetLiqs == {97, 100}

=============================================================================
