--------------------------- MODULE MCTradingCycle ---------------------------
(* Instances of TradingCycle for TLC: two deals, the first drawn twice. *)
EXTENDS TradingCycle, TLC

CONSTANTS d1, d2, a1, a2, b1

MCDeals == {d1, d2}
MCTradeIds == {a1, a2, b1}
MCDealOf == [t \in MCTradeIds |-> IF t = b1 THEN d2 ELSE d1]
MCOrderIds == 1..2

\* a1 and a2 are drawn for the same deal and told apart by nothing.
SameDealIds == Permutations({a1, a2})

=============================================================================
