--------------------------- MODULE MCPaidRequests ---------------------------
(* Values of the paced and paid requests' constants for TLC. *)
EXTENDS PaidRequests, TLC

CONSTANTS consob, bafin, listing, one, nobody

MCTasks == {consob, bafin, listing}
MCLimiters == {one}
MCLimiterOf == [t \in MCTasks |-> one]
MCListing == {listing}
MCBafin == {bafin}
MCCosts == {0, 2}

=============================================================================
