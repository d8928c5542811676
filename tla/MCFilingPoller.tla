--------------------------- MODULE MCFilingPoller ---------------------------
(* Values of the filing pollers' constants for TLC. *)
EXTENDS FilingPoller, TLC

BothSites == {"DE", "IT"}
Consob == {"IT"}
FirstIsThin == {1}
NoneThin == {}

=============================================================================
