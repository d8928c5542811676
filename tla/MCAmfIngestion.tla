--------------------------- MODULE MCAmfIngestion ---------------------------
(* Values of the AMF pollers' constants for TLC. *)
EXTENDS AmfIngestion, TLC

NoItem == {}
Second == {2}
Inside == [i \in 1..Offers |-> IF i = 1 THEN "inside" ELSE "outside"]

OneLinked == <<[ref |-> 1, linked |-> TRUE]>>
LinkedAndNot == <<[ref |-> 1, linked |-> FALSE], [ref |-> 1, linked |-> TRUE]>>

=============================================================================
