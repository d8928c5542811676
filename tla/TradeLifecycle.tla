--------------------------- MODULE TradeLifecycle ---------------------------
(***************************************************************************)
(* What the `trades` table promises its readers, dashboard and operator:   *)
(* docs/TRADING.md, "status machine PENDING -> SUBMITTED -> FILLED /       *)
(* REJECTED / CANCELLED".  A row only ever moves along an edge, and a row  *)
(* that has reached the end of an edge path is never rewritten.            *)
(***************************************************************************)
CONSTANT TradeIds

VARIABLE status

Edges == {<<"ABSENT", "PENDING">>, <<"ABSENT", "SUBMITTED">>, <<"ABSENT", "REJECTED">>,
          <<"PENDING", "SUBMITTED">>, <<"PENDING", "REJECTED">>,
          <<"SUBMITTED", "FILLED">>, <<"SUBMITTED", "REJECTED">>}

LifecycleInit == status = [t \in TradeIds |-> "ABSENT"]

Move(t, to) ==
    /\ <<status[t], to>> \in Edges
    /\ status' = [status EXCEPT ![t] = to]

LifecycleNext == \E t \in TradeIds, to \in {"PENDING", "SUBMITTED", "FILLED", "REJECTED"} :
                     Move(t, to)

LifecycleSpec == LifecycleInit /\ [][LifecycleNext]_status

=============================================================================
