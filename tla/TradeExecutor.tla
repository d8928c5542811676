---------------------------- MODULE TradeExecutor ----------------------------
(***************************************************************************)
(* TradeExecutor of src/trading/executor.py: submit(), mark_filled(),      *)
(* mark_rejected() and _apply_fill_to_position(), run by the sessions that *)
(* call them, against the `trades` and `paper_positions` tables and the    *)
(* IBKR order book.                                                        *)
(*                                                                         *)
(* `trades` and `lots` are the COMMITTED tables.  What a session has       *)
(* written and not committed lives in `call`, so a crash or a rollback is  *)
(* a step that forgets `call[s]` and changes no table.  A step is the code *)
(* between two awaits.                                                     *)
(*                                                                         *)
(* Data left out: prices, quantities, the rationale, the `approved` column *)
(* (no code reads it back but the dashboard).                              *)
(***************************************************************************)
EXTENDS Naturals, FiniteSets

CONSTANTS
    Deals,     \* deals.id
    TradeIds,  \* the uuid4 values drawn for TradeRequest.trade_id
    DealOf,    \* the deal a trade id is drawn for: an id names one request
    OrderIds,  \* the bracket ids IBKR hands out, in increasing order
    NoTrade

ASSUME ExecutorAssumption ==
    /\ IsFiniteSet(Deals)
    /\ DealOf \in [TradeIds -> Deals]
    /\ OrderIds \subseteq Nat \ {0}
    /\ NoTrade \notin TradeIds

VARIABLES
    trades,  \* table `trades`: status and ibkr_order_id of each trade id
    call,    \* the submit() each session has in flight
    broker,  \* the brackets at IBKR, by parent order id
    lots     \* table `paper_positions`: BUY fills in the deal's open position

execVars == <<trades, call, broker, lots>>

-----------------------------------------------------------------------------
\* The scheduler's cycle has one session; the operator's commands another.
Sessions == {"cycle", "operator"}

NoOrder == 0

Terminal == {"SUBMITTED", "FILLED", "REJECTED", "CANCELLED"}
Open == {"SUBMITTED", "FILLED"}
Status == {"ABSENT", "PENDING"} \cup Terminal

Row == [status : Status, order : OrderIds \cup {NoOrder}]

\* hold: about to store the request PENDING; qualify: awaiting the contract;
\* sent: the legs are at IBKR, the commit of SUBMITTED is under way.
Call == [pc : {"idle", "hold", "qualify", "sent"},
         trade : TradeIds \cup {NoTrade},
         order : OrderIds \cup {NoOrder}]

Idle == [pc |-> "idle", trade |-> NoTrade, order |-> NoOrder]

\* free: id not yet used; working: transmitted; refused: rejected by IBKR;
\* holding: entry filled; exited: stop or take-profit filled.
\* booked: the reports of this bracket the tables have absorbed.
Bracket == [state : {"free", "working", "refused", "holding", "exited"},
            booked : {"none", "entry", "all"},
            trade : TradeIds \cup {NoTrade},
            by : Sessions]

ExecTypeOK ==
    /\ trades \in [TradeIds -> Row]
    /\ call \in [Sessions -> Call]
    /\ broker \in [OrderIds -> Bracket]
    /\ lots \in [Deals -> Nat]

ExecInit ==
    /\ trades = [t \in TradeIds |-> [status |-> "ABSENT", order |-> NoOrder]]
    /\ call = [s \in Sessions |-> Idle]
    /\ broker = [o \in OrderIds |-> [state |-> "free", booked |-> "none",
                                     trade |-> NoTrade, by |-> "cycle"]]
    /\ lots = [d \in Deals |-> 0]

-----------------------------------------------------------------------------
(* submit *)

DealOfOrder(o) == DealOf[broker[o].trade]

\* Slip: the terminal statuses tested are only those of a live order.
ActedOnIfOpen(t) == trades[t].status \in Open

\* Slip: the tested statuses leave SUBMITTED out.
ActedOnIfSettled(t) == trades[t].status \in {"FILLED", "REJECTED", "CANCELLED"}

\* The idempotency test on the stored row.
AlreadyActedOn(t) == trades[t].status \in Terminal

\* The duplicate test runs only for an id that has no row yet.
SkippedAsDuplicate(t) ==
    /\ trades[t].status = "ABSENT"
    /\ \E u \in TradeIds : DealOf[u] = DealOf[t] /\ trades[u].status \in Open

\* The two SELECTs, up to the first await that can change something.  Only the
\* caller that drew t uses it before it has a row, so nothing that happens
\* between the two SELECTs can change the outcome of the first.
\* A call that stops at either test changes nothing.
BeginSubmit(s, t, effectiveApproved) ==
    /\ call[s] = Idle
    /\ ~AlreadyActedOn(t)
    /\ ~SkippedAsDuplicate(t)
    /\ call' = [call EXCEPT ![s] =
                   [pc |-> IF effectiveApproved THEN "qualify" ELSE "hold",
                    trade |-> t, order |-> NoOrder]]
    /\ UNCHANGED <<trades, broker, lots>>

Store(t, status, o) == trades' = [trades EXCEPT ![t] = [status |-> status, order |-> o]]

Return(s) == call' = [call EXCEPT ![s] = Idle]

\* Not approved: the row is committed PENDING and nothing is sent.
Hold(s) ==
    /\ call[s].pc = "hold"
    /\ Store(call[s].trade, "PENDING", NoOrder)
    /\ Return(s)
    /\ UNCHANGED <<broker, lots>>

\* No contract: qualify_contract / qualify_by_isin swallow every error and
\* return None, a lost Gateway included.
RejectUnresolved(s) ==
    /\ call[s].pc = "qualify"
    /\ Store(call[s].trade, "REJECTED", NoOrder)
    /\ Return(s)
    /\ UNCHANGED <<broker, lots>>

IsNextOrderId(o) ==
    /\ broker[o].state = "free"
    /\ \A p \in OrderIds : broker[p].state = "free" => o <= p

\* next_order_id, build_bracket and the three place_order calls: no await
\* among them, and only the last leg transmits, so the bracket arrives whole.
Place(s, o) ==
    /\ call[s].pc = "qualify"
    /\ IsNextOrderId(o)
    /\ broker' = [broker EXCEPT ![o] = [state |-> "working", booked |-> "none",
                                        trade |-> call[s].trade, by |-> s]]
    /\ call' = [call EXCEPT ![s] = [pc |-> "sent", trade |-> @.trade, order |-> o]]
    /\ UNCHANGED <<trades, lots>>

\* Slip: the row is marked SUBMITTED before the legs are built.
RaisesAfterMarking(s) ==
    /\ call[s].pc = "qualify"
    /\ IF s = "cycle" THEN Store(call[s].trade, "SUBMITTED", NoOrder) ELSE UNCHANGED trades
    /\ Return(s)
    /\ UNCHANGED <<broker, lots>>

\* build_bracket refuses a degenerate bracket, or IBKR is gone when the id is
\* drawn or a leg is placed: nothing is transmitted.  The cycle's `finally`
\* still commits the session, with the row in it; the operator's is rolled back.
SubmitRaises(s) ==
    /\ call[s].pc = "qualify"
    /\ IF s = "cycle" THEN Store(call[s].trade, "PENDING", NoOrder) ELSE UNCHANGED trades
    /\ Return(s)
    /\ UNCHANGED <<broker, lots>>

\* Slip: the row keeps the id of the stop leg, one above the parent's.
CommitsStopId(s) ==
    /\ call[s].pc = "sent"
    /\ Store(call[s].trade, "SUBMITTED", call[s].order + 1)
    /\ Return(s)
    /\ UNCHANGED <<broker, lots>>

\* Slip: ibkr_order_id is not written back.
CommitsWithoutId(s) ==
    /\ call[s].pc = "sent"
    /\ Store(call[s].trade, "SUBMITTED", NoOrder)
    /\ Return(s)
    /\ UNCHANGED <<broker, lots>>

CommitSubmitted(s) ==
    /\ call[s].pc = "sent"
    /\ Store(call[s].trade, "SUBMITTED", call[s].order)
    /\ Return(s)
    /\ UNCHANGED <<broker, lots>>

\* The process dies, or a commit raises: the session's writes are lost.
Lose(s) ==
    /\ call[s] # Idle
    /\ Return(s)
    /\ UNCHANGED <<trades, broker, lots>>

-----------------------------------------------------------------------------
(* IBKR, and the fill monitor that reports to mark_filled / mark_rejected: *)
(* neither is in the repository.  The monitor knows a bracket by the       *)
(* ibkr_order_id of a committed row, and reports each event once.          *)

BrokerMoves(o, from, to) ==
    /\ broker[o].state = from
    /\ broker' = [broker EXCEPT ![o].state = to]
    /\ UNCHANGED <<trades, call, lots>>

BrokerFills(o) == BrokerMoves(o, "working", "holding")
BrokerRefuses(o) == BrokerMoves(o, "working", "refused")
BrokerExits(o) == BrokerMoves(o, "holding", "exited")

RowOf(o) == broker[o].trade \in TradeIds /\ trades[broker[o].trade].order = o

\* BUY fill: the row is FILLED and the deal's open position opened or averaged.
MarkFilled(o) ==
    /\ broker[o].state \in {"holding", "exited"}
    /\ broker[o].booked = "none"
    /\ RowOf(o)
    /\ broker' = [broker EXCEPT ![o].booked = "entry"]
    /\ Store(broker[o].trade, "FILLED", o)
    /\ lots' = [lots EXCEPT ![DealOfOrder(o)] = @ + 1]
    /\ UNCHANGED call

\* Slip: the fill's side is not looked at.
ExitBookedAsEntry(o) ==
    /\ broker[o].state = "exited"
    /\ broker[o].booked = "entry"
    /\ broker' = [broker EXCEPT ![o].booked = "all"]
    /\ lots' = [lots EXCEPT ![DealOfOrder(o)] = @ + 1]
    /\ UNCHANGED <<trades, call>>

\* SELL fill: closes the deal's open position, all of it, whatever it holds.
\* (The SELL row is not kept: the BUY row, FILLED, already blocks the deal.)
MarkExited(o) ==
    /\ broker[o].state = "exited"
    /\ broker[o].booked = "entry"
    /\ broker' = [broker EXCEPT ![o].booked = "all"]
    /\ lots' = [lots EXCEPT ![DealOfOrder(o)] = 0]
    /\ UNCHANGED <<trades, call>>

MarkRejected(o) ==
    /\ broker[o].state = "refused"
    /\ broker[o].booked = "none"
    /\ RowOf(o)
    /\ broker' = [broker EXCEPT ![o].booked = "all"]
    /\ Store(broker[o].trade, "REJECTED", o)
    /\ UNCHANGED <<call, lots>>

Report(o) ==
    \/ BrokerFills(o) \/ BrokerRefuses(o) \/ BrokerExits(o)
    \/ MarkFilled(o) \/ MarkExited(o) \/ MarkRejected(o)

=============================================================================
