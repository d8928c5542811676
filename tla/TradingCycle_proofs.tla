------------------------ MODULE TradingCycle_proofs ------------------------
(***************************************************************************)
(* Theorems about TradingCycle, for every set of deals, trade ids and      *)
(* orders, every cap, ramp-up count and cooldown, and every bound.         *)
(***************************************************************************)
EXTENDS TradingCycle, FiniteSetTheorems, TLAPS

-----------------------------------------------------------------------------
(* Type correctness *)

\* The number of open positions that a cycle reads is a natural number.
LEMMA OpenPositionsCounted == OpenPositionCount \in Nat
<1>1. {d \in Deals : lots[d] > 0} \subseteq Deals
  OBVIOUS
<1>2. IsFiniteSet({d \in Deals : lots[d] > 0})
  BY <1>1, FS_Subset, ExecutorAssumption
<1> QED
  BY <1>2, FS_CardinalityType DEF OpenPositionCount

LEMMA InitTypeOK == Init => TypeOK
<1> SUFFICES ASSUME Init PROVE TypeOK
  OBVIOUS
<1> USE ExecutorAssumption, CycleAssumption DEF Init, ExecInit
<1>1. ExecTypeOK
  BY DEF ExecTypeOK, Row, Status, Terminal, NoOrder, Call, Idle, Bracket, Sessions
<1>2. sys \in SysRow
  BY DEF SysRow
<1>3. cyc \in Locals
  BY DEF Locals, NoLocals
<1>4. stamp \in [OrderIds -> Stamp]
  BY DEF Stamp
<1> QED
  BY <1>1, <1>2, <1>3, <1>4 DEF TypeOK

\* The executor's steps keep the types of its tables.
LEMMA StoreType ==
  ASSUME TypeOK, NEW t, NEW st \in Status, NEW o \in OrderIds \cup {NoOrder}, Store(t, st, o)
  PROVE  trades' \in [TradeIds -> Row]
BY DEF TypeOK, ExecTypeOK, Store, Row

LEMMA ReturnType ==
  ASSUME TypeOK, NEW s, Return(s)
  PROVE  call' \in [Sessions -> Call]
BY DEF TypeOK, ExecTypeOK, Return, Call, Idle, NoOrder

LEMMA SubmitType ==
  ASSUME TypeOK, NEW s \in Sessions,
         \/ \E t \in TradeIds, a \in BOOLEAN : BeginSubmit(s, t, a)
         \/ Hold(s) \/ RejectUnresolved(s) \/ SubmitRaises(s)
         \/ CommitSubmitted(s) \/ Lose(s)
         \/ \E o \in OrderIds : Place(s, o)
  PROVE  ExecTypeOK'
<1> USE DEF TypeOK, ExecTypeOK
<1>1. CASE \E t \in TradeIds, a \in BOOLEAN : BeginSubmit(s, t, a)
  BY <1>1 DEF BeginSubmit, Call, NoOrder
<1>2. CASE Hold(s)
  BY <1>2, StoreType, ReturnType DEF Hold, Status, NoOrder
<1>3. CASE RejectUnresolved(s)
  BY <1>3, StoreType, ReturnType DEF RejectUnresolved, Status, Terminal, NoOrder
<1>4. CASE SubmitRaises(s)
  BY <1>4, StoreType, ReturnType DEF SubmitRaises, Status, NoOrder
<1>5. CASE CommitSubmitted(s)
  <2>1. call[s].order \in OrderIds \cup {NoOrder}
    BY DEF Call
  <2> QED
    BY <1>5, <2>1, StoreType, ReturnType DEF CommitSubmitted, Status, Terminal
<1>6. CASE Lose(s)
  BY <1>6, ReturnType DEF Lose
<1>7. CASE \E o \in OrderIds : Place(s, o)
  <2> PICK o \in OrderIds : Place(s, o)
    BY <1>7
  <2>1. broker' \in [OrderIds -> Bracket]
    BY DEF Place, Bracket, Call
  <2>2. call[s] \in Call
    OBVIOUS
  <2>3. call' \in [Sessions -> Call]
    BY <2>2 DEF Place, Call
  <2> QED
    BY <2>1, <2>3 DEF Place
<1> QED
  BY <1>1, <1>2, <1>3, <1>4, <1>5, <1>6, <1>7

LEMMA ReportType ==
  ASSUME TypeOK, NEW o \in OrderIds, Report(o)
  PROVE  ExecTypeOK'
<1> USE DEF TypeOK, ExecTypeOK
<1>1. CASE BrokerFills(o) \/ BrokerRefuses(o) \/ BrokerExits(o)
  BY <1>1 DEF BrokerFills, BrokerRefuses, BrokerExits, BrokerMoves, Bracket
<1>2. CASE MarkFilled(o)
  <2>1. trades' \in [TradeIds -> Row]
    BY <1>2, StoreType DEF MarkFilled, Status, Terminal
  <2>2. broker' \in [OrderIds -> Bracket]
    BY <1>2 DEF MarkFilled, Bracket
  <2>3. DealOfOrder(o) \in Deals
    BY <1>2, ExecutorAssumption DEF MarkFilled, RowOf, DealOfOrder
  <2>4. lots' \in [Deals -> Nat]
    BY <1>2, <2>3 DEF MarkFilled
  <2> QED
    BY <1>2, <2>1, <2>2, <2>4 DEF MarkFilled
<1>3. CASE MarkExited(o)
  BY <1>3 DEF MarkExited, Bracket
<1>4. CASE MarkRejected(o)
  <2>1. trades' \in [TradeIds -> Row]
    BY <1>4, StoreType DEF MarkRejected, Status, Terminal
  <2> QED
    BY <1>4, <2>1 DEF MarkRejected, Bracket
<1> QED
  BY <1>1, <1>2, <1>3, <1>4 DEF Report

LEMMA CommitSessionType ==
  ASSUME TypeOK, CommitSession
  PROVE  sys' \in SysRow /\ stamp' \in [OrderIds -> Stamp]
BY DEF TypeOK, CommitSession, SysRow, Stamp, Locals

LEMMA NextTypeOK == TypeOK /\ [Next]_vars => TypeOK'
<1> SUFFICES ASSUME TypeOK, [Next]_vars PROVE TypeOK'
  OBVIOUS
<1>a. "cycle" \in Sessions /\ "operator" \in Sessions
  BY DEF Sessions
<1>b. UNCHANGED execVars => ExecTypeOK'
  BY DEF TypeOK, ExecTypeOK, execVars
<1>c. \A run \in Nat : NoLocals(run) \in Locals
  BY DEF NoLocals, Locals
<1>1. ASSUME NEW rows \in 1..MaxRows, StartCycle(rows) PROVE TypeOK'
  <2>1. cyc' \in Locals
    BY <1>1, OpenPositionsCounted, CycleAssumption DEF StartCycle, TypeOK, Locals, SysRow
  <2> QED
    BY <1>1, <1>b, <2>1 DEF StartCycle, TypeOK
<1>2. CASE HaltOnDailyLoss
  BY <1>2, <1>b DEF HaltOnDailyLoss, TypeOK
<1>3. CASE SkipCandidate
  BY <1>3, <1>b DEF SkipCandidate, TypeOK, Locals
<1>4. ASSUME NEW t \in TradeIds, SubmitCandidate(t) PROVE TypeOK'
  <2>1. ExecTypeOK'
    BY <1>4, <1>a, SubmitType DEF SubmitCandidate, RequiresApproval
  <2>2. cyc.left - 1 \in Nat
    BY <1>4 DEF SubmitCandidate, TypeOK, Locals
  <2>3. cyc' \in Locals
    BY <1>4, <2>2 DEF SubmitCandidate, TypeOK, Locals
  <2> QED
    BY <1>4, <2>1, <2>3 DEF SubmitCandidate, TypeOK
<1>5. ASSUME NEW o \in OrderIds, CyclePlaces(o) PROVE TypeOK'
  <2>1. ExecTypeOK'
    BY <1>5, <1>a, SubmitType DEF CyclePlaces
  <2> QED
    BY <1>5, <2>1 DEF CyclePlaces, TypeOK, Locals, Stamp
<1>6. CASE HandleUnsent
  <2>1. ExecTypeOK'
    BY <1>6, <1>a, SubmitType DEF HandleUnsent
  <2> QED
    BY <1>6, <2>1 DEF HandleUnsent, TypeOK, Locals
<1>7. CASE HandleSubmitted
  <2>1. ExecTypeOK'
    BY <1>7, <1>a, SubmitType DEF HandleSubmitted
  <2>2. cyc.openPositions + 1 \in Nat /\ cyc.now \in Int
    BY DEF TypeOK, Locals
  <2>3. cyc' \in Locals
    BY <1>7, <2>2 DEF HandleSubmitted, TypeOK, Locals
  <2> QED
    BY <1>7, <2>1, <2>3 DEF HandleSubmitted, TypeOK
<1>8. CASE EndCycle
  BY <1>8, <1>b, <1>c, CommitSessionType DEF EndCycle, TypeOK, Locals
<1>9. CASE CycleRaises
  <2>1. ExecTypeOK'
    BY <1>9, <1>a, SubmitType DEF CycleRaises
  <2> QED
    BY <1>9, <1>c, <2>1, CommitSessionType DEF CycleRaises, TypeOK, Locals
<1>10. CASE CycleLost
  <2>1. ExecTypeOK'
    BY <1>10, <1>a, <1>b, SubmitType DEF CycleLost
  <2>2. SentBy("cycle") \subseteq TradeIds \cup {NoTrade}
    BY <1>a DEF SentBy, TypeOK, ExecTypeOK, Call
  <2> QED
    BY <1>10, <1>c, <2>1, <2>2 DEF CycleLost, TypeOK, Locals, NoLocals
<1>11. CASE Stop \/ Resume
  BY <1>11, <1>b DEF Stop, Resume, TypeOK, Stamp
<1>18. CASE ValidateTrade
  <2>1. sys.rampup + 1 \in Nat
    BY DEF TypeOK, SysRow
  <2>2. sys' \in SysRow
    BY <1>18, <2>1 DEF ValidateTrade, TypeOK, SysRow
  <2> QED
    BY <1>18, <1>b, <2>2 DEF ValidateTrade, TypeOK
<1>12. ASSUME NEW t \in TradeIds, Approve(t) PROVE TypeOK'
  BY <1>12, <1>a, SubmitType DEF Approve, TypeOK, cycleVars
<1>13. CASE OperatorSubmits
  BY <1>13, <1>a, SubmitType DEF OperatorSubmits, TypeOK, cycleVars
<1>14. CASE OperatorLost
  <2>1. ExecTypeOK'
    BY <1>14, <1>a, SubmitType DEF OperatorLost
  <2>2. SentBy("operator") \subseteq TradeIds \cup {NoTrade}
    BY <1>a DEF SentBy, TypeOK, ExecTypeOK, Call
  <2> QED
    BY <1>14, <2>1, <2>2 DEF OperatorLost, TypeOK
<1>15. CASE Broker
  BY <1>15, ReportType DEF Broker, TypeOK, cycleVars
<1>16. CASE Tick
  BY <1>16, <1>b DEF Tick, TypeOK
<1>17. CASE UNCHANGED vars
  BY <1>17, <1>b DEF vars, cycleVars, TypeOK
<1> QED
  BY <1>1, <1>2, <1>3, <1>4, <1>5, <1>6, <1>7, <1>8, <1>9, <1>10, <1>11, <1>12,
     <1>13, <1>14, <1>15, <1>16, <1>17, <1>18 DEF Next, Cycle, Operator

-----------------------------------------------------------------------------
(* The executor's part of the invariant, one lemma per operation           *)

\* A row in nobody's hands that a call takes up: without one for the cycle,
\* PENDING for the operator.
LEMMA BeginKeepsExecInv ==
  ASSUME TypeOK, ExecInv, NEW s \in Sessions, NEW t \in TradeIds, NEW a \in BOOLEAN,
         BeginSubmit(s, t, a),
         s = "cycle" => trades[t].status = "ABSENT",
         s = "operator" => trades[t].status # "ABSENT" /\ a
  PROVE  ExecInv'
<1> USE DEF TypeOK, ExecTypeOK, ExecInv, BeginSubmit
<1>1. trades[t].status = IF s = "cycle" THEN "ABSENT" ELSE "PENDING"
  BY DEF AlreadyActedOn, Terminal, Status, Row, Sessions
<1>2. CallsOwnTheirRow'
  BY <1>1 DEF CallsOwnTheirRow, Call, Placed, Sessions
<1>3. RowsNameTheirBracket' /\ BracketsHaveATrade'
  BY DEF RowsNameTheirBracket, BracketsHaveATrade, Placed
<1> QED
  BY <1>2, <1>3

\* The call's row goes from unsent to a status that names no bracket.
LEMMA UnsentKeepsExecInv ==
  ASSUME TypeOK, ExecInv, NEW s \in Sessions,
         Hold(s) \/ RejectUnresolved(s) \/ SubmitRaises(s)
  PROVE  ExecInv'
<1> USE DEF TypeOK, ExecTypeOK, ExecInv
<1>1. PICK st \in {"PENDING", "REJECTED"} :
          /\ Store(call[s].trade, st, NoOrder) \/ UNCHANGED trades
          /\ Return(s)
          /\ UNCHANGED <<broker, lots>>
          /\ call[s].pc # "idle"
  BY DEF Hold, RejectUnresolved, SubmitRaises
<1>2. call[s].trade \in TradeIds /\ trades[call[s].trade].status \in {"ABSENT", "PENDING"}
  BY <1>1 DEF CallsOwnTheirRow
<1>3. \A r \in Sessions : r # s => call'[r] = call[r]
  BY <1>1 DEF Return
<1>4. call'[s] = Idle
  BY <1>1 DEF Return
<1>5. \A r \in Sessions : call[r].pc # "idle" /\ r # s => call[r].trade # call[s].trade
  BY <1>1 DEF CallsOwnTheirRow, Sessions
<1>6. \A t \in TradeIds : t # call[s].trade => trades'[t] = trades[t]
  BY <1>1 DEF Store
<1>7. CallsOwnTheirRow'
  BY <1>1, <1>3, <1>4, <1>5, <1>6 DEF CallsOwnTheirRow, Placed, Idle
<1>8. \/ trades'[call[s].trade] = trades[call[s].trade]
      \/ trades'[call[s].trade] = [status |-> st, order |-> NoOrder]
  BY <1>1, <1>2 DEF Store
<1>9. RowsNameTheirBracket'
  BY <1>1, <1>6, <1>8 DEF RowsNameTheirBracket, Placed, Open
<1>10. BracketsHaveATrade'
  BY <1>1 DEF BracketsHaveATrade, Placed
<1> QED
  BY <1>7, <1>9, <1>10

\* The bracket is a free one, so no row and no other call names it.
LEMMA PlaceKeepsExecInv ==
  ASSUME TypeOK, ExecInv, NEW s \in Sessions, NEW o \in OrderIds, Place(s, o)
  PROVE  ExecInv'
<1> USE DEF TypeOK, ExecTypeOK, ExecInv, Place
<1>1. broker[o].state = "free"
  BY DEF IsNextOrderId
<1>2. \A p \in OrderIds : p # o => broker'[p] = broker[p]
  OBVIOUS
<1>3. /\ broker'[o].trade = call[s].trade /\ broker'[o].state = "working"
      /\ call[s].trade \in TradeIds
  BY DEF CallsOwnTheirRow
<1>4. CallsOwnTheirRow'
  BY <1>1, <1>2, <1>3 DEF CallsOwnTheirRow, Placed
<1>5. RowsNameTheirBracket'
  BY <1>1, <1>2 DEF RowsNameTheirBracket, Placed, Row
<1>6. BracketsHaveATrade'
  BY <1>2, <1>3 DEF BracketsHaveATrade, Placed
<1> QED
  BY <1>4, <1>5, <1>6

\* The row takes the bracket's id once the bracket is at IBKR.
LEMMA CommitKeepsExecInv ==
  ASSUME TypeOK, ExecInv, NEW s \in Sessions, CommitSubmitted(s)
  PROVE  ExecInv'
<1> USE DEF TypeOK, ExecTypeOK, ExecInv, CommitSubmitted
<1>1. /\ call[s].trade \in TradeIds
      /\ call[s].order \in OrderIds /\ call[s].order # NoOrder
      /\ broker[call[s].order].trade = call[s].trade
      /\ Placed(call[s].order)
  BY ExecutorAssumption DEF CallsOwnTheirRow, NoOrder
<1>2. \A r \in Sessions : r # s => call'[r] = call[r]
  BY DEF Return
<1>3. call'[s] = Idle
  BY DEF Return
<1>4. \A r \in Sessions : call[r].pc # "idle" /\ r # s => call[r].trade # call[s].trade
  BY DEF CallsOwnTheirRow, Sessions
<1>5. \A t \in TradeIds : t # call[s].trade => trades'[t] = trades[t]
  BY DEF Store
<1>6. trades'[call[s].trade] = [status |-> "SUBMITTED", order |-> call[s].order]
  BY <1>1 DEF Store
<1>7. CallsOwnTheirRow'
  BY <1>2, <1>3, <1>4, <1>5 DEF CallsOwnTheirRow, Placed, Idle
<1>8. RowsNameTheirBracket'
  BY <1>1, <1>5, <1>6 DEF RowsNameTheirBracket, Placed
<1>9. BracketsHaveATrade'
  BY DEF BracketsHaveATrade, Placed
<1> QED
  BY <1>7, <1>8, <1>9

LEMMA LoseKeepsExecInv ==
  ASSUME TypeOK, ExecInv, NEW s \in Sessions, Lose(s)
  PROVE  ExecInv'
<1> USE DEF TypeOK, ExecTypeOK, ExecInv, Lose
<1>1. CallsOwnTheirRow'
  BY DEF Return, CallsOwnTheirRow, Placed, Idle
<1>2. RowsNameTheirBracket' /\ BracketsHaveATrade'
  BY DEF RowsNameTheirBracket, BracketsHaveATrade, Placed
<1> QED
  BY <1>1, <1>2

\* A report is booked on the row that names the bracket: a SUBMITTED row.
LEMMA ReportKeepsExecInv ==
  ASSUME TypeOK, ExecInv, NEW o \in OrderIds, Report(o)
  PROVE  ExecInv'
<1> USE DEF TypeOK, ExecTypeOK, ExecInv
<1>1. /\ call' = call
      /\ \A p \in OrderIds : p # o => broker'[p] = broker[p]
      /\ broker'[o].trade = broker[o].trade
      /\ Placed(o) /\ broker'[o].state # "free"
      /\ broker'[o].booked = "none" => broker[o].booked = "none"
      /\ broker[o].state \in {"holding", "exited"} => broker'[o].state \in {"holding", "exited"}
  BY DEF Report, BrokerFills, BrokerRefuses, BrokerExits, BrokerMoves, MarkFilled,
         MarkExited, MarkRejected, Placed, Bracket
<1>a. \A u \in TradeIds :
          /\ trades[u].order # NoOrder => trades[u].order \in OrderIds
          /\ trades[u].status = "FILLED" => trades[u].order # NoOrder
  BY DEF Row, RowsNameTheirBracket, Open
<1>2. CASE UNCHANGED trades
  <2>1. CallsOwnTheirRow'
    BY <1>1, <1>2 DEF CallsOwnTheirRow, Placed
  <2>2. RowsNameTheirBracket'
    BY <1>1, <1>a, <1>2 DEF RowsNameTheirBracket, Placed
  <2>3. BracketsHaveATrade'
    BY <1>1 DEF BracketsHaveATrade, Placed
  <2> QED
    BY <2>1, <2>2, <2>3
<1>3. CASE MarkFilled(o) \/ MarkRejected(o)
  <2> DEFINE t == broker[o].trade
  <2>1. /\ t \in TradeIds /\ trades[t].order = o /\ trades[t].status = "SUBMITTED"
        /\ o # NoOrder
    BY <1>3, ExecutorAssumption
       DEF MarkFilled, MarkRejected, RowOf, RowsNameTheirBracket, NoOrder
  <2>2. \A u \in TradeIds : u # t => trades'[u] = trades[u]
    BY <1>3 DEF MarkFilled, MarkRejected, Store
  <2>3. /\ trades'[t].order = o /\ broker'[o].booked # "none"
        /\ \/ trades'[t].status = "REJECTED"
           \/ trades'[t].status = "FILLED" /\ broker'[o].state \in {"holding", "exited"}
    BY <1>3, <2>1 DEF MarkFilled, MarkRejected, Store, Bracket
  <2>4. CallsOwnTheirRow'
    BY <1>1, <2>1, <2>2 DEF CallsOwnTheirRow, Placed
  <2>5. RowsNameTheirBracket'
    BY <1>1, <1>a, <2>1, <2>2, <2>3 DEF RowsNameTheirBracket, Placed, Open
  <2>6. BracketsHaveATrade'
    BY <1>1 DEF BracketsHaveATrade, Placed
  <2> QED
    BY <2>4, <2>5, <2>6
<1> QED
  BY <1>2, <1>3
     DEF Report, BrokerFills, BrokerRefuses, BrokerExits, BrokerMoves, MarkExited

LEMMA StutterKeepsExecInv ==
  ASSUME ExecInv, UNCHANGED execVars
  PROVE  ExecInv'
BY DEF ExecInv, execVars, CallsOwnTheirRow, RowsNameTheirBracket, BracketsHaveATrade, Placed

\* What the executor's steps are, whoever takes them.
ExecStep ==
    /\ lost \subseteq lost'
    /\ \/ \E s \in Sessions :
             \/ \E t \in TradeIds, a \in BOOLEAN :
                   /\ BeginSubmit(s, t, a)
                   /\ s = "cycle" => trades[t].status = "ABSENT"
                   /\ s = "operator" => trades[t].status # "ABSENT" /\ a
             \/ Hold(s) \/ RejectUnresolved(s) \/ SubmitRaises(s)
             \/ \E o \in OrderIds : Place(s, o)
             \/ CommitSubmitted(s)
             \/ Lose(s) /\ lost' = lost \cup SentBy(s)
       \/ \E o \in OrderIds : Report(o)
       \/ UNCHANGED execVars

LEMMA NextIsExecStep == TypeOK /\ [Next]_vars => ExecStep
<1> SUFFICES ASSUME TypeOK, [Next]_vars PROVE ExecStep
  OBVIOUS
<1>1. "cycle" \in Sessions /\ "operator" \in Sessions
  BY DEF Sessions
<1>2. CASE \E t \in TradeIds : SubmitCandidate(t)
  BY <1>1, <1>2 DEF SubmitCandidate, MaySubmit, Fresh, ExecStep, RequiresApproval
<1>3. CASE \/ HandleUnsent \/ HandleSubmitted \/ CycleRaises
           \/ \E o \in OrderIds : CyclePlaces(o)
  BY <1>1, <1>3 DEF HandleUnsent, HandleSubmitted, CycleRaises, CyclePlaces, ExecStep
<1>4. CASE \/ \E t \in TradeIds : Approve(t)
           \/ OperatorSubmits
  BY <1>1, <1>4 DEF Approve, OperatorSubmits, cycleVars, ExecStep
<1>5. CASE CycleLost \/ OperatorLost
  BY <1>1, <1>5 DEF CycleLost, OperatorLost, ExecStep
<1>6. CASE Broker
  BY <1>6 DEF Broker, cycleVars, ExecStep
<1>7. CASE \/ \E rows \in 1..MaxRows : StartCycle(rows)
           \/ HaltOnDailyLoss \/ SkipCandidate \/ EndCycle
           \/ Stop \/ Resume \/ ValidateTrade \/ Tick \/ UNCHANGED vars
  BY <1>7 DEF StartCycle, HaltOnDailyLoss, SkipCandidate, EndCycle, Stop, Resume,
              ValidateTrade, Tick, vars, cycleVars, ExecStep
<1> QED
  BY <1>2, <1>3, <1>4, <1>5, <1>6, <1>7 DEF Next, Cycle, Operator

LEMMA StepKeepsExecInv == TypeOK /\ ExecInv /\ ExecStep => ExecInv'
BY BeginKeepsExecInv, UnsentKeepsExecInv, PlaceKeepsExecInv, CommitKeepsExecInv,
   LoseKeepsExecInv, ReportKeepsExecInv, StutterKeepsExecInv DEF ExecStep

-----------------------------------------------------------------------------
(* Brackets nobody knows of                                                *)

\* A known bracket stays known: rows keep the bracket they name, a commit
\* hands the bracket of the call to the row, and only a loss forgets it.
LEMMA StepKeepsOrphans ==
  ASSUME TypeOK, ExecInv, OrphanOnlyAfterLoss, ExecStep
  PROVE  OrphanOnlyAfterLoss'
<1> DEFINE Known(o) == \/ trades[broker[o].trade].order = o
                       \/ \E s \in Sessions : call[s].pc = "sent" /\ call[s].order = o
                       \/ broker[o].trade \in lost
<1> SUFFICES ASSUME NEW o \in OrderIds, Placed(o)' PROVE Known(o)'
  BY DEF OrphanOnlyAfterLoss
<1> USE DEF TypeOK, ExecTypeOK, ExecInv
<1>a. o # NoOrder
  BY ExecutorAssumption DEF NoOrder
<1>1. CASE \E s \in Sessions, p \in OrderIds : Place(s, p)
  <2> PICK s \in Sessions, p \in OrderIds : Place(s, p)
    BY <1>1
  <2>1. CASE o = p
    BY <2>1 DEF Place
  <2>2. CASE o # p
    <3>1. Placed(o) /\ broker'[o] = broker[o]
      BY <2>2 DEF Place, Placed
    <3>2. Known(o)
      BY <3>1 DEF OrphanOnlyAfterLoss
    <3>3. call[s].pc # "sent" /\ \A r \in Sessions : r # s => call'[r] = call[r]
      BY DEF Place
    <3> QED
      BY <3>1, <3>2, <3>3 DEF Place, ExecStep
  <2> QED
    BY <2>1, <2>2
<1>2. CASE \E p \in OrderIds : Report(p)
  <2> PICK p \in OrderIds : Report(p)
    BY <1>2
  <2>1. Placed(o) /\ broker'[o].trade = broker[o].trade /\ call' = call
    BY DEF Report, BrokerFills, BrokerRefuses, BrokerExits, BrokerMoves, MarkFilled,
           MarkExited, MarkRejected, Placed, Bracket
  <2>2. \A t \in TradeIds : trades'[t].order = trades[t].order
    BY DEF Report, BrokerFills, BrokerRefuses, BrokerExits, BrokerMoves, MarkFilled,
           MarkExited, MarkRejected, Store, RowOf
  <2>3. Known(o)
    BY <2>1 DEF OrphanOnlyAfterLoss
  <2>4. broker[o].trade \in TradeIds
    BY <2>1 DEF BracketsHaveATrade
  <2> QED
    BY <2>1, <2>2, <2>3, <2>4 DEF ExecStep
<1>3. CASE UNCHANGED broker
  <2>1. Placed(o) /\ broker[o].trade \in TradeIds /\ Known(o)
    BY <1>3 DEF Placed, BracketsHaveATrade, OrphanOnlyAfterLoss
  <2>2. CASE \E s \in Sessions, t \in TradeIds, a \in BOOLEAN : BeginSubmit(s, t, a)
    <3> PICK s \in Sessions, t \in TradeIds, a \in BOOLEAN : BeginSubmit(s, t, a)
      BY <2>2
    <3>1. call[s].pc # "sent" /\ \A r \in Sessions : r # s => call'[r] = call[r]
      BY DEF BeginSubmit, Idle
    <3> QED
      BY <1>3, <2>1, <3>1 DEF BeginSubmit, ExecStep
  <2>3. CASE \E s \in Sessions : Hold(s) \/ RejectUnresolved(s) \/ SubmitRaises(s)
    <3> PICK s \in Sessions : Hold(s) \/ RejectUnresolved(s) \/ SubmitRaises(s)
      BY <2>3
    <3>1. call[s].pc \notin {"idle", "sent"} /\ \A r \in Sessions : r # s => call'[r] = call[r]
      BY DEF Hold, RejectUnresolved, SubmitRaises, Return
    <3>2. trades[call[s].trade].order = NoOrder
      BY <3>1 DEF CallsOwnTheirRow, RowsNameTheirBracket
    <3>3. \A t \in TradeIds : trades'[t].order = trades[t].order
      BY <3>2 DEF Hold, RejectUnresolved, SubmitRaises, Store
    <3> QED
      BY <1>3, <2>1, <3>1, <3>3 DEF ExecStep
  <2>4. CASE \E s \in Sessions : CommitSubmitted(s)
    <3> PICK s \in Sessions : CommitSubmitted(s)
      BY <2>4
    <3>1. /\ \A r \in Sessions : r # s => call'[r] = call[r]
          /\ call[s].trade \in TradeIds
          /\ trades[call[s].trade].order = NoOrder
          /\ broker[call[s].order].trade = call[s].trade
      BY DEF CommitSubmitted, Return, CallsOwnTheirRow, RowsNameTheirBracket
    <3>2. /\ \A t \in TradeIds \ {call[s].trade} : trades'[t] = trades[t]
          /\ trades'[call[s].trade].order = call[s].order
      BY <3>1 DEF CommitSubmitted, Store
    <3>3. CASE trades[broker[o].trade].order = o
      BY <1>3, <1>a, <2>1, <3>1, <3>2, <3>3
    <3>4. CASE call[s].order = o
      BY <1>3, <3>1, <3>2, <3>4
    <3>5. CASE \E r \in Sessions \ {s} : call[r].pc = "sent" /\ call[r].order = o
      BY <3>1, <3>5
    <3>6. CASE broker[o].trade \in lost
      BY <1>3, <3>6 DEF ExecStep
    <3> QED
      BY <2>1, <3>3, <3>4, <3>5, <3>6
  <2>5. CASE \E s \in Sessions : Lose(s) /\ lost' = lost \cup SentBy(s)
    <3> PICK s \in Sessions : Lose(s) /\ lost' = lost \cup SentBy(s)
      BY <2>5
    <3>1. UNCHANGED trades /\ \A r \in Sessions : r # s => call'[r] = call[r]
      BY DEF Lose, Return
    <3>2. call[s].pc = "sent" => call[s].trade \in lost'
      BY DEF SentBy
    <3>3. call[s].pc = "sent" /\ call[s].order = o => broker[o].trade \in lost'
      BY <3>2 DEF CallsOwnTheirRow
    <3> QED
      BY <1>3, <2>1, <3>1, <3>3
  <2>6. CASE UNCHANGED execVars
    BY <1>3, <2>1, <2>6 DEF execVars, ExecStep
  <2> QED
    BY <1>1, <1>2, <2>2, <2>3, <2>4, <2>5, <2>6 DEF ExecStep
<1> QED
  BY <1>1, <1>2, <1>3
     DEF ExecStep, BeginSubmit, Hold, RejectUnresolved, SubmitRaises, CommitSubmitted,
         Lose, execVars

-----------------------------------------------------------------------------
(* The cycle's part of the invariant, one lemma per action of the cycle    *)

CycleProps == CycleInv /\ RampUpGate /\ OneOrderPerCycle /\ CooldownHolds

\* What others may do while a cycle runs: the counters only grow, the cycle's
\* orders and its submit() are not theirs, and a raised flag marks no order.
LEMMA QuietKeepsCycleProps ==
  ASSUME TypeOK, TypeOK', CycleProps,
         cyc' = cyc, call'["cycle"] = call["cycle"],
         sys'.lastOrder = sys.lastOrder, sys'.rampup >= sys.rampup,
         \A o \in OrderIds :
            /\ PlacedByCycle(o)' => PlacedByCycle(o)
            /\ stamp'[o].run = stamp[o].run /\ stamp'[o].now = stamp[o].now
            /\ stamp'[o].kept = stamp[o].kept
            /\ PlacedByCycle(o) /\ stamp'[o].killed => stamp[o].killed /\ kill'
  PROVE  CycleProps'
<1> USE DEF TypeOK, Locals, SysRow, Stamp, CycleProps, CycleInv
<1>1. CycleInStep' /\ OrderStartsCooldown'
  BY DEF CycleInStep, OrderStartsCooldown
<1>2. CountersAgree'
  BY CycleAssumption DEF CountersAgree, CooldownActive, RequiresApproval
<1>3. KeptOrdersCount' /\ KilledOrderIsOfThisRun'
  BY DEF KeptOrdersCount, KilledOrderIsOfThisRun
<1>4. RampUpGate'
  BY CycleAssumption DEF RampUpGate, RequiresApproval
<1>5. OneOrderPerCycle' /\ CooldownHolds'
  BY DEF OneOrderPerCycle, CooldownHolds
<1> QED
  BY <1>1, <1>2, <1>3, <1>4, <1>5

\* A new run has no order yet, and no flag is up.
LEMMA StartKeepsCycleProps ==
  ASSUME TypeOK, CycleProps, NEW rows \in 1..MaxRows, StartCycle(rows)
  PROVE  CycleProps'
<1> USE DEF TypeOK, Locals, SysRow, Stamp, CycleProps, CycleInv, StartCycle, MayStart
<1>1. UNCHANGED <<trades, call, broker, lots>>
  BY DEF execVars
<1>2. \A o \in OrderIds : PlacedByCycle(o)' = PlacedByCycle(o)
  BY <1>1 DEF PlacedByCycle, Placed
<1>3. CycleInStep' /\ OrderStartsCooldown'
  BY <1>1, <1>2 DEF CycleInStep, OrderStartsCooldown
<1>4. CountersAgree'
  BY <1>1 DEF CountersAgree, CycleInStep
<1>5. KeptOrdersCount' /\ KilledOrderIsOfThisRun'
  BY <1>2 DEF KeptOrdersCount, KilledOrderIsOfThisRun
<1>6. RampUpGate' /\ OneOrderPerCycle' /\ CooldownHolds'
  BY <1>2 DEF RampUpGate, OneOrderPerCycle, CooldownHolds
<1> QED
  BY <1>3, <1>4, <1>5, <1>6

LEMMA SkipKeepsCycleProps ==
  ASSUME TypeOK, CycleProps, SkipCandidate
  PROVE  CycleProps'
<1> USE DEF TypeOK, Locals, SysRow, Stamp, CycleProps, CycleInv, SkipCandidate
<1>1. UNCHANGED <<trades, call, broker, lots>>
  BY DEF execVars
<1>2. \A o \in OrderIds : PlacedByCycle(o)' = PlacedByCycle(o)
  BY <1>1 DEF PlacedByCycle, Placed
<1>3. /\ cyc'.pc = cyc.pc /\ cyc'.run = cyc.run /\ cyc'.now = cyc.now
      /\ cyc'.rampup = cyc.rampup /\ cyc'.lastOrder = cyc.lastOrder
  OBVIOUS
<1>4. CycleInStep' /\ OrderStartsCooldown'
  BY <1>1, <1>2, <1>3 DEF CycleInStep, OrderStartsCooldown
<1>5. CountersAgree'
  BY <1>1, <1>3 DEF CountersAgree, CooldownActive, RequiresApproval
<1>6. KeptOrdersCount' /\ KilledOrderIsOfThisRun'
  BY <1>2, <1>3 DEF KeptOrdersCount, KilledOrderIsOfThisRun
<1>7. RampUpGate' /\ OneOrderPerCycle' /\ CooldownHolds'
  BY <1>2 DEF RampUpGate, OneOrderPerCycle, CooldownHolds
<1> QED
  BY <1>4, <1>5, <1>6, <1>7

\* The cooldown is over, so this run has placed nothing.
LEMMA NothingPlacedYet ==
  ASSUME TypeOK, CycleProps, cyc.pc = "loop", ~CooldownActive(cyc.lastOrder, cyc.now)
  PROVE  \A o \in OrderIds : PlacedByCycle(o) => stamp[o].run # cyc.run
<1>1. ~CooldownActive(cyc.now, cyc.now) => FALSE
  BY CycleAssumption DEF CooldownActive, TypeOK, Locals
<1> QED
  BY <1>1 DEF CycleProps, CycleInv, OrderStartsCooldown

LEMMA SubmitKeepsCycleProps ==
  ASSUME TypeOK, CycleProps, NEW t \in TradeIds, SubmitCandidate(t)
  PROVE  CycleProps'
<1> USE DEF TypeOK, ExecTypeOK, Locals, SysRow, Stamp, CycleProps, CycleInv
<1>1. /\ cyc.pc = "loop" /\ ~CooldownActive(cyc.lastOrder, cyc.now)
      /\ BeginSubmit("cycle", t, ~RequiresApproval(cyc.rampup))
      /\ cyc' = [cyc EXCEPT !.pc = "submit", !.left = @ - 1]
      /\ UNCHANGED <<kill, clock, sys, stamp, lost>>
  BY DEF SubmitCandidate, MaySubmit
<1>2. \A o \in OrderIds : PlacedByCycle(o)' = PlacedByCycle(o)
  BY <1>1 DEF BeginSubmit, PlacedByCycle, Placed
<1>3. /\ cyc'.pc = "submit" /\ cyc'.run = cyc.run /\ cyc'.now = cyc.now
      /\ cyc'.rampup = cyc.rampup /\ cyc'.lastOrder = cyc.lastOrder
  BY <1>1
<1>4. call'["cycle"].pc = IF ~RequiresApproval(cyc.rampup) THEN "qualify" ELSE "hold"
  BY <1>1 DEF BeginSubmit, Sessions
<1>5. CycleInStep' /\ OrderStartsCooldown'
  BY <1>1, <1>2, <1>3, <1>4, NothingPlacedYet DEF CycleInStep, OrderStartsCooldown
<1>6. CountersAgree'
  BY <1>1, <1>3, <1>4 DEF CountersAgree, CooldownActive, RequiresApproval
<1>7. KeptOrdersCount' /\ KilledOrderIsOfThisRun'
  BY <1>1, <1>2, <1>3 DEF KeptOrdersCount, KilledOrderIsOfThisRun
<1>8. RampUpGate' /\ OneOrderPerCycle' /\ CooldownHolds'
  BY <1>1, <1>2 DEF RampUpGate, OneOrderPerCycle, CooldownHolds, RequiresApproval
<1> QED
  BY <1>5, <1>6, <1>7, <1>8

\* A submit() that ends unsent leaves the run without an order.
LEMMA UnsentKeepsCycleProps ==
  ASSUME TypeOK, CycleProps, HandleUnsent
  PROVE  CycleProps'
<1> USE DEF TypeOK, ExecTypeOK, Locals, SysRow, Stamp, CycleProps, CycleInv, HandleUnsent
<1>1. /\ call["cycle"].pc \in {"hold", "qualify"} /\ call'["cycle"] = Idle
      /\ broker' = broker
  BY DEF Hold, RejectUnresolved, Return, Sessions
<1>2. \A o \in OrderIds : PlacedByCycle(o)' = PlacedByCycle(o)
  BY <1>1 DEF PlacedByCycle, Placed
<1>3. /\ cyc'.pc = "loop" /\ cyc'.run = cyc.run /\ cyc'.now = cyc.now
      /\ cyc'.rampup = cyc.rampup /\ cyc'.lastOrder = cyc.lastOrder
  OBVIOUS
<1>4. CycleInStep' /\ OrderStartsCooldown'
  BY <1>1, <1>2, <1>3 DEF CycleInStep, OrderStartsCooldown, Idle
<1>5. CountersAgree'
  BY <1>1, <1>3 DEF CountersAgree, Idle
<1>6. KeptOrdersCount' /\ KilledOrderIsOfThisRun'
  BY <1>2, <1>3 DEF KeptOrdersCount, KilledOrderIsOfThisRun
<1>7. RampUpGate' /\ OneOrderPerCycle' /\ CooldownHolds'
  BY <1>2 DEF RampUpGate, OneOrderPerCycle, CooldownHolds, RequiresApproval
<1> QED
  BY <1>4, <1>5, <1>6, <1>7

\* The one step that sends an order for the cycle: the run has none yet, the
\* kept orders of earlier runs are a cooldown away, and nobody need approve.
LEMMA PlaceKeepsCycleProps ==
  ASSUME TypeOK, CycleProps, NEW o \in OrderIds, CyclePlaces(o)
  PROVE  CycleProps'
<1> USE DEF TypeOK, ExecTypeOK, Locals, SysRow, Stamp, CycleProps, CycleInv
<1>1. /\ cyc.pc = "submit" /\ call["cycle"].pc = "qualify" /\ call'["cycle"].pc = "sent"
      /\ UNCHANGED <<kill, clock, sys, cyc, lost>>
  BY DEF CyclePlaces, Place, Sessions
<1>2. \A p \in OrderIds \ {o} : PlacedByCycle(p)' = PlacedByCycle(p) /\ stamp'[p] = stamp[p]
  BY DEF CyclePlaces, Place, PlacedByCycle, Placed
<1>3. stamp'[o] = [run |-> cyc.run, now |-> cyc.now, killed |-> kill, kept |-> FALSE]
  BY DEF CyclePlaces
<1>4. \A p \in OrderIds : PlacedByCycle(p) => stamp[p].run < cyc.run
  <2> SUFFICES ASSUME NEW p \in OrderIds, PlacedByCycle(p) PROVE stamp[p].run < cyc.run
    OBVIOUS
  <2>1. stamp[p].run <= cyc.run /\ stamp[p].run # cyc.run
    BY <1>1 DEF OrderStartsCooldown
  <2>2. stamp[p].run \in Nat /\ cyc.run \in Nat
    OBVIOUS
  <2>3. \A a, b \in Nat : a <= b /\ a # b => a < b
    OBVIOUS
  <2> HIDE DEF TypeOK
  <2> QED
    BY <2>1, <2>2, <2>3
<1>5. CycleInStep' /\ OrderStartsCooldown'
  BY <1>1, <1>2, <1>3, <1>4 DEF CycleInStep, OrderStartsCooldown
<1>6. CountersAgree'
  BY <1>1 DEF CountersAgree, CooldownActive, RequiresApproval
<1>7. KeptOrdersCount'
  BY <1>1, <1>2, <1>3 DEF KeptOrdersCount
<1>14. KilledOrderIsOfThisRun'
  BY <1>1, <1>2, <1>3 DEF KilledOrderIsOfThisRun
<1>8. sys.rampup >= RampUpRequired
  <2>1. cyc.rampup <= sys.rampup /\ ~(cyc.rampup < RampUpRequired)
    BY <1>1 DEF CountersAgree, RequiresApproval
  <2> QED
    BY <2>1, CycleAssumption
<1>9. RampUpGate'
  BY <1>1, <1>8 DEF RampUpGate
<1>10. OneOrderPerCycle'
  BY <1>2, <1>3, <1>4 DEF OneOrderPerCycle
<1>11. \A p \in OrderIds : PlacedByCycle(p) /\ stamp[p].kept => cyc.now - stamp[p].now >= Cooldown
  <2>1. cyc.now - cyc.lastOrder >= Cooldown /\ cyc.lastOrder >= sys.lastOrder
    BY <1>1, CycleAssumption DEF CountersAgree, CooldownActive
  <2> QED
    BY <2>1, CycleAssumption DEF KeptOrdersCount
<1>12. CooldownHolds'
  BY <1>2, <1>3, <1>4, <1>11 DEF CooldownHolds
<1> QED
  BY <1>5, <1>6, <1>7, <1>9, <1>10, <1>12, <1>14

\* The order's run is this one, and its cooldown starts.
LEMMA SubmittedKeepsCycleProps ==
  ASSUME TypeOK, CycleProps, HandleSubmitted
  PROVE  CycleProps'
<1> USE DEF TypeOK, ExecTypeOK, Locals, SysRow, Stamp, CycleProps, CycleInv, HandleSubmitted
<1>1. /\ call["cycle"].pc = "sent" /\ call'["cycle"] = Idle
      /\ broker' = broker
  BY DEF CommitSubmitted, Return, Sessions
<1>2. \A o \in OrderIds : PlacedByCycle(o)' = PlacedByCycle(o)
  BY <1>1 DEF PlacedByCycle, Placed
<1>3. /\ cyc'.pc = "loop" /\ cyc'.run = cyc.run /\ cyc'.now = cyc.now
      /\ cyc'.rampup = cyc.rampup /\ cyc'.lastOrder = cyc.now
  OBVIOUS
<1>4. CycleInStep' /\ OrderStartsCooldown'
  BY <1>1, <1>2, <1>3 DEF CycleInStep, OrderStartsCooldown, Idle
<1>5. cyc.now >= cyc.lastOrder
  BY <1>1, CycleAssumption DEF CountersAgree, CooldownActive
<1>6. CountersAgree'
  BY <1>1, <1>3, <1>5 DEF CountersAgree, Idle
<1>7. KeptOrdersCount' /\ KilledOrderIsOfThisRun'
  BY <1>2, <1>3 DEF KeptOrdersCount, KilledOrderIsOfThisRun
<1>8. RampUpGate' /\ OneOrderPerCycle' /\ CooldownHolds'
  BY <1>2 DEF RampUpGate, OneOrderPerCycle, CooldownHolds, RequiresApproval
<1> QED
  BY <1>4, <1>6, <1>7, <1>8

\* The final commit: the last order becomes durable, and is no older than the
\* orders of this run.
LEMMA CommitKeepsCycleProps ==
  ASSUME TypeOK, TypeOK', CycleProps, CommitSession,
         cyc.pc # "idle", cyc' = NoLocals(cyc.run), call'["cycle"].pc = "idle",
         kill' = kill, broker' = broker,
         cyc.pc = "submit" => call["cycle"].pc # "sent"
  PROVE  CycleProps'
<1> USE DEF TypeOK, ExecTypeOK, Locals, SysRow, Stamp, CycleProps, CycleInv
<1>1. \A o \in OrderIds : PlacedByCycle(o)' = PlacedByCycle(o)
  BY DEF PlacedByCycle, Placed
<1>2. /\ sys'.lastOrder = cyc.lastOrder /\ sys'.rampup = sys.rampup
      /\ cyc.lastOrder >= sys.lastOrder
  BY DEF CommitSession, CountersAgree
<1>3. \A o \in OrderIds :
         /\ stamp'[o].run = stamp[o].run /\ stamp'[o].now = stamp[o].now
         /\ stamp'[o].killed = stamp[o].killed
         /\ stamp'[o].kept => stamp[o].kept \/ stamp[o].run = cyc.run
  BY DEF CommitSession
<1>4. \A o \in OrderIds :
         PlacedByCycle(o) => /\ stamp[o].run <= cyc.run
                             /\ stamp[o].run = cyc.run => stamp[o].now = cyc.lastOrder
  BY DEF OrderStartsCooldown
<1>5. CycleInStep' /\ OrderStartsCooldown'
  BY <1>1, <1>3, <1>4 DEF CycleInStep, OrderStartsCooldown, NoLocals, Idle
<1>6. CountersAgree'
  BY DEF CountersAgree, NoLocals, Idle
<1>7. KeptOrdersCount'
  BY <1>1, <1>2, <1>3, <1>4 DEF KeptOrdersCount
<1>8. KilledOrderIsOfThisRun'
  BY <1>1, <1>3 DEF KilledOrderIsOfThisRun, NoLocals
<1>9. RampUpGate' /\ OneOrderPerCycle'
  BY <1>1, <1>2, <1>3 DEF RampUpGate, OneOrderPerCycle, RequiresApproval
<1>10. CooldownHolds'
  BY <1>1, <1>3, <1>4 DEF CooldownHolds
<1> QED
  BY <1>5, <1>6, <1>7, <1>8, <1>9, <1>10

\* A lost cycle leaves nothing behind but the orders it placed.
LEMMA LostKeepsCycleProps ==
  ASSUME TypeOK, CycleProps, CycleLost
  PROVE  CycleProps'
<1> USE DEF TypeOK, ExecTypeOK, Locals, SysRow, Stamp, CycleProps, CycleInv
<1>1. /\ broker' = broker /\ call'["cycle"].pc = "idle"
      /\ cyc' = NoLocals(cyc.run)
      /\ UNCHANGED <<kill, clock, sys, stamp>>
  BY DEF CycleLost, Lose, Return, Idle, execVars, CycleInStep, Sessions
<1>2. \A o \in OrderIds : PlacedByCycle(o)' = PlacedByCycle(o)
  BY <1>1 DEF PlacedByCycle, Placed
<1>3. CycleInStep' /\ OrderStartsCooldown' /\ CountersAgree'
  BY <1>1, <1>2 DEF CycleInStep, OrderStartsCooldown, CountersAgree, NoLocals
<1>4. KeptOrdersCount' /\ KilledOrderIsOfThisRun'
  BY <1>1, <1>2 DEF KeptOrdersCount, KilledOrderIsOfThisRun, NoLocals
<1>5. RampUpGate' /\ OneOrderPerCycle' /\ CooldownHolds'
  BY <1>1, <1>2 DEF RampUpGate, OneOrderPerCycle, CooldownHolds, RequiresApproval
<1> QED
  BY <1>3, <1>4, <1>5

LEMMA NextKeepsCycleProps ==
  ASSUME TypeOK, TypeOK', CycleProps, [Next]_vars
  PROVE  CycleProps'
<1> USE DEF TypeOK, ExecTypeOK
<1>1. CASE \E rows \in 1..MaxRows : StartCycle(rows)
  BY <1>1, StartKeepsCycleProps
<1>2. CASE SkipCandidate
  BY <1>2, SkipKeepsCycleProps
<1>3. CASE \E t \in TradeIds : SubmitCandidate(t)
  BY <1>3, SubmitKeepsCycleProps
<1>4. CASE HandleUnsent
  BY <1>4, UnsentKeepsCycleProps
<1>5. CASE \E o \in OrderIds : CyclePlaces(o)
  BY <1>5, PlaceKeepsCycleProps
<1>6. CASE HandleSubmitted
  BY <1>6, SubmittedKeepsCycleProps
<1>7. CASE EndCycle
  <2>1. /\ cyc.pc = "loop" /\ CommitSession /\ cyc' = NoLocals(cyc.run)
        /\ UNCHANGED <<trades, call, broker, lots, kill>>
    BY <1>7 DEF EndCycle, execVars
  <2>2. call'["cycle"].pc = "idle"
    BY <2>1 DEF CycleProps, CycleInv, CycleInStep, OrderStartsCooldown
  <2> QED
    BY <2>1, <2>2, CommitKeepsCycleProps
<1>8. CASE CycleRaises
  <2>1. /\ cyc.pc = "submit" /\ CommitSession /\ cyc' = NoLocals(cyc.run)
        /\ call'["cycle"].pc = "idle" /\ call["cycle"].pc = "qualify"
        /\ UNCHANGED <<broker, kill>>
    BY <1>8 DEF CycleRaises, SubmitRaises, Return, Sessions, Idle
  <2> QED
    BY <2>1, CommitKeepsCycleProps
<1>9. CASE CycleLost
  BY <1>9, LostKeepsCycleProps
<1>10. CASE \/ HaltOnDailyLoss \/ Stop \/ Resume \/ ValidateTrade \/ Tick \/ UNCHANGED vars
  <2>1. /\ cyc' = cyc /\ call' = call /\ broker' = broker
        /\ sys'.lastOrder = sys.lastOrder /\ sys'.rampup >= sys.rampup
    BY <1>10 DEF HaltOnDailyLoss, Stop, Resume, ValidateTrade, Tick, vars, cycleVars, execVars,
                 SysRow
  <2>2. \A o \in OrderIds : PlacedByCycle(o)' => PlacedByCycle(o)
    BY <2>1 DEF PlacedByCycle, Placed
  <2>3. \A o \in OrderIds :
            /\ stamp'[o].run = stamp[o].run /\ stamp'[o].now = stamp[o].now
            /\ stamp'[o].kept = stamp[o].kept
    BY <1>10 DEF HaltOnDailyLoss, Stop, Resume, ValidateTrade, Tick, vars, cycleVars, Stamp
  <2>4. \A o \in OrderIds : PlacedByCycle(o) /\ stamp'[o].killed => stamp[o].killed /\ kill'
    BY <1>10 DEF HaltOnDailyLoss, Stop, Resume, ValidateTrade, Tick, vars, cycleVars, Stamp,
                 CycleProps, CycleInv, KilledOrderIsOfThisRun
  <2> QED
    BY <2>1, <2>2, <2>3, <2>4, QuietKeepsCycleProps
<1>11. CASE \/ \E t \in TradeIds : Approve(t)
            \/ OperatorSubmits \/ OperatorLost
  <2>1. /\ cyc' = cyc /\ sys' = sys /\ stamp' = stamp /\ kill' = kill
    BY <1>11 DEF Approve, OperatorSubmits, OperatorLost, cycleVars
  <2>2. call'["cycle"] = call["cycle"]
    BY <1>11 DEF Approve, OperatorSubmits, OperatorLost, BeginSubmit, Place, RejectUnresolved,
                 SubmitRaises, CommitSubmitted, Lose, Return, Sessions
  <2>3. \A o \in OrderIds : PlacedByCycle(o)' => PlacedByCycle(o)
    BY <1>11 DEF Approve, OperatorSubmits, OperatorLost, BeginSubmit, Place, RejectUnresolved,
                 SubmitRaises, CommitSubmitted, Lose, PlacedByCycle, Placed
  <2> QED
    BY <2>1, <2>2, <2>3, QuietKeepsCycleProps DEF CycleProps, CycleInv, KilledOrderIsOfThisRun, SysRow
<1>12. CASE Broker
  <2>1. /\ cyc' = cyc /\ sys' = sys /\ stamp' = stamp /\ kill' = kill /\ call' = call
    BY <1>12 DEF Broker, cycleVars, Report, BrokerFills, BrokerRefuses, BrokerExits, BrokerMoves,
                 MarkFilled, MarkExited, MarkRejected
  <2>2. \A o \in OrderIds : PlacedByCycle(o)' => PlacedByCycle(o)
    BY <1>12 DEF Broker, Report, BrokerFills, BrokerRefuses, BrokerExits, BrokerMoves,
                 MarkFilled, MarkExited, MarkRejected, PlacedByCycle, Placed, Bracket
  <2> QED
    BY <2>1, <2>2, QuietKeepsCycleProps DEF CycleProps, CycleInv, KilledOrderIsOfThisRun, SysRow
<1> QED
  BY <1>1, <1>2, <1>3, <1>4, <1>5, <1>6, <1>7, <1>8, <1>9, <1>10, <1>11, <1>12
     DEF Next, Cycle, Operator

-----------------------------------------------------------------------------
(* The invariant holds initially and is kept                               *)

LEMMA InitIInv == Init => IInv
<1> SUFFICES ASSUME Init PROVE IInv
  OBVIOUS
<1> USE DEF Init, ExecInit
<1>1. TypeOK
  BY InitTypeOK
<1>2. \A o \in OrderIds : ~Placed(o) /\ ~PlacedByCycle(o)
  BY DEF Placed, PlacedByCycle
<1>3. ExecInv
  BY <1>2 DEF ExecInv, CallsOwnTheirRow, RowsNameTheirBracket, BracketsHaveATrade, Idle, Open, NoOrder
<1>4. CycleInv
  BY <1>2 DEF CycleInv, CycleInStep, OrderStartsCooldown, CountersAgree, KeptOrdersCount,
              KilledOrderIsOfThisRun, NoLocals, Idle, Sessions
<1> QED
  BY <1>1, <1>2, <1>3, <1>4
     DEF IInv, RampUpGate, OneOrderPerCycle, CooldownHolds, OrphanOnlyAfterLoss

LEMMA NextIInv == IInv /\ [Next]_vars => IInv'
<1> SUFFICES ASSUME IInv, [Next]_vars PROVE IInv'
  OBVIOUS
<1>1. TypeOK'
  BY NextTypeOK DEF IInv
<1>2. ExecStep
  BY NextIsExecStep DEF IInv
<1>3. ExecInv'
  BY <1>2, StepKeepsExecInv DEF IInv
<1>4. OrphanOnlyAfterLoss'
  BY <1>2, StepKeepsOrphans DEF IInv
<1>5. CycleProps'
  BY <1>1, NextKeepsCycleProps DEF IInv, CycleProps
<1> QED
  BY <1>1, <1>3, <1>4, <1>5 DEF IInv, CycleProps

LEMMA Invariant == Spec => []IInv
BY InitIInv, NextIInv, PTL DEF Spec

-----------------------------------------------------------------------------
(* The books                                                               *)

PlacedOrders == {o \in OrderIds : Placed(o)}

\* The brackets the deal ever had, and those whose entry the tables show.
OrdersOf(d) == {o \in OrderIds : Placed(o) /\ DealOfOrder(o) = d}

EntriesOf(d) == {o \in OrdersOf(d) : broker[o].booked = "entry"}

AtMostOne(S) == \A o, p \in S : o = p

\* A deal that had one bracket at most holds one lot while its entry is booked and
\* its exit is not; and only what was placed can be reported on.
BooksInv ==
    /\ IsFiniteSet(PlacedOrders)
    /\ \A d \in Deals : AtMostOne(OrdersOf(d)) =>
          lots[d] = IF \E o \in OrdersOf(d) : broker[o].booked = "entry" THEN 1 ELSE 0

\* A step that books nothing of the entries: a bracket may only be added, unbooked.
LEMMA BooksStay ==
  ASSUME TypeOK, BooksInv, UNCHANGED lots, IsFiniteSet(PlacedOrders'),
         \A o \in OrderIds :
            /\ Placed(o) => Placed(o)' /\ broker'[o].trade = broker[o].trade
            /\ ~Placed(o) /\ Placed(o)' => broker'[o].booked # "entry"
            /\ Placed(o) => (broker'[o].booked = "entry" <=> broker[o].booked = "entry")
  PROVE  BooksInv'
<1>1. ASSUME NEW d \in Deals
      PROVE  /\ OrdersOf(d) \subseteq OrdersOf(d)'
             /\ (\E o \in OrdersOf(d)' : broker'[o].booked = "entry")
                   <=> \E o \in OrdersOf(d) : broker[o].booked = "entry"
  BY DEF OrdersOf, DealOfOrder
<1>2. ASSUME NEW d \in Deals, AtMostOne(OrdersOf(d))'
      PROVE  lots'[d] = IF \E o \in OrdersOf(d)' : broker'[o].booked = "entry" THEN 1 ELSE 0
  <2>1. AtMostOne(OrdersOf(d))
    BY <1>1, <1>2 DEF AtMostOne
  <2>2. lots[d] = IF \E o \in OrdersOf(d) : broker[o].booked = "entry" THEN 1 ELSE 0
    BY <2>1 DEF BooksInv
  <2> QED
    BY <1>1, <2>2
<1> QED
  BY <1>2 DEF BooksInv

\* A fill of the only bracket of its deal makes, or unmakes, the position.
LEMMA FillKeepsBooks ==
  ASSUME TypeOK, ExecInv, BooksInv, NEW o \in OrderIds, MarkFilled(o) \/ MarkExited(o)
  PROVE  BooksInv'
<1> DEFINE deal == DealOfOrder(o)
<1>1. Placed(o) /\ deal \in Deals
  BY ExecutorAssumption DEF MarkFilled, MarkExited, Placed, DealOfOrder, ExecInv, BracketsHaveATrade
<1>2. \A p \in OrderIds : /\ Placed(p)' <=> Placed(p)
                          /\ broker'[p].trade = broker[p].trade
                          /\ p # o => broker'[p] = broker[p]
  BY <1>1 DEF MarkFilled, MarkExited, Placed, TypeOK, ExecTypeOK, Bracket
<1>3. PlacedOrders' = PlacedOrders /\ \A d : OrdersOf(d)' = OrdersOf(d)
  BY <1>2 DEF PlacedOrders, OrdersOf, DealOfOrder
<1>4. \A d \in Deals : d # deal => lots'[d] = lots[d] /\ o \notin OrdersOf(d)
  BY DEF MarkFilled, MarkExited, OrdersOf, TypeOK, ExecTypeOK
<1>5. ASSUME NEW d \in Deals, AtMostOne(OrdersOf(d)), d # deal
      PROVE  lots'[d] = IF \E p \in OrdersOf(d) : broker'[p].booked = "entry" THEN 1 ELSE 0
  <2>1. \A p \in OrdersOf(d) : broker'[p] = broker[p]
    BY <1>2, <1>4, <1>5 DEF OrdersOf
  <2>2. lots[d] = IF \E p \in OrdersOf(d) : broker[p].booked = "entry" THEN 1 ELSE 0
    BY <1>5 DEF BooksInv
  <2> QED
    BY <1>4, <1>5, <2>1, <2>2
<1>6. ASSUME AtMostOne(OrdersOf(deal))
      PROVE  lots'[deal] = IF \E p \in OrdersOf(deal) : broker'[p].booked = "entry" THEN 1 ELSE 0
  <2>1. OrdersOf(deal) = {o}
    BY <1>1, <1>6 DEF OrdersOf, AtMostOne
  <2>2. CASE MarkFilled(o)
    <3>1. broker[o].booked = "none" /\ broker'[o].booked = "entry" /\ lots'[deal] = lots[deal] + 1
      BY <1>1, <2>2 DEF MarkFilled, TypeOK, ExecTypeOK, Bracket
    <3>2. lots[deal] = 0
      BY <1>1, <1>6, <2>1, <3>1 DEF BooksInv
    <3> QED
      BY <2>1, <3>1, <3>2
  <2>3. CASE MarkExited(o)
    <3>1. broker'[o].booked = "all" /\ lots'[deal] = 0
      BY <1>1, <2>3 DEF MarkExited, TypeOK, ExecTypeOK, Bracket
    <3> QED
      BY <2>1, <3>1
  <2> QED
    BY <2>2, <2>3
<1>7. ASSUME NEW d \in Deals, AtMostOne(OrdersOf(d))
      PROVE  lots'[d] = IF \E p \in OrdersOf(d) : broker'[p].booked = "entry" THEN 1 ELSE 0
  <2> HIDE DEF deal
  <2> QED
    BY <1>5, <1>6, <1>7
<1>8. \A d : AtMostOne(OrdersOf(d))' <=> AtMostOne(OrdersOf(d))
  BY <1>3 DEF AtMostOne
<1> QED
  BY <1>3, <1>7, <1>8 DEF BooksInv

LEMMA StepKeepsBooks ==
  ASSUME TypeOK, ExecInv, BooksInv, ExecStep
  PROVE  BooksInv'
<1> USE DEF TypeOK, ExecTypeOK
<1>a. IsFiniteSet(PlacedOrders)
  BY DEF BooksInv
<1>1. CASE \E s \in Sessions, o \in OrderIds : Place(s, o)
  <2> PICK s \in Sessions, o \in OrderIds : Place(s, o)
    BY <1>1
  <2>1. /\ \A p \in OrderIds : p # o => broker'[p] = broker[p]
        /\ ~Placed(o) /\ broker'[o].booked = "none" /\ UNCHANGED lots
    BY DEF Place, IsNextOrderId, Placed
  <2>2. PlacedOrders' \subseteq PlacedOrders \cup {o}
    BY <2>1 DEF PlacedOrders, Placed
  <2>3. IsFiniteSet(PlacedOrders')
    BY <1>a, <2>2, FS_AddElement, FS_Subset
  <2>4. \A p \in OrderIds :
            /\ Placed(p) => Placed(p)' /\ broker'[p].trade = broker[p].trade
            /\ ~Placed(p) /\ Placed(p)' => broker'[p].booked # "entry"
            /\ Placed(p) => (broker'[p].booked = "entry" <=> broker[p].booked = "entry")
    BY <2>1 DEF Placed
  <2> QED
    BY <2>1, <2>3, <2>4, BooksStay
<1>2. CASE \E o \in OrderIds : MarkFilled(o) \/ MarkExited(o)
  BY <1>2, FillKeepsBooks
<1>3. CASE \E o \in OrderIds :
              BrokerFills(o) \/ BrokerRefuses(o) \/ BrokerExits(o) \/ MarkRejected(o)
  <2> PICK o \in OrderIds :
              BrokerFills(o) \/ BrokerRefuses(o) \/ BrokerExits(o) \/ MarkRejected(o)
    BY <1>3
  <2>1. /\ \A p \in OrderIds : p # o => broker'[p] = broker[p]
        /\ Placed(o) /\ Placed(o)' /\ broker'[o].trade = broker[o].trade /\ UNCHANGED lots
        /\ broker'[o].booked = "entry" <=> broker[o].booked = "entry"
    BY DEF BrokerFills, BrokerRefuses, BrokerExits, BrokerMoves, MarkRejected, Placed, Bracket
  <2>2. \A p \in OrderIds :
            /\ Placed(p) => Placed(p)' /\ broker'[p].trade = broker[p].trade
            /\ ~Placed(p) /\ Placed(p)' => broker'[p].booked # "entry"
            /\ Placed(p) => (broker'[p].booked = "entry" <=> broker[p].booked = "entry")
    BY <2>1 DEF Placed
  <2>3. PlacedOrders' = PlacedOrders
    BY <2>1 DEF PlacedOrders, Placed
  <2> QED
    BY <1>a, <2>1, <2>2, <2>3, BooksStay
<1>4. CASE UNCHANGED <<broker, lots>>
  BY <1>4 DEF BooksInv, PlacedOrders, Placed, OrdersOf, DealOfOrder, AtMostOne
<1> QED
  BY <1>1, <1>2, <1>3, <1>4
     DEF ExecStep, BeginSubmit, Hold, RejectUnresolved, SubmitRaises, CommitSubmitted,
         Lose, Report, execVars

LEMMA BooksInvariant == Spec => []BooksInv
<1>1. Init => BooksInv
  <2> SUFFICES ASSUME Init PROVE BooksInv
    OBVIOUS
  <2>1. PlacedOrders = {} /\ \A d : OrdersOf(d) = {}
    BY DEF Init, ExecInit, PlacedOrders, OrdersOf, Placed
  <2>2. \A d \in Deals : lots[d] = 0
    BY DEF Init, ExecInit
  <2> QED
    BY <2>1, <2>2, FS_EmptySet DEF BooksInv
<1>2. IInv /\ BooksInv /\ [Next]_vars => BooksInv'
  BY NextIsExecStep, StepKeepsBooks DEF IInv
<1> QED
  BY <1>1, <1>2, Invariant, PTL DEF Spec

\* Two members and more make a cardinality of two and more.
LEMMA OneByCardinality ==
  ASSUME NEW S, IsFiniteSet(S), Cardinality(S) <= 1
  PROVE  AtMostOne(S)
<1> SUFFICES ASSUME NEW o \in S, NEW p \in S, o # p PROVE FALSE
  BY DEF AtMostOne
<1> DEFINE one == {o}
           two == one \cup {p}
<1>1. IsFiniteSet(one) /\ Cardinality(one) = 1 /\ p \notin one
  BY FS_Singleton
<1>2. two \in SUBSET S
  OBVIOUS
<1> HIDE DEF one
<1>3. Cardinality(two) = IF p \in one THEN Cardinality(one) ELSE Cardinality(one) + 1
  BY <1>1, FS_AddElement
<1>4. Cardinality(two) = 2
  BY <1>1, <1>3
<1> HIDE DEF two
<1>5. Cardinality(two) <= Cardinality(S) /\ Cardinality(S) \in Nat
  BY <1>2, FS_Subset, FS_CardinalityType
<1> QED
  BY <1>4, <1>5

-----------------------------------------------------------------------------
(* What follows                                                            *)

\* Every variable keeps its type: ids, statuses and counters of the tables, of
\* the submit() in flight and of the cycle's locals.
THEOREM TypeCorrect == Spec => []TypeOK
<1>1. IInv => TypeOK
  BY DEF IInv
<1> QED
  BY <1>1, Invariant, PTL

\* The cycle of scheduler.py sends no unapproved order before the required
\* number of trades was validated, whatever the number and the interleaving.
THEOREM RampUpIsRespected == Spec => []RampUpGate
<1>1. IInv => RampUpGate
  BY DEF IInv
<1> QED
  BY <1>1, Invariant, PTL

\* A cycle of scheduler.py places at most one order.
THEOREM AtMostOneOrderPerCycle == Spec => []OneOrderPerCycle
<1>1. IInv => OneOrderPerCycle
  BY DEF IInv
<1> QED
  BY <1>1, Invariant, PTL

\* Orders of different cycles are a cooldown apart, unless the earlier cycle
\* never reached the commit that makes last_order_ts durable.
THEOREM CooldownIsRespected == Spec => []CooldownHolds
<1>1. IInv => CooldownHolds
  BY DEF IInv
<1> QED
  BY <1>1, Invariant, PTL

\* A kill switch raised during a cycle lets at most one order through.
THEOREM StopIsNearlyImmediate == Spec => []StopLetsOneThrough
<1>1. IInv => StopLetsOneThrough
  BY DEF IInv, CycleInv, KilledOrderIsOfThisRun, OneOrderPerCycle, StopLetsOneThrough
<1> QED
  BY <1>1, Invariant, PTL

\* executor.py commits SUBMITTED only after the legs are placed, so no row
\* claims an order, or a fill, that IBKR does not have.
THEOREM RowsAreBacked == Spec => []RowsBackedByBroker
<1>1. IInv => RowsBackedByBroker
  BY ExecutorAssumption DEF IInv, TypeOK, ExecTypeOK, Row, ExecInv, RowsNameTheirBracket,
                            RowsBackedByBroker, Open, NoOrder
<1> QED
  BY <1>1, Invariant, PTL

\* A bracket no row knows of is one whose submit() was cut off between the
\* placement of its legs and the commit of its row.
THEOREM OrphansAreLosses == Spec => []OrphanOnlyAfterLoss
<1>1. IInv => OrphanOnlyAfterLoss
  BY DEF IInv
<1> QED
  BY <1>1, Invariant, PTL

\* The idempotency test of submit() holds off every second order for the same
\* trade id, but one after such a cut.
THEOREM RepeatsAreLosses == Spec => []RepeatOnlyAfterLoss
<1>1. ASSUME IInv, NEW o \in OrderIds, NEW p \in OrderIds,
             Placed(o), Placed(p), broker[o].trade = broker[p].trade, o # p,
             broker[o].trade \notin lost
      PROVE  FALSE
  <2> DEFINE t == broker[o].trade
  <2> USE <1>1 DEF IInv, ExecInv
  <2>1. t \in TradeIds
    BY DEF BracketsHaveATrade
  <2>2. ASSUME NEW q \in {o, p}, trades[t].order # q
        PROVE  \E s \in Sessions : call[s].pc = "sent" /\ call[s].order = q /\ call[s].trade = t
    <3>1. PICK s \in Sessions : call[s].pc = "sent" /\ call[s].order = q
      BY <2>2 DEF OrphanOnlyAfterLoss
    <3> QED
      BY <3>1 DEF CallsOwnTheirRow
  <2>3. ASSUME NEW s \in Sessions, call[s].pc = "sent", call[s].trade = t
        PROVE  /\ trades[t].order = NoOrder
               /\ trades[t].status = IF s = "cycle" THEN "ABSENT" ELSE "PENDING"
    BY <2>1, <2>3 DEF CallsOwnTheirRow, RowsNameTheirBracket
  <2>4. o # NoOrder /\ p # NoOrder
    BY ExecutorAssumption DEF NoOrder
  <2>5. \A q \in {o, p} :
           \E s \in Sessions : call[s].pc = "sent" /\ call[s].order = q /\ call[s].trade = t
    BY <2>2, <2>3, <2>4
  <2> QED
    BY <2>3, <2>5 DEF Sessions
<1>2. IInv => RepeatOnlyAfterLoss
  BY <1>1 DEF RepeatOnlyAfterLoss
<1> QED
  BY <1>2, Invariant, PTL

\* mark_filled and its position: while a deal had one bracket at most, its open
\* position is one lot from the report of the entry to the report of the exit, and
\* none before and after, whatever was lost, raised or approved in between.
THEOREM BooksAreRight == Spec => []BooksMatchBroker
<1>1. BooksInv => BooksMatchBroker
  <2> SUFFICES ASSUME BooksInv, NEW d \in Deals, Cardinality(OrdersOf(d)) <= 1
               PROVE  lots[d] = Cardinality(EntriesOf(d))
    BY DEF BooksMatchBroker, OrdersOf, EntriesOf
  <2>1. IsFiniteSet(OrdersOf(d))
    BY FS_Subset DEF BooksInv, OrdersOf, PlacedOrders
  <2>2. AtMostOne(OrdersOf(d))
    BY <2>1, OneByCardinality
  <2>3. lots[d] = IF \E o \in OrdersOf(d) : broker[o].booked = "entry" THEN 1 ELSE 0
    BY <2>2 DEF BooksInv
  <2>4. CASE \E o \in OrdersOf(d) : broker[o].booked = "entry"
    <3>1. \E o : EntriesOf(d) = {o}
      BY <2>2, <2>4 DEF EntriesOf, AtMostOne
    <3> QED
      BY <2>3, <2>4, <3>1, FS_Singleton
  <2>5. CASE ~\E o \in OrdersOf(d) : broker[o].booked = "entry"
    <3>1. EntriesOf(d) = {}
      BY <2>5 DEF EntriesOf
    <3> QED
      BY <2>3, <2>5, <3>1, FS_EmptySet
  <2> QED
    BY <2>4, <2>5
<1> QED
  BY <1>1, BooksInvariant, PTL

-----------------------------------------------------------------------------
(* The executor implements the status machine of `trades`                  *)

LEMMA StoreIsMove ==
  ASSUME TypeOK, NEW t \in TradeIds, NEW to \in {"PENDING", "SUBMITTED", "FILLED", "REJECTED"},
         NEW o, Store(t, to, o), <<trades[t].status, to>> \in Lifecycle!Edges
  PROVE  Lifecycle!LifecycleNext
<1> USE DEF TypeOK, ExecTypeOK
<1> DEFINE status == [u \in TradeIds |-> trades[u].status]
<1>1. /\ \A u \in TradeIds \ {t} : trades'[u] = trades[u]
      /\ trades'[t].status = to
      /\ status[t] = trades[t].status
  BY DEF Store
<1>2. status' = [status EXCEPT ![t] = to]
  BY <1>1
<1> QED
  BY <1>1, <1>2 DEF Lifecycle!LifecycleNext, Lifecycle!Move

LEMMA ExecStepIsMove ==
  ASSUME TypeOK, ExecInv, ExecStep
  PROVE  Lifecycle!LifecycleNext \/ UNCHANGED [t \in TradeIds |-> trades[t].status]
<1> USE DEF TypeOK, ExecTypeOK, ExecInv
<1>1. CASE \E s \in Sessions : Hold(s) \/ RejectUnresolved(s) \/ SubmitRaises(s) \/ CommitSubmitted(s)
  <2> PICK s \in Sessions : Hold(s) \/ RejectUnresolved(s) \/ SubmitRaises(s) \/ CommitSubmitted(s)
    BY <1>1
  <2> DEFINE t == call[s].trade
  <2>1. /\ t \in TradeIds
        /\ trades[t].status = IF s = "cycle" THEN "ABSENT" ELSE "PENDING"
        /\ s = "operator" => ~Hold(s)
    BY DEF CallsOwnTheirRow, Hold, RejectUnresolved, SubmitRaises, CommitSubmitted
  <2>2. \/ UNCHANGED trades
        \/ s = "cycle" /\ Store(t, "PENDING", NoOrder)
        \/ Store(t, "REJECTED", NoOrder)
        \/ Store(t, "SUBMITTED", call[s].order)
    BY <2>1 DEF Hold, RejectUnresolved, SubmitRaises, CommitSubmitted, Sessions
  <2> QED
    BY <2>1, <2>2, StoreIsMove DEF Lifecycle!Edges
<1>2. CASE \E o \in OrderIds : MarkFilled(o) \/ MarkRejected(o)
  <2> PICK o \in OrderIds : MarkFilled(o) \/ MarkRejected(o)
    BY <1>2
  <2> DEFINE t == broker[o].trade
  <2>1. t \in TradeIds /\ trades[t].status = "SUBMITTED"
    BY ExecutorAssumption DEF MarkFilled, MarkRejected, RowOf, RowsNameTheirBracket, NoOrder
  <2>2. Store(t, "FILLED", o) \/ Store(t, "REJECTED", o)
    BY DEF MarkFilled, MarkRejected
  <2> QED
    BY <2>1, <2>2, StoreIsMove DEF Lifecycle!Edges
<1> QED
  BY <1>1, <1>2
     DEF ExecStep, BeginSubmit, Place, Lose, Report, BrokerFills, BrokerRefuses, BrokerExits,
         BrokerMoves, MarkExited, execVars

\* The rows that submit(), mark_filled and mark_rejected write move along the
\* documented status machine only, whatever the cycle, the operator and IBKR do.
THEOREM LifecycleIsImplemented == Spec => LifecycleSpec
<1>1. Init => Lifecycle!LifecycleInit
  BY DEF Init, ExecInit, Lifecycle!LifecycleInit
<1>2. IInv /\ [Next]_vars => [Lifecycle!LifecycleNext]_([t \in TradeIds |-> trades[t].status])
  BY NextIsExecStep, ExecStepIsMove DEF IInv
<1> QED
  BY <1>1, <1>2, Invariant, PTL DEF Spec, LifecycleSpec, Lifecycle!LifecycleSpec

=============================================================================
