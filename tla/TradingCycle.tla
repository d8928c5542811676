---------------------------- MODULE TradingCycle ----------------------------
(***************************************************************************)
(* run_daily_cycle of src/trading/scheduler.py with the safeguards of      *)
(* src/trading/safeguards.py, driving the executor, while the operator     *)
(* flips the kill switch, approves held trades and counts validated ones,  *)
(* and IBKR fills, refuses and exits brackets.                             *)
(*                                                                         *)
(* The cycle reads the kill switch, the open positions and the ramp-up     *)
(* count once, at its start, and the last-order time through its own       *)
(* session, which is committed at its end (or by a submit inside it).      *)
(***************************************************************************)
EXTENDS TradeExecutor, Integers

CONSTANTS
    MaxPositions,   \* position_sizing.MAX_CONCURRENT_POSITIONS
    RampUpRequired, \* settings.trading_rampup_required
    Cooldown,       \* settings.trading_order_cooldown_min, in clock ticks
    CanFail,        \* whether processes crash and commits fail
    MaxRuns,        \* bound: cycles started
    MaxClock,       \* bound: ticks
    MaxRows         \* bound: rows load_candidates returns

ASSUME CycleAssumption ==
    /\ MaxPositions \in Nat /\ RampUpRequired \in Nat /\ Cooldown \in Nat \ {0}
    /\ CanFail \in BOOLEAN
    /\ MaxRuns \in Nat /\ MaxClock \in Nat /\ MaxRows \in Nat

VARIABLES
    kill,   \* data/kill_switch.flag exists
    clock,  \* time, in ticks
    sys,    \* committed system_state: lastOrder, rampup
    cyc,    \* the locals of run_daily_cycle
    stamp,  \* history: for each bracket the cycle placed, which run, when, and
            \* whether the kill flag was up
    lost    \* history: trade ids whose submit() was cut off after the legs left

cycleVars == <<kill, clock, sys, cyc, stamp, lost>>
vars == <<execVars, cycleVars>>

-----------------------------------------------------------------------------
SysRow == [lastOrder : Int, rampup : Nat]

\* left: candidate rows not yet visited; lastOrder: last_order_ts as this
\* session sees it; run counts the cycles started.
Locals == [pc : {"idle", "loop", "submit"}, run : Nat, now : Nat, left : Nat,
           openPositions : Nat, rampup : Nat, lastOrder : Int]

Stamp == [run : Nat, now : Nat, killed : BOOLEAN, kept : BOOLEAN]

\* Between two cycles the locals do not exist; only the count of runs goes on.
NoLocals(run) == [pc |-> "idle", run |-> run, now |-> 0, left |-> 0,
                  openPositions |-> 0, rampup |-> 0, lastOrder |-> 0]

TypeOK ==
    /\ ExecTypeOK
    /\ kill \in BOOLEAN
    /\ clock \in Nat
    /\ sys \in SysRow
    /\ cyc \in Locals
    /\ stamp \in [OrderIds -> Stamp]
    /\ lost \subseteq TradeIds \cup {NoTrade}

\* No order yet: last_order_ts is None, which cooldown_active reads as "long ago".
Init ==
    /\ ExecInit
    /\ kill = FALSE
    /\ clock = 0
    /\ sys = [lastOrder |-> -Cooldown, rampup |-> 0]
    /\ cyc = NoLocals(0)
    /\ stamp = [o \in OrderIds |-> [run |-> 0, now |-> 0, killed |-> FALSE, kept |-> FALSE]]
    /\ lost = {}

-----------------------------------------------------------------------------
(* The guards *)

PositionCapReached(openCount) == openCount >= MaxPositions

\* Slip: the comparison is turned round.
CooldownOver(lastOrder, now) == now - lastOrder > Cooldown

CooldownActive(lastOrder, now) == now - lastOrder < Cooldown

\* Slip: the trade being decided counts as validated.
RequiresApprovalAfterThis(rampup) == rampup + 1 < RampUpRequired

RequiresApproval(rampup) == rampup < RampUpRequired

OpenPositionCount == Cardinality({d \in Deals : lots[d] > 0})

\* uuid4: an id no row, no bracket and no call has.
Fresh(t) ==
    /\ trades[t].status = "ABSENT"
    /\ \A o \in OrderIds : broker[o].trade # t
    /\ \A s \in Sessions : call[s].trade # t

-----------------------------------------------------------------------------
(* One cycle.  A cycle that finds the kill switch up, or no candidate,     *)
(* changes nothing here.                                                   *)

\* Slip: the flag is not looked at.
MayStartStopped == cyc.pc = "idle"

MayStart == cyc.pc = "idle" /\ ~kill

StartCycle(rows) ==
    /\ MayStart
    /\ cyc.run < MaxRuns
    /\ cyc' = [pc |-> "loop", run |-> cyc.run + 1, now |-> clock, left |-> rows,
               openPositions |-> OpenPositionCount, rampup |-> sys.rampup,
               lastOrder |-> sys.lastOrder]
    /\ UNCHANGED <<execVars, kill, clock, sys, stamp, lost>>

\* NetLiquidation is below the day's baseline by the limit: the flag is
\* written and the cycle returns.
HaltOnDailyLoss ==
    /\ MayStart
    /\ kill' = TRUE
    /\ UNCHANGED <<execVars, clock, sys, cyc, stamp, lost>>

\* No snapshot, no request from the engine, IBKR away, cooldown or duplicate.
SkipCandidate ==
    /\ cyc.pc = "loop" /\ cyc.left > 0
    /\ cyc' = [cyc EXCEPT !.left = @ - 1]
    /\ UNCHANGED <<execVars, kill, clock, sys, stamp, lost>>

MaySubmit(t) ==
    /\ ~PositionCapReached(cyc.openPositions)
    /\ ~CooldownActive(cyc.lastOrder, cyc.now)
    /\ Fresh(t)

SubmitCandidate(t) ==
    /\ cyc.pc = "loop" /\ cyc.left > 0
    /\ MaySubmit(t)
    /\ BeginSubmit("cycle", t, ~RequiresApproval(cyc.rampup))
    /\ cyc' = [cyc EXCEPT !.pc = "submit", !.left = @ - 1]
    /\ UNCHANGED <<kill, clock, sys, stamp, lost>>

\* submit() returned a PENDING or a REJECTED row.  Its commit is the session's.
HandleUnsent ==
    /\ cyc.pc = "submit"
    /\ Hold("cycle") \/ RejectUnresolved("cycle")
    /\ cyc' = [cyc EXCEPT !.pc = "loop"]
    /\ UNCHANGED <<kill, clock, sys, stamp, lost>>

CyclePlaces(o) ==
    /\ cyc.pc = "submit"
    /\ Place("cycle", o)
    /\ stamp' = [stamp EXCEPT ![o] = [run |-> cyc.run, now |-> cyc.now,
                                      killed |-> kill, kept |-> FALSE]]
    /\ UNCHANGED <<kill, clock, sys, cyc, lost>>

\* submit() returned a SUBMITTED row: one more position, and the cooldown
\* starts, for this session only until the cycle's last commit.
HandleSubmitted ==
    /\ cyc.pc = "submit"
    /\ CommitSubmitted("cycle")
    /\ cyc' = [cyc EXCEPT !.pc = "loop", !.openPositions = @ + 1, !.lastOrder = cyc.now]
    /\ UNCHANGED <<kill, clock, sys, stamp, lost>>

\* Slip: the session is left without a commit when nothing raised.
CloseSession ==
    /\ sys' = sys
    /\ stamp' = [o \in OrderIds |-> [stamp[o] EXCEPT !.kept = @ \/ stamp[o].run = cyc.run]]

\* What the final commit makes durable.
CommitSession ==
    /\ sys' = [sys EXCEPT !.lastOrder = cyc.lastOrder]
    /\ stamp' = [o \in OrderIds |-> [stamp[o] EXCEPT !.kept = @ \/ stamp[o].run = cyc.run]]

EndCycle ==
    /\ cyc.pc = "loop" /\ cyc.left = 0
    /\ CommitSession
    /\ cyc' = NoLocals(cyc.run)
    /\ UNCHANGED <<execVars, kill, clock, lost>>

\* An exception of submit() passes through `finally` and ends the cycle.
CycleRaises ==
    /\ cyc.pc = "submit"
    /\ SubmitRaises("cycle")
    /\ CommitSession
    /\ cyc' = NoLocals(cyc.run)
    /\ UNCHANGED <<kill, clock, lost>>

SentBy(s) == IF call[s].pc = "sent" THEN {call[s].trade} ELSE {}

\* The process dies, or a commit fails and the one in `finally` fails with it.
CycleLost ==
    /\ CanFail
    /\ cyc.pc # "idle"
    /\ IF cyc.pc = "submit" THEN Lose("cycle") ELSE UNCHANGED execVars
    /\ lost' = lost \cup SentBy("cycle")
    /\ cyc' = NoLocals(cyc.run)
    /\ UNCHANGED <<kill, clock, sys, stamp>>

Cycle ==
    \/ \E rows \in 1..MaxRows : StartCycle(rows)
    \/ HaltOnDailyLoss \/ SkipCandidate
    \/ \E t \in TradeIds : SubmitCandidate(t)
    \/ \E o \in OrderIds : CyclePlaces(o)
    \/ HandleUnsent \/ HandleSubmitted \/ EndCycle \/ CycleRaises \/ CycleLost

-----------------------------------------------------------------------------
(* The operator: the `!stop` and `approve <trade_id>` commands, the flag   *)
(* file removed by hand, a validated trade counted.                        *)

Stop ==
    /\ ~kill
    /\ kill' = TRUE
    /\ UNCHANGED <<execVars, clock, sys, cyc, stamp, lost>>

\* A flag raised again later belongs to another emergency: the history of the
\* first one is closed.
Resume ==
    /\ kill
    /\ kill' = FALSE
    /\ stamp' = [o \in OrderIds |-> [stamp[o] EXCEPT !.killed = FALSE]]
    /\ UNCHANGED <<execVars, clock, sys, cyc, lost>>

ValidateTrade ==
    /\ sys.rampup < RampUpRequired
    /\ sys' = [sys EXCEPT !.rampup = @ + 1]
    /\ UNCHANGED <<execVars, kill, clock, cyc, stamp, lost>>

Approve(t) ==
    /\ trades[t].status # "ABSENT"
    /\ BeginSubmit("operator", t, TRUE)
    /\ UNCHANGED cycleVars

OperatorSubmits ==
    /\ \/ \E o \in OrderIds : Place("operator", o)
       \/ RejectUnresolved("operator") \/ SubmitRaises("operator")
       \/ CommitSubmitted("operator")
    /\ UNCHANGED cycleVars

OperatorLost ==
    /\ CanFail
    /\ Lose("operator")
    /\ lost' = lost \cup SentBy("operator")
    /\ UNCHANGED <<kill, clock, sys, cyc, stamp>>

Operator == \/ Stop \/ Resume \/ ValidateTrade \/ OperatorSubmits \/ OperatorLost
            \/ \E t \in TradeIds : Approve(t)

-----------------------------------------------------------------------------
Broker == \E o \in OrderIds : Report(o) /\ UNCHANGED cycleVars

Tick ==
    /\ clock < MaxClock
    /\ clock' = clock + 1
    /\ UNCHANGED <<execVars, kill, sys, cyc, stamp, lost>>

Next == Cycle \/ Operator \/ Broker \/ Tick

Spec == Init /\ [][Next]_vars

-----------------------------------------------------------------------------
(* Properties *)

Placed(o) == broker[o].state # "free"
PlacedByCycle(o) == Placed(o) /\ broker[o].by = "cycle"

\* Ramp-up: "first 5 validated trades, each requires manual approve before
\* sending" (docs/TRADING.md).  Whatever the cycle sends unapproved, it sends
\* after the required number of trades was validated, although it reads the
\* count once and rows it held or half-submitted earlier stay PENDING.
RampUpGate ==
    \A o \in OrderIds : PlacedByCycle(o) => sys.rampup >= RampUpRequired

\* The cooldown leaves each cycle at most one order, however many candidates
\* it has and wherever it is interrupted.
OneOrderPerCycle ==
    \A o, p \in OrderIds :
        PlacedByCycle(o) /\ PlacedByCycle(p) /\ stamp[o].run = stamp[p].run => o = p

\* Across cycles the gap between orders is the cooldown, once the cycle that
\* placed the first order reached its final commit.
CooldownHolds ==
    \A o, p \in OrderIds :
        (/\ PlacedByCycle(o) /\ PlacedByCycle(p)
         /\ stamp[o].kept /\ stamp[o].run < stamp[p].run)
        => stamp[p].now - stamp[o].now >= Cooldown

\* The flag raised while a cycle runs lets through at most one more order of
\* the cycle until the operator removes it.
StopLetsOneThrough ==
    \A o, p \in OrderIds :
        PlacedByCycle(o) /\ PlacedByCycle(p) /\ stamp[o].killed /\ stamp[p].killed => o = p

\* A row is SUBMITTED or FILLED only when IBKR has that very bracket, and the
\* two agree on whether its entry filled: the commit follows the placement.
RowsBackedByBroker ==
    \A t \in TradeIds :
        /\ trades[t].status \in Open =>
              /\ trades[t].order \in OrderIds
              /\ broker[trades[t].order].trade = t
              /\ Placed(trades[t].order)
        /\ trades[t].status = "FILLED" => broker[trades[t].order].state \in {"holding", "exited"}
        /\ trades[t].status \in {"ABSENT", "PENDING"} => trades[t].order = NoOrder

\* paper_positions agrees with the fills reported to it, as long as the deal
\* never had two brackets: a SELL fill closes the whole position.
BooksMatchBroker ==
    \A d \in Deals :
        LET ofDeal == {o \in OrderIds : Placed(o) /\ DealOfOrder(o) = d} IN
        Cardinality(ofDeal) <= 1
            => lots[d] = Cardinality({o \in ofDeal : broker[o].booked = "entry"})

\* Every bracket at IBKR is one a row or a submit() in progress knows, unless
\* the submit() that placed it was cut off.
OrphanOnlyAfterLoss ==
    \A o \in OrderIds :
        Placed(o) => \/ trades[broker[o].trade].order = o
                     \/ \E s \in Sessions : call[s].pc = "sent" /\ call[s].order = o
                     \/ broker[o].trade \in lost

\* A trade id reaches IBKR twice only if its first submit() was cut off.
RepeatOnlyAfterLoss ==
    \A o, p \in OrderIds :
        Placed(o) /\ Placed(p) /\ broker[o].trade = broker[p].trade /\ o # p
        => broker[o].trade \in lost

\* The rows move along the documented status machine only.
Lifecycle == INSTANCE TradeLifecycle
                 WITH status <- [t \in TradeIds |-> trades[t].status]
LifecycleSpec == Lifecycle!LifecycleSpec

\* docs/TRADING.md: "retry-safe submission; the same request never
\* double-executes".
RequestExecutesOnce ==
    \A o, p \in OrderIds :
        Placed(o) /\ Placed(p) /\ broker[o].trade = broker[p].trade => o = p

-----------------------------------------------------------------------------
(* The inductive invariant                                                 *)

\* A submit() in flight works on a row nobody else can change: the cycle on an
\* id without a row, the operator on a PENDING row.  What it sent is at IBKR.
CallsOwnTheirRow ==
    \A s \in Sessions : call[s].pc # "idle" =>
        /\ call[s].trade \in TradeIds
        /\ trades[call[s].trade].status = IF s = "cycle" THEN "ABSENT" ELSE "PENDING"
        /\ s = "operator" => call[s].pc # "hold"
        /\ call[s].pc = "sent" =>
              /\ call[s].order \in OrderIds
              /\ broker[call[s].order].trade = call[s].trade
              /\ Placed(call[s].order)

\* A row that names a bracket names its own; it is SUBMITTED until a report on
\* the bracket is booked.  An unsent row names none, a live one does.
RowsNameTheirBracket ==
    \A t \in TradeIds :
        /\ trades[t].status \in {"ABSENT", "PENDING"} => trades[t].order = NoOrder
        /\ trades[t].status \in Open => trades[t].order # NoOrder
        /\ trades[t].order # NoOrder =>
              /\ broker[trades[t].order].trade = t
              /\ Placed(trades[t].order)
              /\ broker[trades[t].order].booked = "none" => trades[t].status = "SUBMITTED"
        /\ trades[t].status = "FILLED" => broker[trades[t].order].state \in {"holding", "exited"}

BracketsHaveATrade == \A o \in OrderIds : Placed(o) => broker[o].trade \in TradeIds

CycleInStep == (cyc.pc = "submit") <=> (call["cycle"].pc # "idle")

\* The order of this run, if there is one, is either being committed or has
\* started the cooldown.
OrderStartsCooldown ==
    \A o \in OrderIds : PlacedByCycle(o) =>
        /\ stamp[o].run <= cyc.run
        /\ cyc.pc # "idle" /\ stamp[o].run = cyc.run =>
              /\ stamp[o].now = cyc.now
              /\ cyc.pc = "submit" => call["cycle"].pc = "sent"
              /\ cyc.pc = "loop" => cyc.lastOrder = cyc.now

\* The session's view of the counters against the committed ones.
CountersAgree ==
    /\ cyc.pc # "idle" =>
          /\ cyc.rampup <= sys.rampup
          /\ cyc.lastOrder >= sys.lastOrder
    /\ call["cycle"].pc # "idle" => ~CooldownActive(cyc.lastOrder, cyc.now)
    /\ call["cycle"].pc \in {"qualify", "sent"} => ~RequiresApproval(cyc.rampup)

KeptOrdersCount ==
    \A o \in OrderIds : PlacedByCycle(o) /\ stamp[o].kept => stamp[o].now <= sys.lastOrder

KilledOrderIsOfThisRun ==
    \A o \in OrderIds : PlacedByCycle(o) /\ stamp[o].killed => kill /\ stamp[o].run = cyc.run

ExecInv == CallsOwnTheirRow /\ RowsNameTheirBracket /\ BracketsHaveATrade

CycleInv ==
    /\ CycleInStep /\ OrderStartsCooldown /\ CountersAgree
    /\ KeptOrdersCount /\ KilledOrderIsOfThisRun

IInv ==
    /\ TypeOK /\ ExecInv /\ CycleInv
    /\ RampUpGate /\ OneOrderPerCycle /\ CooldownHolds /\ OrphanOnlyAfterLoss


=============================================================================
