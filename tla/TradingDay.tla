------------------------------ MODULE TradingDay ------------------------------
(***************************************************************************)
(* What surrounds one trading cycle: the runner of scripts/run_trading.py  *)
(* (a process that sleeps until 9h Paris, and `--once` runs by hand), its  *)
(* connection to IBKR (trading/ibkr_client.py), the day's baseline of the  *)
(* daily loss limit (trading/safeguards.py), and the decisions each run    *)
(* leaves on disk (output/decision_md.py), which scripts/p14_decide_fresh  *)
(* writes too.  What a submit() does is TradingCycle's; here it matters    *)
(* only that it commits the session.                                       *)
(*                                                                         *)
(* Time is counted in hours of UTC.  A flushed but uncommitted change of   *)
(* system_state holds its row lock: the next writer waits for the commit.  *)
(***************************************************************************)
EXTENDS Integers, FiniteSets

CONSTANTS
    Deals,        \* deals a run may find
    NameOf,       \* the ISIN and slug in the name of a deal's decision file
    NoDeal,
    NetLiqs,      \* values of the account
    Capital,      \* settings.trading_capital_base
    LimitPct,     \* settings.trading_daily_loss_limit_pct, in percent
    HoursPerDay, Nine,    \* 24 and 9, scaled down
    Winter, Summer,       \* Paris time minus UTC before and from ...
    Spring,               \* ... this hour
    MaxClock,     \* bound: hours that pass
    MaxRows,      \* bound: candidates of a run
    MaxRuns,      \* bound: runs started by hand
    MaxFaults     \* bound: exceptions and crashes

ASSUME DayAssumption ==
    /\ NoDeal \notin Deals
    /\ NetLiqs \subseteq Nat \ {0} /\ Capital \in Nat \ {0} /\ LimitPct \in 1..100
    /\ HoursPerDay \in Nat \ {0} /\ Nine \in 0..(HoursPerDay - 1)
    /\ Winter \in Nat /\ Summer \in Nat /\ Spring \in Nat
    /\ MaxClock \in Nat /\ MaxRows \in Nat /\ MaxRuns \in Nat /\ MaxFaults \in Nat

\* Clocks go forward, and the hour they leave out (two in the morning) is not nine.
ASSUME ClockAssumption ==
    /\ Winter <= Summer
    /\ \A local \in (Spring + Winter)..(Spring + Summer - 1) : local % HoursPerDay # Nine

VARIABLES
    clock,    \* hours since the start
    owner,    \* the run connected under the one client id
    kill,     \* data/kill_switch.flag exists
    sys,      \* committed baseline and its date
    lock,     \* the run whose session changed it and did not commit
    run,      \* each process: where it stands, and its locals
    files,    \* the decision each file of artifacts/decisions shows
    index,    \* the rows of INDEX.md, by file
    opening,  \* history: the baseline of the first run of a day to come through
    overlaps, \* history: the days on which two runs were past the kill switch at once
    slept,    \* history: when the sleeping loop went to sleep
    tangled,  \* history: two emissions overlapped, or one was cut off
    started, faults

guard == <<kill, sys, lock, opening, overlaps>>
disk == <<files, index, tangled>>
counters == <<started, faults>>
vars == <<clock, owner, guard, disk, run, slept, counters>>

-----------------------------------------------------------------------------
Today == clock \div HoursPerDay

Offset(hour) == IF hour < Spring THEN Winter ELSE Summer

ParisHour(hour) == (hour + Offset(hour)) % HoursPerDay

\* The instant Paris clocks show this local time.
InstantOf(local) == IF local - Winter < Spring THEN local - Winter ELSE local - Summer

\* Slip: converted back with the offset of today.
NextNineOffsetNow(now) ==
    LET local  == now + Offset(now)
        target == (local \div HoursPerDay) * HoursPerDay + Nine
    IN  (IF target <= local THEN target + HoursPerDay ELSE target) - Offset(now)

\* next_paris_time: the wall clock is set to nine, today or tomorrow.
NextNine(now) ==
    LET local  == now + Offset(now)
        target == (local \div HoursPerDay) * HoursPerDay + Nine
    IN  InstantOf(IF target <= local THEN target + HoursPerDay ELSE target)

Cyclers == {"loop", "once"}

Runners == Cyclers \cup {"fresh"}

NoRun == "none"

Files == {<<day, NameOf[d]>> : day \in 0..(MaxClock \div HoursPerDay), d \in Deals}

NoFile == <<>>

Row == [day : Int, amount : Nat]

NoRow == [day |-> -1, amount |-> 0]

\* What a run knows: its NetLiq, the row as its session sees it, how many candidates are
\* left, the one being emitted, its file and the index as the run read it.
Locals == [pc : {"idle", "connect", "net", "load", "check", "baseline",
                 "decide", "file", "read", "index", "execute"},
           wake : Int, day : Int, net : Nat, seen : Row, late : BOOLEAN,
           left : Nat, deal : Deals \cup {NoDeal}, file : Files \cup {NoFile},
           rows : [Files -> Deals \cup {NoDeal}]]

NoRows == [f \in Files |-> NoDeal]

Ended(wake) == [pc |-> "idle", wake |-> wake, day |-> -1, net |-> 0, seen |-> NoRow,
                late |-> FALSE, left |-> 0, deal |-> NoDeal, file |-> NoFile,
                rows |-> NoRows]

TypeOK ==
    /\ clock \in 0..MaxClock
    /\ owner \in Cyclers \cup {NoRun}
    /\ kill \in BOOLEAN /\ sys \in Row /\ lock \in Cyclers \cup {NoRun}
    /\ run \in [Runners -> Locals]
    /\ files \in [Files -> Deals \cup {NoDeal}] /\ index \in [Files -> Deals \cup {NoDeal}]
    /\ opening \in Row /\ overlaps \subseteq Int
    /\ slept \in 0..MaxClock /\ tangled \in BOOLEAN
    /\ started \in 0..MaxRuns /\ faults \in 0..MaxFaults

Init ==
    /\ clock = 0
    /\ owner = NoRun
    /\ kill = FALSE /\ sys = NoRow /\ lock = NoRun
    /\ run = [r \in Runners |-> Ended(IF r = "loop" THEN NextNine(0) ELSE 0)]
    /\ files = NoRows /\ index = NoRows
    /\ opening = NoRow /\ overlaps = {}
    /\ slept = 0 /\ tangled = FALSE
    /\ started = 0 /\ faults = 0

-----------------------------------------------------------------------------
(* The process *)

\* Slip: the connection stays open.
FinishConnected(r) ==
    /\ run' = [run EXCEPT ![r] = Ended(IF r = "loop" THEN NextNine(clock) ELSE 0)]
    /\ slept' = IF r = "loop" THEN clock ELSE slept
    /\ owner' = owner

\* A process gone back to sleep, or over; the connection is closed in `finally`.
Finish(r) ==
    /\ run' = [run EXCEPT ![r] = Ended(IF r = "loop" THEN NextNine(clock) ELSE 0)]
    /\ slept' = IF r = "loop" THEN clock ELSE slept
    /\ owner' = IF owner = r THEN NoRun ELSE owner

\* With the kill switch up the loop sleeps another day.
Wake ==
    /\ run["loop"].pc = "idle" /\ clock >= run["loop"].wake
    /\ \/ /\ kill
          /\ Finish("loop")
       \/ /\ ~kill
          /\ run' = [run EXCEPT !["loop"].pc = "connect", !["loop"].wake = 0]
          /\ slept' = 0 /\ UNCHANGED owner
    /\ UNCHANGED <<clock, guard, disk, counters>>

StartOnce ==
    /\ run["once"].pc = "idle"
    /\ started < MaxRuns
    /\ run' = [run EXCEPT !["once"].pc = "connect"]
    /\ started' = started + 1
    /\ UNCHANGED <<clock, owner, guard, disk, slept, faults>>

\* A gateway that is down, or another process under the same client id: decisions only,
\* sized on the configured capital.
Connect(r) ==
    /\ run[r].pc = "connect"
    /\ \/ /\ owner = NoRun
          /\ owner' = r
          /\ run' = [run EXCEPT ![r].pc = "net"]
       \/ /\ run' = [run EXCEPT ![r].pc = "load", ![r].net = Capital]
          /\ UNCHANGED owner
    /\ UNCHANGED <<clock, guard, disk, slept, counters>>

\* A summary without the NetLiquidation tag reads as 0.0.
ReadNetLiq(r) ==
    /\ run[r].pc = "net"
    /\ \/ /\ \E net \in NetLiqs : run' = [run EXCEPT ![r].pc = "load", ![r].net = net]
          /\ UNCHANGED faults
       \/ /\ faults < MaxFaults
          /\ faults' = faults + 1
          /\ run' = [run EXCEPT ![r].pc = "load", ![r].net = 0]
    /\ UNCHANGED <<clock, owner, guard, disk, slept, started>>

LoadCandidates(r) ==
    /\ run[r].pc = "load"
    /\ \E rows \in 0..MaxRows :
         run' = [run EXCEPT ![r].pc = "check", ![r].left = rows]
    /\ UNCHANGED <<clock, owner, guard, disk, slept, counters>>

-----------------------------------------------------------------------------
(* run_daily_cycle up to its loop *)

Breached(net, baseline) ==
    baseline > 0 /\ (baseline - net) * 100 >= LimitPct * baseline

Deciding == {"decide", "file", "read", "index", "execute"}

PastTheSwitch(r) == run[r].pc \in {"baseline"} \cup Deciding

\* The switch, then the date of the baseline, then either the comparison or a new
\* baseline; the amount a baseline is compared with is the row's, so far as committed.
Check(r) ==
    LET net == run[r].net
    IN  /\ run[r].pc = "check"
        /\ \/ /\ kill \/ (sys.day = Today /\ Breached(net, sys.amount))
              /\ kill' = TRUE
              /\ Finish(r)
              /\ UNCHANGED overlaps
           \/ /\ ~kill /\ ~(sys.day = Today /\ Breached(net, sys.amount))
              /\ run' = [run EXCEPT ![r].pc = IF sys.day = Today THEN "decide" ELSE "baseline",
                                    ![r].day = Today, ![r].seen = sys,
                                    ![r].late = (opening.day = Today)]
              /\ overlaps' = IF \E o \in Cyclers \ {r} : PastTheSwitch(o)
                             THEN overlaps \cup {Today} ELSE overlaps
              /\ UNCHANGED <<kill, slept, owner>>
        /\ UNCHANGED <<clock, sys, lock, opening, disk, counters>>

\* A first row that the other session inserted meanwhile raises. The amount is written
\* only where it differs from what the session loaded.
SetBaseline(r) ==
    /\ run[r].pc = "baseline"
    /\ lock = NoRun
    /\ \/ /\ run[r].seen = NoRow /\ sys # NoRow
          /\ Finish(r)
          /\ UNCHANGED lock
       \/ /\ ~(run[r].seen = NoRow /\ sys # NoRow)
          /\ lock' = r
          /\ run' = [run EXCEPT ![r].pc = "decide"]
          /\ UNCHANGED <<slept, owner>>
    /\ UNCHANGED <<clock, kill, sys, opening, overlaps, disk, counters>>

\* What the session of the run has flushed.
Pending(r) ==
    [day |-> run[r].day,
     amount |-> IF run[r].seen # NoRow /\ run[r].seen.amount = run[r].net
                THEN sys.amount ELSE run[r].net]

\* The history of the day's first run that was not cut off.
Opens(r) ==
    opening' = IF opening.day >= run[r].day THEN opening
               ELSE IF lock = r THEN Pending(r) ELSE run[r].seen

\* Slip: the session of a run that submits nothing is not committed.
LeaveUncommitted(r) ==
    /\ sys' = sys
    /\ lock' = IF lock = r THEN NoRun ELSE lock
    /\ Opens(r)

Commit(r) ==
    /\ sys' = IF lock = r THEN Pending(r) ELSE sys
    /\ lock' = IF lock = r THEN NoRun ELSE lock
    /\ Opens(r)

-----------------------------------------------------------------------------
(* One candidate: priced without the broker, decided, surfaced, executed *)

\* Slip: one candidate more than there are.
DecideAny(r) ==
    /\ run[r].pc = "decide"
    /\ run' = [run EXCEPT ![r].left = @ - 1]
    /\ UNCHANGED <<clock, owner, guard, disk, slept, counters>>

\* No price, a thin spread, no edge: nothing is surfaced.
Decide(r) ==
    /\ run[r].pc = "decide"
    /\ run[r].left > 0
    /\ \/ run' = [run EXCEPT ![r].left = @ - 1]
       \/ \E d \in Deals :
            run' = [run EXCEPT ![r].left = @ - 1, ![r].deal = d, ![r].pc = "file"]
    /\ UNCHANGED <<clock, owner, guard, disk, slept, counters>>

\* decision_filename, on the day it is asked.
FileOf(d) == <<Today, NameOf[d]>>

Emitting(r) == run[r].pc \in {"read", "index"}

WriteFile(r) ==
    /\ run[r].pc = "file"
    /\ files' = [files EXCEPT ![FileOf(run[r].deal)] = run[r].deal]
    /\ run' = [run EXCEPT ![r].pc = "read", ![r].file = FileOf(run[r].deal)]
    /\ tangled' = (tangled \/ \E o \in Runners \ {r} : Emitting(o))
    /\ UNCHANGED <<clock, owner, guard, index, slept, counters>>

ReadIndex(r) ==
    /\ run[r].pc = "read"
    /\ run' = [run EXCEPT ![r].pc = "index", ![r].rows = index]
    /\ UNCHANGED <<clock, owner, guard, disk, slept, counters>>

\* Slip: the rows that were there are not carried over.
OnlyRow(rows, f, d) == [NoRows EXCEPT ![f] = d]

Upserted(rows, f, d) == [rows EXCEPT ![f] = d]

\* Only the scheduler goes on to execution.
WriteIndex(r) ==
    /\ run[r].pc = "index"
    /\ index' = Upserted(run[r].rows, run[r].file, run[r].deal)
    /\ run' = [run EXCEPT ![r].pc = IF r \in Cyclers THEN "execute" ELSE "decide",
                          ![r].rows = NoRows, ![r].deal = NoDeal,
                          ![r].file = NoFile]
    /\ UNCHANGED <<clock, owner, guard, files, tangled, slept, counters>>

\* The disk refuses: the scheduler goes on, the script does not.
EmitFails(r) ==
    /\ run[r].pc \in {"file", "read", "index"}
    /\ faults < MaxFaults
    /\ faults' = faults + 1
    /\ tangled' = TRUE
    /\ IF r \in Cyclers
       THEN /\ run' = [run EXCEPT ![r].pc = "execute", ![r].rows = NoRows, ![r].deal = NoDeal,
                          ![r].file = NoFile]
            /\ UNCHANGED <<slept, owner>>
       ELSE Finish(r)
    /\ UNCHANGED <<clock, guard, files, index, started>>

BrokerAvailable(r) == owner = r

\* submit() commits the session on its way; a cooldown or a duplicate does not.
Execute(r) ==
    /\ run[r].pc = "execute"
    /\ run' = [run EXCEPT ![r].pc = "decide"]
    /\ \/ BrokerAvailable(r) /\ Commit(r)
       \/ UNCHANGED <<sys, lock, opening>>
    /\ UNCHANGED <<clock, owner, kill, overlaps, disk, slept, counters>>

\* The end of the loop.
EndCycle(r) ==
    /\ run[r].pc = "decide" /\ run[r].left = 0
    /\ Commit(r)
    /\ Finish(r)
    /\ UNCHANGED <<clock, kill, overlaps, disk, counters>>

\* An exception inside the loop passes the commit in `finally`.
CycleRaises(r) ==
    /\ run[r].pc \in {"decide", "execute"}
    /\ faults < MaxFaults
    /\ faults' = faults + 1
    /\ Commit(r)
    /\ Finish(r)
    /\ UNCHANGED <<clock, kill, overlaps, disk, started>>

\* The process dies: its session rolls back. Whoever runs the loop starts it again.
Cut(r) ==
    /\ run[r].pc # "idle"
    /\ faults < MaxFaults
    /\ faults' = faults + 1
    /\ lock' = IF lock = r THEN NoRun ELSE lock
    /\ index' \in (IF run[r].pc = "index" THEN {index, NoRows} ELSE {index})
    /\ tangled' = (tangled \/ Emitting(r))
    /\ Finish(r)
    /\ UNCHANGED <<clock, kill, sys, opening, overlaps, files, started>>

Cycle(r) ==
    \/ Connect(r) \/ ReadNetLiq(r) \/ LoadCandidates(r) \/ Check(r) \/ SetBaseline(r)
    \/ Execute(r) \/ EndCycle(r)

Surface(r) == Decide(r) \/ WriteFile(r) \/ ReadIndex(r) \/ WriteIndex(r)

-----------------------------------------------------------------------------
(* p14_decide_fresh: no switch, no baseline, no broker *)

StartFresh ==
    /\ run["fresh"].pc = "idle"
    /\ started < MaxRuns
    /\ \E rows \in 1..MaxRows :
         run' = [run EXCEPT !["fresh"].pc = "decide", !["fresh"].left = rows]
    /\ started' = started + 1
    /\ UNCHANGED <<clock, owner, guard, disk, slept, faults>>

EndFresh ==
    /\ run["fresh"].pc = "decide" /\ run["fresh"].left = 0
    /\ Finish("fresh")
    /\ UNCHANGED <<clock, guard, disk, counters>>

-----------------------------------------------------------------------------
(* Around the processes *)

Tick ==
    /\ clock < MaxClock
    /\ clock' = clock + 1
    /\ UNCHANGED <<owner, guard, disk, run, slept, counters>>

\* IBKR closes the connection; nothing opens it again (reconnect() has no caller).
GatewayDrops ==
    /\ owner # NoRun
    /\ owner' = NoRun
    /\ UNCHANGED <<clock, guard, disk, run, slept, counters>>

\* !stop, or the flag file touched or removed by hand.
OperatorFlips ==
    /\ kill' = ~kill
    /\ UNCHANGED <<clock, owner, sys, lock, opening, overlaps, disk, run, slept, counters>>

Next ==
    \/ Wake \/ StartOnce \/ StartFresh \/ EndFresh
    \/ \E r \in Cyclers : Cycle(r) \/ CycleRaises(r)
    \/ \E r \in Runners : Surface(r) \/ EmitFails(r) \/ Cut(r)
    \/ Tick \/ GatewayDrops \/ OperatorFlips

Spec == Init /\ [][Next]_vars

-----------------------------------------------------------------------------
(***************************************************************************)
(* The daily loss limit of docs/TRADING.md, as far as the code keeps it:   *)
(* when a run of the day came to its end, and no two overlapped on it,    *)
(* no later run of the day decides on a NetLiq the limit below the amount  *)
(* that run left.  It needs the commit in `finally` on every path; it says *)
(* nothing of a first run, which is compared with itself, and nothing      *)
(* after one that read 0.0.                                                *)
(***************************************************************************)
LossStops ==
    \A r \in Cyclers :
        (/\ run[r].pc \in Deciding /\ run[r].late
         /\ run[r].day = opening.day /\ opening.day \notin overlaps)
        => ~Breached(run[r].net, opening.amount)

\* INDEX.md is read, changed and written whole, after the decision's file: while no two
\* emissions overlapped and none was cut off, it names exactly the files there are and
\* the deals they show, whichever process wrote them.
IndexAgrees ==
    ~tangled => \A f \in Files : 
        files[f] = index[f] \/ \E r \in Runners : Emitting(r) /\ run[r].file = f

\* next_paris_time across the change of the clocks: the loop sleeps until the first
\* instant Paris clocks show nine, never past it and never into another hour.
SleepsTillNine ==
    run["loop"].pc = "idle" =>
        LET wake == run["loop"].wake
        IN  /\ wake > slept /\ ParisHour(wake) = Nine
            /\ \A hour \in (slept + 1)..(wake - 1) : ParisHour(hour) # Nine

\* A row lock or the client id left behind by a run that halted, raised, was cut off or
\* lost its connection would stop every later run: whoever has one is still at work, and
\* a run that waits for the lock waits for one that needs nothing of it.
NothingHeldAfterwards ==
    /\ owner # NoRun => run[owner].pc # "idle"
    /\ lock # NoRun => run[lock].pc \in Deciding
    /\ \A r \in Cyclers : run[r].pc = "baseline" => lock # r

=============================================================================
