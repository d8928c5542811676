------------------------- MODULE TradingDay_proofs -------------------------
(***************************************************************************)
(* Theorems about TradingDay, for every set of deals, naming of their      *)
(* files, length of the day, change of the clocks, number of runs and      *)
(* faults.                                                                 *)
(***************************************************************************)
EXTENDS TradingDay, TLAPS

-----------------------------------------------------------------------------
(* Hours and days *)

LEMMA DivBounds ==
  ASSUME NEW a \in Int, NEW b \in Int, b > 0
  PROVE  a \div b \in Int /\ b * (a \div b) <= a /\ a < b * (a \div b) + b
OBVIOUS

LEMMA DivMonotone ==
  ASSUME NEW a \in Int, NEW c \in Int, NEW b \in Int, b > 0, a <= c
  PROVE  a \div b <= c \div b
<1> DEFINE q == a \div b
           r == c \div b
<1>1. q \in Int /\ r \in Int /\ b * q <= a /\ c < b * r + b
  BY DivBounds
<1> HIDE DEF q, r
<1>2. SUFFICES ASSUME r + 1 <= q PROVE FALSE
  BY <1>1 DEF q, r
<1>3. b * (q - (r + 1)) >= 0
  BY <1>1, <1>2
<1>4. b * (q - (r + 1)) = b * q - (b * r + b)
  BY <1>1
<1> QED
  BY <1>1, <1>3, <1>4

LEMMA DayType ==
  ASSUME NEW hour \in 0..MaxClock
  PROVE  hour \div HoursPerDay \in 0..(MaxClock \div HoursPerDay)
<1>1. 0 \div HoursPerDay <= hour \div HoursPerDay
  BY DayAssumption, DivMonotone
<1>2. hour \div HoursPerDay <= MaxClock \div HoursPerDay
  BY DayAssumption, DivMonotone
<1>3. 0 \div HoursPerDay = 0
  BY DayAssumption
<1> QED
  BY <1>1, <1>2, <1>3, DivBounds, DayAssumption

LEMMA NextNineType ==
  ASSUME NEW now \in Nat
  PROVE  NextNine(now) \in Int
<1>1. Offset(now) \in Nat /\ HoursPerDay \in Nat \ {0} /\ Nine \in Nat
  BY DayAssumption DEF Offset
<1> DEFINE local  == now + Offset(now)
           target == (local \div HoursPerDay) * HoursPerDay + Nine
           next   == IF target <= local THEN target + HoursPerDay ELSE target
<1>2. local \in Int /\ local \div HoursPerDay \in Int
  BY <1>1, DivBounds
<1>3. next \in Int
  <2> HIDE DEF local
  <2> QED
    BY <1>1, <1>2
<1>4. NextNine(now) = InstantOf(next)
  BY DEF NextNine
<1> HIDE DEF next
<1> QED
  BY <1>3, <1>4, DayAssumption DEF InstantOf

-----------------------------------------------------------------------------
(* Nine in Paris *)

LEMMA ModIs ==
  ASSUME NEW k \in Int, NEW h \in Nat \ {0}, NEW n \in 0..(h - 1)
  PROVE  (h * k + n) % h = n
<1> DEFINE a == h * k + n
           q == a \div h
           m == a % h
<1>1. a \in Int
  OBVIOUS
<1>2. q \in Int /\ m \in 0..(h - 1) /\ a = h * q + m
  <2> HIDE DEF a
  <2> QED BY <1>1
<1>3. h * k + n = h * q + m
  BY <1>2
<1> HIDE DEF q, m
<1>4. k = q
  <2>1. ASSUME k < q PROVE FALSE
    <3>1. h * (q - k - 1) >= 0
      BY <1>2, <2>1
    <3>2. h * (q - k - 1) = h * q - h * k - h
      BY <1>2
    <3> QED BY <1>2, <1>3, <3>1, <3>2
  <2>2. ASSUME q < k PROVE FALSE
    <3>1. h * (k - q - 1) >= 0
      BY <1>2, <2>2
    <3>2. h * (k - q - 1) = h * k - h * q - h
      BY <1>2
    <3> QED BY <1>2, <1>3, <3>1, <3>2
  <2> QED BY <1>2, <2>1, <2>2
<1>5. m = n
  BY <1>2, <1>3, <1>4
<1> QED BY <1>5 DEF m

LEMMA DivMod ==
  ASSUME NEW a \in Int, NEW h \in Nat \ {0}
  PROVE  a \div h \in Int /\ a % h \in 0..(h - 1) /\ a = h * (a \div h) + (a % h)
OBVIOUS

\* The next local nine comes after this local hour, and no other in between.
LEMMA TargetIsNext ==
  ASSUME NEW local \in Int
  PROVE  LET t    == (local \div HoursPerDay) * HoursPerDay + Nine
             next == IF t <= local THEN t + HoursPerDay ELSE t
         IN  /\ next \in Int /\ next > local /\ next % HoursPerDay = Nine
             /\ \A x \in Int : local < x /\ x < next => x % HoursPerDay # Nine
<1> DEFINE h    == HoursPerDay
           q    == local \div h
           t    == q * h + Nine
           next == IF t <= local THEN t + h ELSE t
           k    == IF t <= local THEN q + 1 ELSE q
<1>1. h \in Nat \ {0} /\ Nine \in 0..(h - 1)
  BY DayAssumption
<1>2. q \in Int /\ local < h * q + h /\ h * q <= local
  <2>1. q \in Int /\ local % h \in 0..(h - 1) /\ local = h * q + (local % h)
    BY <1>1, DivMod
  <2> HIDE DEF q, h
  <2> QED BY <1>1, <2>1
<1> HIDE DEF q, h
<1>3. q * h = h * q /\ h * (q + 1) = h * q + h /\ h * q \in Int
  BY <1>1, <1>2
<1>4. k \in Int /\ next = h * k + Nine /\ next \in Int /\ next > local
  BY <1>1, <1>2, <1>3
<1>5. next % h = Nine
  <2> HIDE DEF next, k
  <2> QED BY <1>1, <1>4, ModIs
<1>6. ASSUME NEW x \in Int, local < x, x < next, x % h = Nine PROVE FALSE
  <2> DEFINE d == x \div h
  <2>1. d \in Int /\ x = h * d + Nine
    BY <1>1, <1>6, DivMod
  <2> HIDE DEF d
  <2>2. d < k
    <3> HIDE DEF next, k
    <3>1. SUFFICES ASSUME k <= d PROVE FALSE
      BY <1>4, <2>1
    <3>2. h * (d - k) >= 0 /\ h * (d - k) = h * d - h * k
      BY <1>1, <1>4, <2>1, <3>1
    <3> QED BY <1>1, <1>4, <1>6, <2>1, <3>2
  <2>3. CASE t <= local
    <3>1. d <= q
      BY <1>2, <2>1, <2>2, <2>3
    <3>2. h * (q - d) >= 0 /\ h * (q - d) = h * q - h * d
      BY <1>1, <1>2, <2>1, <3>1
    <3> QED BY <1>1, <1>2, <1>3, <1>6, <2>1, <2>3, <3>2
  <2>4. CASE ~(t <= local)
    <3>1. q - d - 1 >= 0
      BY <1>2, <2>1, <2>2, <2>4
    <3>2. h * (q - d - 1) >= 0 /\ h * (q - d - 1) = h * q - h * d - h
      BY <1>1, <1>2, <2>1, <3>1
    <3> QED BY <1>1, <1>2, <1>6, <2>1, <3>2
  <2> QED BY <2>3, <2>4
<1> QED BY <1>4, <1>5, <1>6 DEF h, q

\* Local time only goes forward, and each local hour that is shown has its instant.
LEMMA LocalTime ==
  /\ \A a, b \in Int : a < b => a + Offset(a) < b + Offset(b)
  /\ \A a \in Int : a + Offset(a) \in Int
  /\ \A local \in Int : local % HoursPerDay = Nine =>
        InstantOf(local) \in Int /\ InstantOf(local) + Offset(InstantOf(local)) = local
<1>1. Winter \in Int /\ Summer \in Int /\ Spring \in Int /\ Winter <= Summer
  BY DayAssumption, ClockAssumption
<1>2. ASSUME NEW local \in Int, local % HoursPerDay = Nine
      PROVE  InstantOf(local) \in Int /\ InstantOf(local) + Offset(InstantOf(local)) = local
  <2>1. CASE local - Winter < Spring
    BY <1>1, <2>1 DEF InstantOf, Offset
  <2>2. CASE ~(local - Winter < Spring)
    <3>1. local \notin (Spring + Winter)..(Spring + Summer - 1)
      BY <1>2, ClockAssumption
    <3>2. local - Summer >= Spring
      BY <1>1, <2>2, <3>1
    <3> QED BY <1>1, <2>2, <3>2 DEF InstantOf, Offset
  <2> QED BY <2>1, <2>2
<1> QED BY <1>1, <1>2 DEF Offset

LEMMA NextNineIsNine ==
  ASSUME NEW now \in Int
  PROVE  /\ NextNine(now) \in Int /\ NextNine(now) > now
         /\ ParisHour(NextNine(now)) = Nine
         /\ \A hour \in (now + 1)..(NextNine(now) - 1) : ParisHour(hour) # Nine
<1> DEFINE local == now + Offset(now)
           t     == (local \div HoursPerDay) * HoursPerDay + Nine
           next  == IF t <= local THEN t + HoursPerDay ELSE t
           wake  == InstantOf(next)
<1>1. local \in Int
  BY LocalTime
<1>2. NextNine(now) = wake
  BY DEF NextNine
<1>3. /\ next \in Int /\ next > local /\ next % HoursPerDay = Nine
      /\ \A x \in Int : local < x /\ x < next => x % HoursPerDay # Nine
  <2> HIDE DEF local
  <2> QED BY <1>1, TargetIsNext
<1> HIDE DEF next, t
<1>4. wake \in Int /\ wake + Offset(wake) = next
  BY <1>3, LocalTime
<1> HIDE DEF wake
<1>5. wake > now
  BY <1>3, <1>4, LocalTime
<1>6. ParisHour(wake) = Nine
  BY <1>3, <1>4 DEF ParisHour
<1>7. ASSUME NEW hour \in (now + 1)..(wake - 1) PROVE ParisHour(hour) # Nine
  <2>1. hour \in Int /\ now < hour /\ hour < wake
    BY <1>4
  <2>2. /\ hour + Offset(hour) \in Int /\ local < hour + Offset(hour)
        /\ hour + Offset(hour) < next
    BY <1>4, <2>1, LocalTime
  <2> QED BY <1>3, <2>2 DEF ParisHour
<1> QED BY <1>2, <1>4, <1>5, <1>6, <1>7

-----------------------------------------------------------------------------
(* Types *)

LEMMA NoRowsType == NoRows \in [Files -> Deals \cup {NoDeal}]
BY DEF NoRows

LEMMA EndedType ==
  ASSUME NEW wake \in Int
  PROVE  Ended(wake) \in Locals /\ Ended(wake).pc = "idle"
BY DEF Ended, Locals, NoRow, Row, NoRows

LEMMA FinishType ==
  ASSUME TypeOK, NEW r \in Runners, Finish(r)
  PROVE  /\ run' \in [Runners -> Locals]
         /\ run' = [run EXCEPT ![r] = run'[r]]
         /\ run'[r].pc = "idle"
         /\ slept' \in 0..MaxClock
         /\ owner' \in Cyclers \cup {NoRun}
         /\ owner' # r
<1> DEFINE wake == IF r = "loop" THEN NextNine(clock) ELSE 0
<1>1. wake \in Int
  BY NextNineType DEF TypeOK
<1>2. run' = [run EXCEPT ![r] = Ended(wake)]
  BY DEF Finish
<1>3. r # NoRun
  BY DEF Runners, Cyclers, NoRun
<1> HIDE DEF wake
<1> QED
  BY <1>1, <1>2, <1>3, EndedType DEF TypeOK, Finish

\* The shared variables have their types.
SharedType ==
    /\ clock \in 0..MaxClock
    /\ owner \in Cyclers \cup {NoRun}
    /\ kill \in BOOLEAN /\ sys \in Row /\ lock \in Cyclers \cup {NoRun}
    /\ files \in [Files -> Deals \cup {NoDeal}] /\ index \in [Files -> Deals \cup {NoDeal}]
    /\ opening \in Row /\ overlaps \subseteq Int
    /\ slept \in 0..MaxClock /\ tangled \in BOOLEAN
    /\ started \in 0..MaxRuns /\ faults \in 0..MaxFaults

LEMMA InitType == Init => TypeOK
<1> SUFFICES ASSUME Init PROVE TypeOK
  OBVIOUS
<1> DEFINE wake(r) == IF r = "loop" THEN NextNine(0) ELSE 0
<1>1. run = [r \in Runners |-> Ended(wake(r))]
  BY DEF Init
<1>2. \A r \in Runners : wake(r) \in Int
  BY NextNineType
<1> HIDE DEF wake
<1>3. run \in [Runners -> Locals]
  BY <1>1, <1>2, EndedType
<1>4. NoRow \in Row /\ NoRun \in Cyclers \cup {NoRun}
  BY DEF NoRow, Row
<1>5. 0 \in 0..MaxClock /\ 0 \in 0..MaxRuns /\ 0 \in 0..MaxFaults /\ {} \subseteq Int
  BY DayAssumption
<1>6. SharedType
  BY <1>4, <1>5, NoRowsType DEF Init, SharedType
<1> QED
  BY <1>3, <1>6 DEF SharedType, TypeOK

LEMMA Stays ==
  /\ UNCHANGED guard => UNCHANGED kill /\ UNCHANGED sys /\ UNCHANGED lock
                        /\ UNCHANGED opening /\ UNCHANGED overlaps
  /\ UNCHANGED disk => UNCHANGED files /\ UNCHANGED index /\ UNCHANGED tangled
  /\ UNCHANGED counters => UNCHANGED started /\ UNCHANGED faults
BY DEF guard, disk, counters

LEMMA OneRunMoves ==
  ASSUME TypeOK, NEW r \in Runners, NEW now \in Locals, run' = [run EXCEPT ![r] = now]
  PROVE  run' \in [Runners -> Locals]
BY DEF TypeOK

Places == {"idle", "connect", "net", "load", "check", "baseline",
           "decide", "file", "read", "index", "execute"}

LEMMA LocalsType ==
  ASSUME NEW l \in Locals
  PROVE  /\ \A pc \in Places : [l EXCEPT !.pc = pc] \in Locals
         /\ \A wake \in Int : [l EXCEPT !.wake = wake] \in Locals
         /\ \A day \in Int : [l EXCEPT !.day = day] \in Locals
         /\ \A net \in Nat : [l EXCEPT !.net = net] \in Locals
         /\ \A seen \in Row : [l EXCEPT !.seen = seen] \in Locals
         /\ \A late \in BOOLEAN : [l EXCEPT !.late = late] \in Locals
         /\ \A left \in Nat : [l EXCEPT !.left = left] \in Locals
         /\ \A deal \in Deals \cup {NoDeal} : [l EXCEPT !.deal = deal] \in Locals
         /\ \A file \in Files \cup {NoFile} : [l EXCEPT !.file = file] \in Locals
         /\ \A rows \in [Files -> Deals \cup {NoDeal}] : [l EXCEPT !.rows = rows] \in Locals
BY DEF Places, Locals

\* A run that emits has a decided deal at hand.
DealAtHand ==
    \A r \in Runners : run[r].pc \in {"file", "read", "index"} => run[r].deal \in Deals

LEMMA EmissionType ==
  ASSUME TypeOK, NEW r \in Runners
  PROVE  /\ run[r].deal \in Deals => FileOf(run[r].deal) \in Files
         /\ Pending(r) \in Row
<1>1. run[r] \in Locals
  BY DEF TypeOK
<1>2. run[r].deal \in Deals \cup {NoDeal} /\ run[r].day \in Int /\ run[r].net \in Nat
  BY <1>1 DEF Locals
<1>3. Today \in 0..(MaxClock \div HoursPerDay)
  BY DayType DEF TypeOK, Today
<1>4. run[r].deal \in Deals => FileOf(run[r].deal) \in Files
  BY <1>3 DEF FileOf, Files
<1>5. Pending(r) \in Row
  BY <1>2 DEF Pending, Row, TypeOK
<1> QED
  BY <1>2, <1>4, <1>5

LEMMA OpensType ==
  ASSUME TypeOK, NEW r \in Runners, Opens(r)
  PROVE  opening' \in Row
<1>1. run[r] \in Locals
  BY DEF TypeOK
<1>2. run[r].seen \in Row
  BY <1>1 DEF Locals
<1> QED
  BY <1>2, EmissionType DEF Opens, TypeOK

LEMMA CommitType ==
  ASSUME TypeOK, NEW r \in Runners, Commit(r)
  PROVE  sys' \in Row /\ lock' \in Cyclers \cup {NoRun} /\ opening' \in Row
BY OpensType, EmissionType DEF Commit, TypeOK

LEMMA NextType == TypeOK /\ DealAtHand /\ [Next]_vars => TypeOK'
<1> SUFFICES ASSUME TypeOK, DealAtHand, [Next]_vars PROVE TypeOK'
  OBVIOUS
<1> USE DayAssumption
<1>a. Cyclers \subseteq Runners /\ "loop" \in Cyclers /\ "once" \in Cyclers
      /\ "fresh" \in Runners
  BY DEF Cyclers, Runners
<1>b. Today \in Int
  BY DivBounds DEF Today, TypeOK
<1>c. ASSUME NEW r \in Runners PROVE run[r] \in Locals
  BY <1>c DEF TypeOK
<1>d. run' \in [Runners -> Locals] /\ SharedType' => TypeOK'
  BY DEF TypeOK, SharedType
<1>1. ASSUME Wake, ~kill PROVE TypeOK'
  <2>1. run' = [run EXCEPT !["loop"] =
                     [[run["loop"] EXCEPT !.pc = "connect"] EXCEPT !.wake = 0]]
    BY <1>1, Zenon DEF Wake
  <2>2. [run["loop"] EXCEPT !.pc = "connect"] \in Locals
    BY <1>a, <1>c, LocalsType DEF Places
  <2>3. 0 \in Int
    OBVIOUS
  <2>4. [[run["loop"] EXCEPT !.pc = "connect"] EXCEPT !.wake = 0] \in Locals
    BY <2>2, <2>3, LocalsType, Zenon
  <2>5. run' \in [Runners -> Locals]
    BY <1>a, <2>1, <2>4, OneRunMoves
  <2>6. SharedType'
    BY <1>1, Stays DEF Wake, SharedType, TypeOK
  <2> QED
    BY <1>d, <2>5, <2>6
<1>2. ASSUME Wake, kill PROVE TypeOK'
  <2>1. Finish("loop") /\ UNCHANGED <<clock, guard, disk, counters>>
    BY <1>2 DEF Wake
  <2>2. SharedType'
    BY <1>a, <2>1, FinishType, Stays DEF SharedType, TypeOK
  <2> QED
    BY <1>a, <1>d, <2>1, <2>2, FinishType
<1>3. ASSUME StartOnce PROVE TypeOK'
  <2>1. run' = [run EXCEPT !["once"] = [run["once"] EXCEPT !.pc = "connect"]]
    BY <1>3, Zenon DEF StartOnce
  <2>2. [run["once"] EXCEPT !.pc = "connect"] \in Locals
    BY <1>a, <1>c, LocalsType DEF Places
  <2>3. run' \in [Runners -> Locals]
    BY <1>a, <2>1, <2>2, OneRunMoves
  <2>4. SharedType'
    BY <1>3, Stays DEF StartOnce, SharedType, TypeOK
  <2> QED
    BY <1>d, <2>3, <2>4
<1>4. ASSUME StartFresh PROVE TypeOK'
  <2>1. PICK rows \in 1..MaxRows :
          run' = [run EXCEPT !["fresh"] =
                     [[run["fresh"] EXCEPT !.pc = "decide"] EXCEPT !.left = rows]]
    BY <1>4, Zenon DEF StartFresh
  <2>2. [[run["fresh"] EXCEPT !.pc = "decide"] EXCEPT !.left = rows] \in Locals
    <3>1. [run["fresh"] EXCEPT !.pc = "decide"] \in Locals
      BY <1>a, <1>c, LocalsType DEF Places
    <3>2. rows \in Nat
      OBVIOUS
    <3> QED
      BY <3>1, <3>2, LocalsType, Zenon
  <2>3. run' \in [Runners -> Locals]
    BY <1>a, <2>1, <2>2, OneRunMoves
  <2>4. SharedType'
    BY <1>4, Stays DEF StartFresh, SharedType, TypeOK
  <2> QED
    BY <1>d, <2>3, <2>4
<1>5. ASSUME EndFresh PROVE TypeOK'
  <2>1. Finish("fresh") /\ UNCHANGED <<clock, guard, disk, counters>>
    BY <1>5 DEF EndFresh
  <2>2. SharedType'
    BY <1>a, <2>1, FinishType, Stays DEF SharedType, TypeOK
  <2> QED
    BY <1>a, <1>d, <2>1, <2>2, FinishType
<1>6. ASSUME NEW r \in Cyclers, Connect(r) PROVE TypeOK'
  <2>1. \/ run' = [run EXCEPT ![r] = [run[r] EXCEPT !.pc = "net"]]
        \/ run' = [run EXCEPT ![r] = [[run[r] EXCEPT !.pc = "load"] EXCEPT !.net = Capital]]
    BY <1>6, Zenon DEF Connect
  <2>2. [run[r] EXCEPT !.pc = "net"] \in Locals
    BY <1>a, <1>c, LocalsType DEF Places
  <2>3. [[run[r] EXCEPT !.pc = "load"] EXCEPT !.net = Capital] \in Locals
    BY <1>a, <1>c, LocalsType DEF Places
  <2>4. run' \in [Runners -> Locals]
    BY <1>a, <2>1, <2>2, <2>3, OneRunMoves
  <2>5. SharedType'
    BY <1>6, Stays DEF Connect, SharedType, TypeOK
  <2> QED
    BY <1>d, <2>4, <2>5
<1>7. ASSUME NEW r \in Cyclers, ReadNetLiq(r) PROVE TypeOK'
  <2>1. PICK net \in Nat :
          run' = [run EXCEPT ![r] = [[run[r] EXCEPT !.pc = "load"] EXCEPT !.net = net]]
    BY <1>7 DEF ReadNetLiq
  <2>2. [[run[r] EXCEPT !.pc = "load"] EXCEPT !.net = net] \in Locals
    BY <1>a, <1>c, <2>1, LocalsType DEF Places
  <2>3. run' \in [Runners -> Locals]
    BY <1>a, <2>1, <2>2, OneRunMoves
  <2>4. SharedType'
    BY <1>7, Stays DEF ReadNetLiq, SharedType, TypeOK
  <2> QED
    BY <1>d, <2>3, <2>4
<1>8. ASSUME NEW r \in Cyclers, LoadCandidates(r) PROVE TypeOK'
  <2>1. PICK rows \in 0..MaxRows :
          run' = [run EXCEPT ![r] = [[run[r] EXCEPT !.pc = "check"] EXCEPT !.left = rows]]
    BY <1>8, Zenon DEF LoadCandidates
  <2>2. [[run[r] EXCEPT !.pc = "check"] EXCEPT !.left = rows] \in Locals
    <3>1. [run[r] EXCEPT !.pc = "check"] \in Locals
      BY <1>a, <1>c, LocalsType DEF Places
    <3>2. rows \in Nat
      OBVIOUS
    <3> QED
      BY <3>1, <3>2, LocalsType, Zenon
  <2>3. run' \in [Runners -> Locals]
    BY <1>a, <2>1, <2>2, OneRunMoves
  <2>4. SharedType'
    BY <1>8, Stays DEF LoadCandidates, SharedType, TypeOK
  <2> QED
    BY <1>d, <2>3, <2>4
<1>9. ASSUME NEW r \in Cyclers, Check(r), ~Finish(r) PROVE TypeOK'
  <2> DEFINE pc   == IF sys.day = Today THEN "decide" ELSE "baseline"
             late == (opening.day = Today)
  <2>1. run' = [run EXCEPT ![r] = [[[[run[r] EXCEPT !.pc = pc] EXCEPT !.day = Today]
                                      EXCEPT !.seen = sys] EXCEPT !.late = late]]
    BY <1>9, Zenon DEF Check
  <2>2. pc \in Places /\ sys \in Row
    BY DEF Places, TypeOK
  <2>3. late \in BOOLEAN
    OBVIOUS
  <2> HIDE DEF pc, late
  <2>4. [[[[run[r] EXCEPT !.pc = pc] EXCEPT !.day = Today]
             EXCEPT !.seen = sys] EXCEPT !.late = late] \in Locals
    BY <1>a, <1>b, <1>c, <2>2, <2>3, LocalsType
  <2>5. run' \in [Runners -> Locals]
    BY <1>a, <2>1, <2>4, OneRunMoves
  <2>6. SharedType'
    BY <1>9, <1>b, Stays DEF Check, SharedType, TypeOK
  <2> QED
    BY <1>d, <2>5, <2>6
<1>10. ASSUME NEW r \in Cyclers, Check(r), Finish(r) PROVE TypeOK'
  <2>1. SharedType'
    BY <1>10, <1>a, <1>b, FinishType, Stays DEF Check, SharedType, TypeOK
  <2> QED
    BY <1>10, <1>a, <1>d, <2>1, FinishType
<1>11. ASSUME NEW r \in Cyclers, SetBaseline(r), ~Finish(r) PROVE TypeOK'
  <2>1. run' = [run EXCEPT ![r] = [run[r] EXCEPT !.pc = "decide"]]
    BY <1>11, Zenon DEF SetBaseline
  <2>2. [run[r] EXCEPT !.pc = "decide"] \in Locals
    BY <1>a, <1>c, LocalsType DEF Places
  <2>3. run' \in [Runners -> Locals]
    BY <1>a, <2>1, <2>2, OneRunMoves
  <2>4. SharedType'
    BY <1>11, Stays DEF SetBaseline, SharedType, TypeOK
  <2> QED
    BY <1>d, <2>3, <2>4
<1>12. ASSUME NEW r \in Cyclers, SetBaseline(r), Finish(r) PROVE TypeOK'
  <2>1. SharedType'
    BY <1>12, <1>a, FinishType, Stays DEF SetBaseline, SharedType, TypeOK
  <2> QED
    BY <1>12, <1>a, <1>d, <2>1, FinishType
<1>13. ASSUME NEW r \in Runners, Decide(r) PROVE TypeOK'
  <2>1. \/ run' = [run EXCEPT ![r] = [run[r] EXCEPT !.left = run[r].left - 1]]
        \/ \E d \in Deals :
             run' = [run EXCEPT ![r] = [[[run[r] EXCEPT !.left = run[r].left - 1]
                                          EXCEPT !.deal = d] EXCEPT !.pc = "file"]]
    BY <1>13, Zenon DEF Decide
  <2>2. run[r].left - 1 \in Nat
    <3>1. run[r] \in Locals
      BY <1>13, <1>c
    <3>2. run[r].left \in Nat
      BY <3>1 DEF Locals
    <3>3. run[r].left > 0
      BY <1>13 DEF Decide
    <3> QED
      BY <3>2, <3>3
  <2>3. /\ [run[r] EXCEPT !.left = run[r].left - 1] \in Locals
        /\ \A d \in Deals : [[[run[r] EXCEPT !.left = run[r].left - 1]
                                EXCEPT !.deal = d] EXCEPT !.pc = "file"] \in Locals
    BY <1>c, <2>2, LocalsType DEF Places
  <2>4. run' \in [Runners -> Locals]
    BY <2>1, <2>3, OneRunMoves
  <2>5. SharedType'
    BY <1>13, Stays DEF Decide, SharedType, TypeOK
  <2> QED
    BY <1>d, <2>4, <2>5
<1>14. ASSUME NEW r \in Runners, WriteFile(r) PROVE TypeOK'
  <2> DEFINE deal == run[r].deal
             file == FileOf(deal)
  <2>1. run' = [run EXCEPT ![r] = [[run[r] EXCEPT !.pc = "read"] EXCEPT !.file = file]]
    BY <1>14, Zenon DEF WriteFile
  <2>2. deal \in Deals \cup {NoDeal}
    <3>1. run[r] \in Locals
      BY <1>c
    <3> QED
      BY <3>1 DEF Locals
  <2>3. file \in Files
    BY <1>14, EmissionType DEF WriteFile, DealAtHand
  <2> HIDE DEF file
  <2>4. [[run[r] EXCEPT !.pc = "read"] EXCEPT !.file = file] \in Locals
    BY <1>c, <2>3, LocalsType DEF Places
  <2>5. run' \in [Runners -> Locals]
    BY <2>1, <2>4, OneRunMoves
  <2>6. files' \in [Files -> Deals \cup {NoDeal}]
    BY <1>14, <2>2 DEF WriteFile, TypeOK
  <2>7. tangled' \in BOOLEAN
    BY <1>14 DEF WriteFile, TypeOK
  <2>8. SharedType'
    BY <1>14, <2>6, <2>7, Stays DEF WriteFile, SharedType, TypeOK
  <2> QED
    BY <1>d, <2>5, <2>8
<1>15. ASSUME NEW r \in Runners, ReadIndex(r) PROVE TypeOK'
  <2>1. run' = [run EXCEPT ![r] = [[run[r] EXCEPT !.pc = "index"] EXCEPT !.rows = index]]
    BY <1>15, Zenon DEF ReadIndex
  <2>2. [[run[r] EXCEPT !.pc = "index"] EXCEPT !.rows = index] \in Locals
    BY <1>c, LocalsType DEF Places, TypeOK
  <2>3. run' \in [Runners -> Locals]
    BY <2>1, <2>2, OneRunMoves
  <2>4. SharedType'
    BY <1>15, Stays DEF ReadIndex, SharedType, TypeOK
  <2> QED
    BY <1>d, <2>3, <2>4
<1>16. ASSUME NEW r \in Runners, WriteIndex(r) PROVE TypeOK'
  <2> DEFINE next == IF r \in Cyclers THEN "execute" ELSE "decide"
  <2>1. run' = [run EXCEPT ![r] = [[[[run[r] EXCEPT !.pc = next] EXCEPT !.rows = NoRows]
                                      EXCEPT !.deal = NoDeal] EXCEPT !.file = NoFile]]
    BY <1>16, Zenon DEF WriteIndex
  <2>2. next \in Places
    BY DEF Places
  <2> HIDE DEF next
  <2>3. [[[[run[r] EXCEPT !.pc = next] EXCEPT !.rows = NoRows]
             EXCEPT !.deal = NoDeal] EXCEPT !.file = NoFile] \in Locals
    BY <1>c, <2>2, NoRowsType, LocalsType
  <2>4. run' \in [Runners -> Locals]
    BY <2>1, <2>3, OneRunMoves
  <2>5. index' \in [Files -> Deals \cup {NoDeal}]
    <3>1. run[r] \in Locals
      BY <1>c
    <3>2. run[r].rows \in [Files -> Deals \cup {NoDeal}] /\ run[r].deal \in Deals \cup {NoDeal}
      BY <3>1 DEF Locals
    <3> QED
      BY <1>16, <3>2 DEF WriteIndex, Upserted
  <2>6. SharedType'
    BY <1>16, <2>5, Stays DEF WriteIndex, SharedType, TypeOK
  <2> QED
    BY <1>d, <2>4, <2>6
<1>17. ASSUME NEW r \in Cyclers, EmitFails(r) PROVE TypeOK'
  <2>1. run' = [run EXCEPT ![r] = [[[[run[r] EXCEPT !.pc = "execute"] EXCEPT !.rows = NoRows]
                                      EXCEPT !.deal = NoDeal] EXCEPT !.file = NoFile]]
    BY <1>17, Zenon DEF EmitFails
  <2>2. [[[[run[r] EXCEPT !.pc = "execute"] EXCEPT !.rows = NoRows]
             EXCEPT !.deal = NoDeal] EXCEPT !.file = NoFile] \in Locals
    BY <1>a, <1>c, NoRowsType, LocalsType DEF Places
  <2>3. run' \in [Runners -> Locals]
    BY <1>a, <2>1, <2>2, OneRunMoves
  <2>4. SharedType'
    BY <1>17, Stays DEF EmitFails, SharedType, TypeOK
  <2> QED
    BY <1>d, <2>3, <2>4
<1>18. ASSUME EmitFails("fresh") PROVE TypeOK'
  <2>1. Finish("fresh") /\ UNCHANGED <<clock, guard, files, index, started>> /\ tangled' = TRUE
        /\ faults < MaxFaults /\ faults' = faults + 1
    BY <1>18 DEF EmitFails, Cyclers
  <2>2. slept' \in 0..MaxClock /\ owner' \in Cyclers \cup {NoRun}
        /\ run' \in [Runners -> Locals]
    BY <1>a, <2>1, FinishType
  <2>3. faults' \in 0..MaxFaults
    BY <2>1 DEF TypeOK
  <2>4. SharedType'
    BY <2>1, <2>2, <2>3, Stays DEF SharedType, TypeOK
  <2> QED
    BY <1>d, <2>2, <2>4
<1>19. ASSUME NEW r \in Cyclers, Execute(r) PROVE TypeOK'
  <2>1. run' = [run EXCEPT ![r] = [run[r] EXCEPT !.pc = "decide"]]
    BY <1>19, Zenon DEF Execute
  <2>2. [run[r] EXCEPT !.pc = "decide"] \in Locals
    BY <1>a, <1>c, LocalsType DEF Places
  <2>3. run' \in [Runners -> Locals]
    BY <1>a, <2>1, <2>2, OneRunMoves
  <2>4. sys' \in Row /\ lock' \in Cyclers \cup {NoRun} /\ opening' \in Row
    BY <1>19, <1>a, CommitType DEF Execute, TypeOK
  <2>5. SharedType'
    BY <1>19, <2>4, Stays DEF Execute, SharedType, TypeOK
  <2> QED
    BY <1>d, <2>3, <2>5
<1>20. ASSUME NEW r \in Cyclers, EndCycle(r) \/ CycleRaises(r) PROVE TypeOK'
  <2>1. /\ Finish(r) /\ Commit(r) /\ UNCHANGED <<clock, kill, overlaps, disk, started>>
        /\ faults' \in 0..MaxFaults
    BY <1>20, Stays DEF EndCycle, CycleRaises, TypeOK
  <2>2. slept' \in 0..MaxClock /\ owner' \in Cyclers \cup {NoRun}
        /\ run' \in [Runners -> Locals]
    BY <1>a, <2>1, FinishType
  <2>3. sys' \in Row /\ lock' \in Cyclers \cup {NoRun} /\ opening' \in Row
    BY <1>a, <2>1, CommitType
  <2>4. SharedType'
    BY <2>1, <2>2, <2>3, Stays DEF SharedType, TypeOK
  <2> QED
    BY <1>d, <2>2, <2>4
<1>21. ASSUME NEW r \in Runners, Cut(r) PROVE TypeOK'
  <2>1. index' \in [Files -> Deals \cup {NoDeal}] /\ tangled' \in BOOLEAN
    BY <1>21, NoRowsType DEF Cut, TypeOK
  <2>2. SharedType'
    BY <1>21, <2>1, FinishType, Stays DEF Cut, SharedType, TypeOK
  <2> QED
    BY <1>21, <1>d, <2>2, FinishType DEF Cut
<1>22. ASSUME Tick PROVE TypeOK'
  <2>1. clock' \in 0..MaxClock
    BY <1>22 DEF Tick, TypeOK
  <2>2. SharedType'
    BY <1>22, <2>1, Stays DEF Tick, SharedType, TypeOK
  <2> QED
    BY <1>22, <1>d, <2>2 DEF Tick, TypeOK
<1>23. ASSUME GatewayDrops \/ OperatorFlips PROVE TypeOK'
  <2>1. owner' \in Cyclers \cup {NoRun} /\ kill' \in BOOLEAN /\ UNCHANGED run
    BY <1>23, Stays DEF GatewayDrops, OperatorFlips, TypeOK
  <2>2. SharedType'
    BY <1>23, <2>1, Stays DEF GatewayDrops, OperatorFlips, SharedType, TypeOK
  <2> QED
    BY <1>d, <2>1, <2>2 DEF TypeOK
<1>24. ASSUME UNCHANGED vars PROVE TypeOK'
  <2>1. SharedType' /\ UNCHANGED run
    BY <1>24, Stays DEF vars, SharedType, TypeOK
  <2> QED
    BY <1>d, <2>1 DEF TypeOK
<1> QED
  BY <1>1, <1>2, <1>3, <1>4, <1>5, <1>6, <1>7, <1>8, <1>9, <1>10, <1>11, <1>12,
     <1>13, <1>14, <1>15, <1>16, <1>17, <1>18, <1>19, <1>20, <1>21, <1>22, <1>23,
     <1>24
     DEF Next, Cycle, Surface, Runners

-----------------------------------------------------------------------------
(* What a step does to the runs *)

\* The others keep theirs.
OnlyMoves(r) == \A q \in Runners : q # r => run'[q] = run[q]

LEMMA FieldsOf ==
  ASSUME NEW l \in Locals
  PROVE  /\ \A pc : /\ [l EXCEPT !.pc = pc].pc = pc
                    /\ [l EXCEPT !.pc = pc].deal = l.deal
                    /\ [l EXCEPT !.pc = pc].file = l.file
                    /\ [l EXCEPT !.pc = pc].rows = l.rows
         /\ \A deal : [l EXCEPT !.deal = deal].deal = deal
BY DEF Locals

LEMMA DecideMoves ==
  ASSUME TypeOK, NEW r \in Runners, Decide(r)
  PROVE  /\ OnlyMoves(r)
         /\ run[r].pc = "decide"
         /\ run'[r].pc \in {"decide", "file"}
         /\ run'[r].pc = "file" => run'[r].deal \in Deals
<1>1. run[r] \in Locals /\ run[r].pc = "decide"
  BY DEF TypeOK, Decide
<1>2. CASE run' = [run EXCEPT ![r] = [run[r] EXCEPT !.left = run[r].left - 1]]
  <2>1. run'[r] = [run[r] EXCEPT !.left = run[r].left - 1] /\ OnlyMoves(r)
    BY <1>2 DEF OnlyMoves, TypeOK
  <2> QED
    BY <1>1, <2>1 DEF Locals
<1>3. ASSUME NEW d \in Deals,
             run' = [run EXCEPT ![r] = [[[run[r] EXCEPT !.left = run[r].left - 1]
                                            EXCEPT !.deal = d] EXCEPT !.pc = "file"]]
      PROVE  OnlyMoves(r) /\ run'[r].pc = "file" /\ run'[r].deal = d
  <2>1. run'[r] = [[[run[r] EXCEPT !.left = run[r].left - 1] EXCEPT !.deal = d]
                      EXCEPT !.pc = "file"] /\ OnlyMoves(r)
    BY <1>3 DEF OnlyMoves, TypeOK
  <2> QED
    BY <1>1, <2>1 DEF Locals
<1>4. \/ run' = [run EXCEPT ![r] = [run[r] EXCEPT !.left = run[r].left - 1]]
      \/ \E d \in Deals :
           run' = [run EXCEPT ![r] = [[[run[r] EXCEPT !.left = run[r].left - 1]
                                        EXCEPT !.deal = d] EXCEPT !.pc = "file"]]
  BY Zenon DEF Decide
<1> QED
  BY <1>1, <1>2, <1>3, <1>4

LEMMA AwayFromDisk ==
  ASSUME TypeOK, NEW r \in Cyclers,
         Connect(r) \/ ReadNetLiq(r) \/ LoadCandidates(r) \/ Check(r) \/ SetBaseline(r)
         \/ Execute(r) \/ EndCycle(r) \/ CycleRaises(r)
  PROVE  /\ OnlyMoves(r)
         /\ run[r].pc \notin {"file", "read", "index"}
         /\ run'[r].pc \notin {"file", "read", "index"}
         /\ UNCHANGED <<files, index, tangled>>
<1>a. r \in Runners /\ run[r] \in Locals
  BY DEF TypeOK, Cyclers, Runners
<1>1. CASE Finish(r)
  <2>1. run[r].pc \notin {"file", "read", "index"} /\ UNCHANGED disk
    BY DEF Connect, ReadNetLiq, LoadCandidates, Check, SetBaseline, Execute, EndCycle, CycleRaises
  <2> QED
    BY <1>1, <1>a, <2>1, FinishType, Stays DEF TypeOK, OnlyMoves
<1>2. CASE Connect(r)
  BY <1>2, <1>a, Stays DEF Connect, OnlyMoves, TypeOK, Locals
<1>3. CASE ReadNetLiq(r)
  BY <1>3, <1>a, Stays DEF ReadNetLiq, OnlyMoves, TypeOK, Locals
<1>4. CASE LoadCandidates(r)
  BY <1>4, <1>a, Stays DEF LoadCandidates, OnlyMoves, TypeOK, Locals
<1>5. CASE Check(r) /\ ~Finish(r)
  BY <1>5, <1>a, Stays DEF Check, OnlyMoves, TypeOK, Locals
<1>6. CASE SetBaseline(r) /\ ~Finish(r)
  BY <1>6, <1>a, Stays DEF SetBaseline, OnlyMoves, TypeOK, Locals
<1>7. CASE Execute(r)
  BY <1>7, <1>a, Stays DEF Execute, OnlyMoves, TypeOK, Locals
<1> QED
  BY <1>1, <1>2, <1>3, <1>4, <1>5, <1>6, <1>7 DEF EndCycle, CycleRaises

LEMMA StartsAndEnds ==
  ASSUME TypeOK, Wake \/ StartOnce \/ StartFresh \/ EndFresh
  PROVE  \E r \in Runners :
            /\ OnlyMoves(r)
            /\ run[r].pc \in {"idle", "decide"}
            /\ run'[r].pc \in {"idle", "connect", "decide"}
            /\ UNCHANGED <<files, index, tangled, lock>>
            /\ r \in Cyclers => run[r].pc = "idle" /\ run'[r].pc # "decide"
            /\ \/ UNCHANGED owner /\ (r \in Cyclers => run'[r].pc = "connect")
               \/ owner' = IF owner = r THEN NoRun ELSE owner
<1>a. {"loop", "once", "fresh"} \subseteq Runners /\ "fresh" \notin Cyclers
  BY DEF Cyclers, Runners
<1>b. \A r \in Runners : run[r] \in Locals
  BY DEF TypeOK
<1>1. CASE Wake /\ kill
  <2>1. Finish("loop") /\ run["loop"].pc = "idle" /\ UNCHANGED <<guard, disk>>
    BY <1>1 DEF Wake
  <2>2. OnlyMoves("loop") /\ run'["loop"].pc = "idle"
    BY <1>a, <2>1, FinishType DEF OnlyMoves, TypeOK
  <2> QED
    BY <1>a, <2>1, <2>2, Stays DEF Finish
<1>2. CASE Wake /\ ~kill
  <2>1. /\ run["loop"].pc = "idle" /\ UNCHANGED <<guard, disk, owner>>
        /\ run' = [run EXCEPT !["loop"].pc = "connect", !["loop"].wake = 0]
    BY <1>2 DEF Wake
  <2>2. OnlyMoves("loop") /\ run'["loop"].pc = "connect"
    BY <1>a, <1>b, <2>1 DEF OnlyMoves, TypeOK, Locals
  <2> QED
    BY <1>a, <2>1, <2>2, Stays
<1>3. CASE StartOnce
  <2>1. /\ run["once"].pc = "idle" /\ UNCHANGED <<guard, disk, owner>>
        /\ run' = [run EXCEPT !["once"].pc = "connect"]
    BY <1>3 DEF StartOnce
  <2>2. OnlyMoves("once") /\ run'["once"].pc = "connect"
    BY <1>a, <1>b, <2>1 DEF OnlyMoves, TypeOK, Locals
  <2> QED
    BY <1>a, <2>1, <2>2, Stays
<1>4. CASE StartFresh
  <2>1. /\ run["fresh"].pc = "idle" /\ UNCHANGED <<guard, disk, owner>>
        /\ \E rows \in 1..MaxRows :
             run' = [run EXCEPT !["fresh"].pc = "decide", !["fresh"].left = rows]
    BY <1>4 DEF StartFresh
  <2>2. OnlyMoves("fresh") /\ run'["fresh"].pc = "decide"
    BY <1>a, <1>b, <2>1 DEF OnlyMoves, TypeOK, Locals
  <2> QED
    BY <1>a, <2>1, <2>2, Stays
<1>5. CASE EndFresh
  <2>1. Finish("fresh") /\ run["fresh"].pc = "decide" /\ UNCHANGED <<guard, disk>>
    BY <1>5 DEF EndFresh
  <2>2. OnlyMoves("fresh") /\ run'["fresh"].pc = "idle"
    BY <1>a, <2>1, FinishType DEF OnlyMoves, TypeOK
  <2> QED
    BY <1>a, <2>1, <2>2, Stays DEF Finish
<1> QED
  BY <1>1, <1>2, <1>3, <1>4, <1>5

-----------------------------------------------------------------------------
(* What is held *)

HeldInv ==
    /\ owner # NoRun => run[owner].pc # "idle"
    /\ lock # NoRun => run[lock].pc \in Deciding

LEMMA NextHeld == TypeOK /\ HeldInv /\ [Next]_vars => HeldInv'
<1> SUFFICES ASSUME TypeOK, HeldInv, [Next]_vars PROVE HeldInv'
  OBVIOUS
<1> USE DEF HeldInv
<1>a. /\ Cyclers \subseteq Runners /\ Runners = Cyclers \cup {"fresh"} /\ "fresh" \notin Cyclers
      /\ owner \in Cyclers \cup {NoRun} /\ lock \in Cyclers \cup {NoRun} /\ NoRun \notin Runners
  BY DEF Cyclers, Runners, NoRun, TypeOK
<1>b. \A r \in Runners : run[r] \in Locals
  BY DEF TypeOK
<1>c. ASSUME NEW r \in Runners, OnlyMoves(r), UNCHANGED <<owner, lock>>,
             run[r].pc # "idle" => run'[r].pc # "idle",
             run[r].pc \in Deciding => run'[r].pc \in Deciding
      PROVE  HeldInv'
  BY <1>a, <1>c DEF OnlyMoves
<1>d. ASSUME NEW r \in Runners, Finish(r), lock' = lock \/ lock' = NoRun, lock' # r
      PROVE  HeldInv'
  <2>1. OnlyMoves(r) /\ (owner' = NoRun \/ owner' = owner) /\ owner' # r
    BY <1>d, FinishType DEF OnlyMoves, TypeOK, Finish
  <2> QED
    BY <1>a, <1>d, <2>1 DEF OnlyMoves
<1>1. CASE Wake \/ StartOnce \/ StartFresh \/ EndFresh
  <2>1. PICK r \in Runners :
            /\ OnlyMoves(r)
            /\ run[r].pc \in {"idle", "decide"}
            /\ run'[r].pc \in {"idle", "connect", "decide"}
            /\ UNCHANGED <<files, index, tangled, lock>>
            /\ r \in Cyclers => run[r].pc = "idle" /\ run'[r].pc # "decide"
            /\ \/ UNCHANGED owner /\ (r \in Cyclers => run'[r].pc = "connect")
               \/ owner' = IF owner = r THEN NoRun ELSE owner
    BY <1>1, StartsAndEnds
  <2> QED
    BY <1>a, <2>1 DEF OnlyMoves, Deciding
<1>2. ASSUME NEW r \in Cyclers, Connect(r) PROVE HeldInv'
  <2>1. /\ OnlyMoves(r) /\ run[r].pc = "connect" /\ run'[r].pc \in {"net", "load"}
        /\ UNCHANGED lock /\ owner' \in {owner, r}
    BY <1>2, <1>a, <1>b, Stays DEF Connect, OnlyMoves, TypeOK, Locals
  <2> QED
    BY <1>a, <2>1 DEF OnlyMoves, Deciding
<1>3. ASSUME NEW r \in Cyclers, ReadNetLiq(r) \/ LoadCandidates(r) PROVE HeldInv'
  <2>1. /\ OnlyMoves(r) /\ run[r].pc \in {"net", "load"} /\ run'[r].pc \in {"load", "check"}
        /\ UNCHANGED <<lock, owner>>
    BY <1>3, <1>a, <1>b, Stays DEF ReadNetLiq, LoadCandidates, OnlyMoves, TypeOK, Locals
  <2> QED
    BY <1>a, <1>c, <2>1 DEF Deciding
<1>4. ASSUME NEW r \in Cyclers, Check(r) PROVE HeldInv'
  <2>1. run[r].pc = "check" /\ UNCHANGED lock
    BY <1>4 DEF Check
  <2>2. CASE Finish(r)
    BY <1>a, <1>d, <2>1, <2>2 DEF Deciding
  <2>3. CASE ~Finish(r)
    <3>1. OnlyMoves(r) /\ UNCHANGED owner /\ run'[r].pc \in {"decide", "baseline"}
      BY <1>4, <1>a, <1>b, <2>3 DEF Check, OnlyMoves, TypeOK, Locals
    <3> QED
      BY <1>a, <1>c, <2>1, <3>1 DEF Deciding
  <2> QED
    BY <2>2, <2>3
<1>5. ASSUME NEW r \in Cyclers, SetBaseline(r) PROVE HeldInv'
  <2>1. CASE run[r].seen = NoRow /\ sys # NoRow
    <3>1. Finish(r) /\ lock = NoRun /\ lock' = NoRun
      BY <1>5, <2>1 DEF SetBaseline
    <3> QED
      BY <1>a, <1>d, <3>1
  <2>2. CASE ~(run[r].seen = NoRow /\ sys # NoRow)
    <3>1. OnlyMoves(r) /\ UNCHANGED owner /\ run'[r].pc = "decide" /\ lock' = r
      BY <1>5, <1>a, <1>b, <2>2 DEF SetBaseline, OnlyMoves, TypeOK, Locals
    <3> QED
      BY <1>a, <3>1 DEF OnlyMoves, Deciding
  <2> QED
    BY <2>1, <2>2
<1>6. ASSUME NEW r \in Cyclers, Execute(r) PROVE HeldInv'
  <2>1. /\ OnlyMoves(r) /\ UNCHANGED owner /\ run'[r].pc = "decide"
        /\ lock' \in {lock, NoRun}
    BY <1>6, <1>a, <1>b DEF Execute, Commit, OnlyMoves, TypeOK, Locals
  <2> QED
    BY <1>a, <2>1 DEF OnlyMoves, Deciding
<1>7. ASSUME NEW r \in Runners, EndCycle(r) \/ CycleRaises(r) \/ Cut(r) PROVE HeldInv'
  <2>1. Finish(r) /\ lock' = IF lock = r THEN NoRun ELSE lock
    BY <1>7 DEF EndCycle, CycleRaises, Cut, Commit
  <2> QED
    BY <1>a, <1>d, <2>1
<1>8. ASSUME NEW r \in Cyclers, EmitFails(r) PROVE HeldInv'
  <2>1. OnlyMoves(r) /\ UNCHANGED <<owner, lock>> /\ run'[r].pc = "execute"
    BY <1>8, <1>a, <1>b, Stays DEF EmitFails, OnlyMoves, TypeOK, Locals
  <2> QED
    BY <1>a, <2>1 DEF OnlyMoves, Deciding
<1>9. ASSUME EmitFails("fresh") PROVE HeldInv'
  <2>1. Finish("fresh") /\ UNCHANGED lock
    BY <1>9, <1>a, Stays DEF EmitFails
  <2> QED
    BY <1>a, <1>d, <2>1
<1>10. ASSUME NEW r \in Runners, Surface(r) PROVE HeldInv'
  <2>1. /\ OnlyMoves(r) /\ UNCHANGED <<owner, lock>>
        /\ run'[r].pc \in Deciding
    <3>1. CASE Decide(r)
      BY <3>1, DecideMoves, Stays DEF Decide, Deciding
    <3>2. CASE WriteFile(r)
      BY <1>b, <3>2, Stays DEF WriteFile, OnlyMoves, TypeOK, Locals, Deciding
    <3>3. CASE ReadIndex(r)
      BY <1>b, <3>3, Stays DEF ReadIndex, OnlyMoves, TypeOK, Locals, Deciding
    <3>4. CASE WriteIndex(r)
      BY <1>b, <3>4, Stays DEF WriteIndex, OnlyMoves, TypeOK, Locals, Deciding
    <3> QED
      BY <1>10, <3>1, <3>2, <3>3, <3>4 DEF Surface
  <2> QED
    BY <1>a, <2>1 DEF OnlyMoves, Deciding
<1>11. CASE Tick \/ GatewayDrops \/ OperatorFlips \/ UNCHANGED vars
  <2>1. UNCHANGED <<run, lock>> /\ owner' \in {owner, NoRun}
    BY <1>11, Stays DEF Tick, GatewayDrops, OperatorFlips, vars
  <2> QED
    BY <1>a, <2>1
<1> QED
  BY <1>1, <1>2, <1>3, <1>4, <1>5, <1>6, <1>7, <1>8, <1>9, <1>10, <1>11, <1>a
     DEF Next, Cycle

-----------------------------------------------------------------------------
(* The decisions on disk *)

OneEmits ==
    ~tangled => \A r, q \in Runners : Emitting(r) /\ Emitting(q) => r = q

ReadIsCurrent ==
    ~tangled => \A r \in Runners : run[r].pc = "index" => run[r].rows = index

FileShowsDeal ==
    ~tangled => \A r \in Runners :
        Emitting(r) => run[r].file \in Files /\ files[run[r].file] = run[r].deal

DiskInv == DealAtHand /\ OneEmits /\ ReadIsCurrent /\ FileShowsDeal /\ IndexAgrees

LEMMA NextDisk == TypeOK /\ DiskInv /\ [Next]_vars => DiskInv'
<1> SUFFICES ASSUME TypeOK, DiskInv, [Next]_vars PROVE DiskInv'
  OBVIOUS
<1> USE DEF DiskInv
<1>a. /\ Cyclers \subseteq Runners /\ Runners = Cyclers \cup {"fresh"}
      /\ tangled \in BOOLEAN
      /\ files \in [Files -> Deals \cup {NoDeal}] /\ index \in [Files -> Deals \cup {NoDeal}]
  BY DEF Cyclers, Runners, TypeOK
<1>b. \A r \in Runners : run[r] \in Locals
  BY DEF TypeOK
\* A run that neither was nor is emitting.
<1>c. ASSUME NEW r \in Runners, OnlyMoves(r), UNCHANGED <<files, index, tangled>>,
             ~Emitting(r), ~Emitting(r)',
             run'[r].pc = "file" => run'[r].deal \in Deals
      PROVE  DiskInv'
  BY <1>c, <1>a DEF OnlyMoves, Emitting, DealAtHand, OneEmits, ReadIsCurrent, FileShowsDeal,
                    IndexAgrees
\* A run that ends with the disk untidy.
<1>d. ASSUME NEW r \in Runners, OnlyMoves(r), tangled' = TRUE,
             run'[r].pc \notin {"file", "read", "index"}
      PROVE  DiskInv'
  BY <1>d, <1>a DEF OnlyMoves, DealAtHand, OneEmits, ReadIsCurrent, FileShowsDeal, IndexAgrees
<1>1. CASE Wake \/ StartOnce \/ StartFresh \/ EndFresh
  <2>1. PICK r \in Runners :
            /\ OnlyMoves(r)
            /\ run[r].pc \in {"idle", "decide"}
            /\ run'[r].pc \in {"idle", "connect", "decide"}
            /\ UNCHANGED <<files, index, tangled>>
    BY <1>1, StartsAndEnds
  <2> QED
    BY <1>c, <2>1 DEF Emitting
<1>2. ASSUME NEW r \in Cyclers, Cycle(r) \/ CycleRaises(r) PROVE DiskInv'
  <2>1. /\ OnlyMoves(r)
        /\ run[r].pc \notin {"file", "read", "index"}
        /\ run'[r].pc \notin {"file", "read", "index"}
        /\ UNCHANGED <<files, index, tangled>>
    BY <1>2, AwayFromDisk DEF Cycle
  <2> QED
    BY <1>a, <1>c, <2>1 DEF Emitting
<1>3. ASSUME NEW r \in Runners, Decide(r) PROVE DiskInv'
  <2>1. UNCHANGED <<files, index, tangled>>
    BY <1>3, Stays DEF Decide
  <2> QED
    BY <1>c, <1>3, <2>1, DecideMoves DEF Emitting
<1>4. ASSUME NEW r \in Runners, WriteFile(r) PROVE DiskInv'
  <2> DEFINE deal == run[r].deal
             file == FileOf(deal)
  <2>1. /\ run' = [run EXCEPT ![r] = [[run[r] EXCEPT !.pc = "read"] EXCEPT !.file = file]]
        /\ files' = [files EXCEPT ![file] = deal] /\ UNCHANGED index
        /\ tangled' = (tangled \/ \E o \in Runners \ {r} : Emitting(o))
        /\ run[r].pc = "file"
    BY <1>4, Zenon DEF WriteFile
  <2>2. deal \in Deals /\ file \in Files
    BY <2>1, EmissionType DEF DealAtHand
  <2> HIDE DEF file
  <2>3. OnlyMoves(r) /\ run'[r].pc = "read" /\ run'[r].file = file /\ run'[r].deal = deal
    <3>1. run'[r] = [[run[r] EXCEPT !.pc = "read"] EXCEPT !.file = file] /\ OnlyMoves(r)
      BY <2>1 DEF OnlyMoves, TypeOK
    <3> QED
      BY <1>b, <3>1 DEF Locals
  <2> HIDE DEF deal
  <2>4. CASE tangled \/ \E o \in Runners \ {r} : Emitting(o)
    <3>1. tangled' = TRUE
      BY <2>1, <2>4
    <3>2. DealAtHand'
      BY <2>2, <2>3 DEF OnlyMoves, DealAtHand
    <3> QED
      BY <3>1, <3>2 DEF OneEmits, ReadIsCurrent, FileShowsDeal, IndexAgrees
  <2>5. CASE ~tangled /\ \A o \in Runners \ {r} : ~Emitting(o)
    <3>1. Emitting(r)' /\ \A o \in Runners : Emitting(o)' => o = r
      BY <2>3, <2>5 DEF OnlyMoves, Emitting
    <3>2. DealAtHand' /\ OneEmits' /\ ReadIsCurrent'
      BY <2>2, <2>3, <3>1 DEF OnlyMoves, DealAtHand, OneEmits, ReadIsCurrent, Emitting
    <3>3. FileShowsDeal'
      BY <1>a, <2>1, <2>2, <2>3, <3>1 DEF FileShowsDeal
    <3>4. \A f \in Files : files[f] = index[f]
      BY <2>1, <2>5 DEF IndexAgrees, Emitting
    <3>5. IndexAgrees'
      BY <1>a, <2>1, <2>2, <2>3, <3>1, <3>4 DEF IndexAgrees
    <3> QED
      BY <3>2, <3>3, <3>5
  <2> QED
    BY <2>4, <2>5
<1>5. ASSUME NEW r \in Runners, ReadIndex(r) PROVE DiskInv'
  <2>1. /\ run' = [run EXCEPT ![r] = [[run[r] EXCEPT !.pc = "index"] EXCEPT !.rows = index]]
        /\ UNCHANGED <<files, index, tangled>> /\ run[r].pc = "read"
    BY <1>5, Stays, Zenon DEF ReadIndex
  <2>2. /\ OnlyMoves(r) /\ run'[r].pc = "index" /\ run'[r].rows = index
        /\ run'[r].file = run[r].file /\ run'[r].deal = run[r].deal
    <3>1. run'[r] = [[run[r] EXCEPT !.pc = "index"] EXCEPT !.rows = index] /\ OnlyMoves(r)
      BY <2>1 DEF OnlyMoves, TypeOK
    <3> QED
      BY <1>b, <3>1 DEF Locals
  <2>3. \A o \in Runners : Emitting(o)' <=> Emitting(o)
    BY <2>1, <2>2 DEF OnlyMoves, Emitting
  <2>4. DealAtHand' /\ OneEmits' /\ ReadIsCurrent'
    BY <2>1, <2>2, <2>3 DEF OnlyMoves, DealAtHand, OneEmits, ReadIsCurrent
  <2>5. FileShowsDeal'
    BY <2>1, <2>2, <2>3 DEF OnlyMoves, FileShowsDeal
  <2>6. IndexAgrees'
    BY <2>1, <2>2, <2>3 DEF OnlyMoves, IndexAgrees
  <2> QED
    BY <2>4, <2>5, <2>6
<1>6. ASSUME NEW r \in Runners, WriteIndex(r) PROVE DiskInv'
  <2>1. /\ index' = [run[r].rows EXCEPT ![run[r].file] = run[r].deal]
        /\ UNCHANGED <<files, tangled>> /\ run[r].pc = "index"
    BY <1>6 DEF WriteIndex, Upserted
  <2>2. OnlyMoves(r) /\ run'[r].pc \in {"execute", "decide"}
    BY <1>6, <1>b DEF WriteIndex, OnlyMoves, TypeOK, Locals
  <2>3. CASE tangled
    BY <2>1, <2>2, <2>3 DEF OnlyMoves, DealAtHand, OneEmits, ReadIsCurrent, FileShowsDeal,
                            IndexAgrees
  <2>4. CASE ~tangled
    <3>1. Emitting(r) /\ \A o \in Runners : Emitting(o) => o = r
      BY <2>1, <2>4 DEF OneEmits, Emitting
    <3>2. \A o \in Runners : ~Emitting(o)'
      BY <2>2, <3>1 DEF OnlyMoves, Emitting
    <3>3. index' = [index EXCEPT ![run[r].file] = files[run[r].file]] /\ run[r].file \in Files
      BY <2>1, <2>4, <3>1 DEF ReadIsCurrent, FileShowsDeal
    <3>4. \A f \in Files : files[f] = index[f] \/ f = run[r].file
      BY <2>4, <3>1 DEF IndexAgrees
    <3>5. IndexAgrees'
      BY <1>a, <2>1, <3>3, <3>4 DEF IndexAgrees
    <3>6. DealAtHand' /\ OneEmits' /\ ReadIsCurrent' /\ FileShowsDeal'
      BY <2>2, <3>2 DEF OnlyMoves, DealAtHand, OneEmits, ReadIsCurrent, FileShowsDeal, Emitting
    <3> QED
      BY <3>5, <3>6
  <2> QED
    BY <1>a, <2>3, <2>4
<1>7. ASSUME NEW r \in Cyclers, EmitFails(r) PROVE DiskInv'
  <2>1. OnlyMoves(r) /\ tangled' = TRUE /\ run'[r].pc = "execute"
    BY <1>7, <1>a, <1>b DEF EmitFails, OnlyMoves, TypeOK, Locals
  <2> QED
    BY <1>a, <1>d, <2>1
<1>8. ASSUME EmitFails("fresh") PROVE DiskInv'
  <2>1. Finish("fresh") /\ tangled' = TRUE
    BY <1>8 DEF EmitFails, Cyclers
  <2>2. OnlyMoves("fresh") /\ run'["fresh"].pc = "idle"
    BY <1>a, <2>1, FinishType DEF OnlyMoves, TypeOK
  <2> QED
    BY <1>a, <1>d, <2>1, <2>2
<1>9. ASSUME NEW r \in Runners, Cut(r) PROVE DiskInv'
  <2>1. OnlyMoves(r) /\ run'[r].pc = "idle"
    BY <1>9, FinishType DEF Cut, OnlyMoves, TypeOK
  <2>2. CASE Emitting(r)
    BY <1>9, <1>d, <2>1, <2>2 DEF Cut
  <2>3. CASE ~Emitting(r)
    <3>1. UNCHANGED <<files, index>> /\ tangled' = (tangled \/ FALSE)
      BY <1>9, <2>3 DEF Cut, Emitting
    <3>2. UNCHANGED tangled
      BY <1>a, <3>1
    <3> QED
      BY <1>c, <2>1, <2>3, <3>1, <3>2 DEF Emitting
  <2> QED
    BY <2>2, <2>3
<1>10. CASE Tick \/ GatewayDrops \/ OperatorFlips \/ UNCHANGED vars
  <2>1. UNCHANGED <<run, files, index, tangled>>
    BY <1>10, Stays DEF Tick, GatewayDrops, OperatorFlips, vars
  <2> QED
    BY <2>1 DEF DealAtHand, OneEmits, ReadIsCurrent, FileShowsDeal, IndexAgrees, Emitting
<1> QED
  BY <1>1, <1>2, <1>3, <1>4, <1>5, <1>6, <1>7, <1>8, <1>9, <1>10, <1>a DEF Next, Surface

-----------------------------------------------------------------------------
(* The daily loss limit *)

\* Two runs past the kill switch at once were recorded, on the day of the later one.
OverlapsAreMarked ==
    \A r, q \in Cyclers :
        (r # q /\ PastTheSwitch(r) /\ PastTheSwitch(q) /\ run[q].day <= run[r].day)
            => run[r].day \in overlaps

DaysArePast ==
    /\ opening.day <= Today
    /\ \A r \in Cyclers : PastTheSwitch(r) => run[r].day <= Today

\* The table holds what the day's first run left.
OpeningIsCommitted == opening.day \notin overlaps => sys = opening

\* A run that came after the opening of its day neither sets a baseline nor has.
NoSecondBaseline ==
    \A r \in Cyclers :
        (PastTheSwitch(r) /\ run[r].day <= opening.day /\ opening.day \notin overlaps)
            => run[r].pc # "baseline" /\ lock # r

\* A run that did not write the baseline, on a day nobody has opened, found it.
BaselineWasFound ==
    \A r \in Cyclers :
        (run[r].pc \in Deciding /\ lock # r /\ opening.day < run[r].day)
            => /\ run[r].seen.day = run[r].day
               /\ run[r].day \notin overlaps => run[r].seen = sys

LateFollows ==
    \A r \in Cyclers : (PastTheSwitch(r) /\ run[r].late) => run[r].day <= opening.day

LossInv ==
    /\ OverlapsAreMarked /\ DaysArePast /\ OpeningIsCommitted /\ NoSecondBaseline
    /\ BaselineWasFound /\ LateFollows /\ LossStops

\* A run past the switch was so before, with the same locals.
SameRun(q) ==
    /\ PastTheSwitch(q)
    /\ run'[q].day = run[q].day /\ run'[q].net = run[q].net
    /\ run'[q].seen = run[q].seen /\ run'[q].late = run[q].late
    /\ run'[q].pc \in Deciding <=> run[q].pc \in Deciding

LEMMA LossTypes ==
  ASSUME TypeOK
  PROVE  /\ Today \in Int /\ opening.day \in Int
         /\ \A r \in Cyclers : run[r].day \in Int
<1>1. \A r \in Cyclers : run[r] \in Locals
  BY DEF TypeOK, Cyclers, Runners
<1>2. \A r \in Cyclers : run[r].day \in Int
  BY <1>1 DEF Locals
<1> QED
  BY <1>2, DivBounds, DayAssumption DEF TypeOK, Row, Today

LEMMA LossStays ==
  ASSUME TypeOK, LossInv, Today' \in Int, Today <= Today',
         UNCHANGED <<sys, opening, overlaps>>,
         \A q \in Cyclers :
            PastTheSwitch(q)' => SameRun(q) /\ (lock' = q <=> lock = q)
  PROVE  LossInv'
<1> USE LossTypes DEF LossInv, SameRun
<1>1. OverlapsAreMarked'
  BY DEF OverlapsAreMarked
<1>2. DaysArePast'
  BY DEF DaysArePast
<1>3. OpeningIsCommitted'
  BY DEF OpeningIsCommitted
<1>4. NoSecondBaseline'
  BY DEF NoSecondBaseline, PastTheSwitch, Deciding
<1>5. BaselineWasFound'
  BY DEF BaselineWasFound, PastTheSwitch
<1>6. LateFollows'
  BY DEF LateFollows
<1>7. LossStops'
  BY DEF LossStops, PastTheSwitch
<1> QED
  BY <1>1, <1>2, <1>3, <1>4, <1>5, <1>6, <1>7

\* A run passes the switch.
LEMMA LossEnters ==
  ASSUME TypeOK, HeldInv, LossInv, NEW r \in Cyclers, OnlyMoves(r), ~PastTheSwitch(r),
         UNCHANGED <<sys, opening, lock>>, Today' = Today,
         run'[r].day = Today, run'[r].seen = sys,
         run'[r].net = run[r].net, run'[r].late <=> opening.day = Today,
         run'[r].pc = IF sys.day = Today THEN "decide" ELSE "baseline",
         ~(sys.day = Today /\ Breached(run[r].net, sys.amount)),
         overlaps' = IF \E o \in Cyclers \ {r} : PastTheSwitch(o)
                     THEN overlaps \cup {Today} ELSE overlaps
  PROVE  LossInv'
<1> USE LossTypes DEF LossInv
<1>a. \A q \in Cyclers : q # r => run'[q] = run[q]
  BY DEF OnlyMoves, Cyclers, Runners
<1>b. lock # r
  BY DEF HeldInv, PastTheSwitch, Cyclers, NoRun
<1>c. overlaps \subseteq overlaps'
  OBVIOUS
<1>1. OverlapsAreMarked'
  BY <1>a, <1>c DEF OverlapsAreMarked, DaysArePast, PastTheSwitch
<1>2. DaysArePast'
  BY <1>a DEF DaysArePast, PastTheSwitch
<1>3. OpeningIsCommitted'
  BY <1>c DEF OpeningIsCommitted
<1>4. NoSecondBaseline'
  BY <1>a, <1>b, <1>c DEF NoSecondBaseline, PastTheSwitch, OpeningIsCommitted, DaysArePast
<1>5. BaselineWasFound'
  BY <1>a, <1>c DEF BaselineWasFound, Deciding
<1>6. LateFollows'
  BY <1>a DEF LateFollows, PastTheSwitch
<1>7. LossStops'
  BY <1>a, <1>c DEF LossStops, OpeningIsCommitted, Deciding
<1> QED
  BY <1>1, <1>2, <1>3, <1>4, <1>5, <1>6, <1>7

\* It sets the baseline of its day.
LEMMA LossLocks ==
  ASSUME TypeOK, LossInv, NEW r \in Cyclers, OnlyMoves(r), run[r].pc = "baseline",
         UNCHANGED <<sys, opening, overlaps>>, Today' = Today, lock = NoRun, lock' = r,
         run'[r].day = run[r].day, run'[r].net = run[r].net, run'[r].seen = run[r].seen,
         run'[r].late = run[r].late, run'[r].pc = "decide"
  PROVE  LossInv'
<1> USE LossTypes DEF LossInv
<1>a. \A q \in Cyclers : q # r => run'[q] = run[q]
  BY DEF OnlyMoves, Cyclers, Runners
<1>b. r # NoRun /\ PastTheSwitch(r)
  BY DEF PastTheSwitch, Cyclers, NoRun
<1>c. run[r].day <= opening.day => opening.day \in overlaps
  BY <1>b DEF NoSecondBaseline
<1>1. OverlapsAreMarked'
  BY <1>a, <1>b DEF OverlapsAreMarked, PastTheSwitch
<1>2. DaysArePast'
  BY <1>a, <1>b DEF DaysArePast, PastTheSwitch
<1>3. OpeningIsCommitted'
  BY DEF OpeningIsCommitted
<1>4. NoSecondBaseline'
  BY <1>a, <1>c DEF NoSecondBaseline, PastTheSwitch
<1>5. BaselineWasFound'
  <2> SUFFICES ASSUME NEW q \in Cyclers, run'[q].pc \in Deciding, lock' # q,
                      opening.day < run'[q].day
               PROVE  run'[q].seen.day = run'[q].day
                      /\ (run'[q].day \notin overlaps => run'[q].seen = sys)
    BY DEF BaselineWasFound
  <2>1. q # r /\ lock # q
    BY DEF Cyclers, NoRun
  <2> QED
    BY <1>a, <2>1 DEF BaselineWasFound
<1>6. LateFollows'
  BY <1>a, <1>b DEF LateFollows, PastTheSwitch
<1>7. LossStops'
  BY <1>a, <1>c DEF LossStops
<1> QED
  BY <1>1, <1>2, <1>3, <1>4, <1>5, <1>6, <1>7

\* It commits, and goes on or ends.
LEMMA LossCommits ==
  ASSUME TypeOK, HeldInv, LossInv, NEW r \in Cyclers, run[r].pc \in Deciding, Commit(r),
         UNCHANGED overlaps, Today' = Today,
         \A q \in Cyclers : PastTheSwitch(q)' => SameRun(q)
  PROVE  LossInv'
<1> USE LossTypes DEF LossInv, SameRun
<1>a. PastTheSwitch(r)
  BY DEF PastTheSwitch
<1>b. Pending(r).day = run[r].day
  BY DEF Pending
<1>c. lock' # r /\ \A q \in Cyclers : q # r => (lock' = q <=> lock = q)
  BY DEF Commit, Cyclers, NoRun
\* It opens its day ...
<1>d. CASE opening.day < run[r].day
  <2>1. opening'.day = run[r].day
    BY <1>b, <1>d DEF Commit, Opens, BaselineWasFound
  <2>2. run[r].day \notin overlaps => sys' = opening'
    BY <1>d DEF Commit, Opens, BaselineWasFound
  <2>3. \A q \in Cyclers \ {r} :
            (PastTheSwitch(q) /\ run[q].day <= run[r].day) => run[r].day \in overlaps
    BY <1>a DEF OverlapsAreMarked
  <2>4. OverlapsAreMarked'
    BY DEF OverlapsAreMarked
  <2>5. DaysArePast'
    BY <1>a, <2>1 DEF DaysArePast
  <2>6. OpeningIsCommitted'
    BY <2>1, <2>2 DEF OpeningIsCommitted
  <2>7. NoSecondBaseline'
    BY <1>c, <2>1, <2>3 DEF NoSecondBaseline, PastTheSwitch, Deciding
  <2>8. BaselineWasFound'
    <3> SUFFICES ASSUME NEW q \in Cyclers, run'[q].pc \in Deciding, lock' # q,
                        opening'.day < run'[q].day
                 PROVE  run'[q].seen.day = run'[q].day
                        /\ (run'[q].day \notin overlaps => run'[q].seen = sys')
      BY DEF BaselineWasFound
    <3>1. PastTheSwitch(q) /\ run[q].pc \in Deciding /\ q # r /\ lock # q
      BY <1>c, <2>1 DEF PastTheSwitch
    <3>2. run[r].day <= run[q].day => run[q].day \in overlaps
      BY <1>a, <3>1 DEF OverlapsAreMarked
    <3> QED
      BY <1>d, <2>1, <3>1, <3>2 DEF BaselineWasFound, PastTheSwitch
  <2>9. LateFollows'
    BY <1>d, <2>1 DEF LateFollows
  <2>10. LossStops'
    <3> SUFFICES ASSUME NEW q \in Cyclers, run'[q].pc \in Deciding, run'[q].late,
                        run'[q].day = opening'.day
                 PROVE  FALSE
      BY DEF LossStops
    <3>1. PastTheSwitch(q) /\ run[q].late /\ run[q].day = run[r].day
      BY <2>1 DEF PastTheSwitch
    <3> QED
      BY <1>d, <3>1 DEF LateFollows
  <2> QED
    BY <2>4, <2>5, <2>6, <2>7, <2>8, <2>9, <2>10
\* ... or finds it opened.
<1>e. CASE ~(opening.day < run[r].day)
  <2>1. opening' = opening
    BY <1>e DEF Commit, Opens
  <2>2. opening.day \notin overlaps => sys' = sys
    BY <1>a, <1>e DEF Commit, NoSecondBaseline
  <2>3. OverlapsAreMarked'
    BY DEF OverlapsAreMarked
  <2>4. DaysArePast'
    BY <2>1 DEF DaysArePast
  <2>5. OpeningIsCommitted'
    BY <2>1, <2>2 DEF OpeningIsCommitted
  <2>6. NoSecondBaseline'
    BY <1>c, <1>e, <2>1 DEF NoSecondBaseline, PastTheSwitch, Deciding
  <2>7. BaselineWasFound'
    <3> SUFFICES ASSUME NEW q \in Cyclers, run'[q].pc \in Deciding, lock' # q,
                        opening'.day < run'[q].day
                 PROVE  run'[q].seen.day = run'[q].day
                        /\ (run'[q].day \notin overlaps => run'[q].seen = sys')
      BY DEF BaselineWasFound
    <3>1. /\ PastTheSwitch(q) /\ run[q].pc \in Deciding /\ q # r /\ lock # q
          /\ opening.day < run[q].day /\ run'[q].day = run[q].day
      BY <1>c, <1>e, <2>1 DEF PastTheSwitch
    <3>2. run[r].day <= run[q].day => run[q].day \in overlaps
      BY <1>a, <3>1 DEF OverlapsAreMarked
    <3>3. run[q].day \in overlaps
      BY <1>e, <3>1, <3>2
    <3> QED
      BY <2>1, <3>1, <3>2, <3>3 DEF BaselineWasFound, PastTheSwitch
  <2>8. LateFollows'
    BY <2>1 DEF LateFollows
  <2>9. LossStops'
    BY <2>1 DEF LossStops, PastTheSwitch
  <2> QED
    BY <2>3, <2>4, <2>5, <2>6, <2>7, <2>8, <2>9
<1> QED
  BY <1>d, <1>e

LEMMA CandidateKeeps ==
  ASSUME TypeOK, NEW r \in Cyclers, Surface(r) \/ EmitFails(r) \/ Execute(r)
  PROVE  /\ run[r].pc \in Deciding /\ run'[r].pc \in Deciding
         /\ OnlyMoves(r)
         /\ run'[r].day = run[r].day /\ run'[r].net = run[r].net
         /\ run'[r].seen = run[r].seen /\ run'[r].late = run[r].late
<1>a. r \in Runners /\ run[r] \in Locals
  BY DEF TypeOK, Cyclers, Runners
<1>1. CASE WriteFile(r)
  BY <1>1, <1>a DEF WriteFile, OnlyMoves, TypeOK, Locals, Deciding
<1>2. CASE ReadIndex(r)
  BY <1>2, <1>a DEF ReadIndex, OnlyMoves, TypeOK, Locals, Deciding
<1>3. CASE WriteIndex(r)
  BY <1>3, <1>a DEF WriteIndex, OnlyMoves, TypeOK, Locals, Deciding
<1>4. CASE EmitFails(r)
  BY <1>4, <1>a DEF EmitFails, OnlyMoves, TypeOK, Locals, Deciding
<1>5. CASE Execute(r)
  BY <1>5, <1>a DEF Execute, OnlyMoves, TypeOK, Locals, Deciding
<1>6. CASE Decide(r)
  <2>1. OnlyMoves(r) /\ run[r].pc \in Deciding /\ run'[r].pc \in Deciding
    BY <1>6, <1>a, DecideMoves DEF Deciding
  <2>2. \/ run' = [run EXCEPT ![r] = [run[r] EXCEPT !.left = run[r].left - 1]]
        \/ \E d \in Deals :
             run' = [run EXCEPT ![r] = [[[run[r] EXCEPT !.left = run[r].left - 1]
                                          EXCEPT !.deal = d] EXCEPT !.pc = "file"]]
    BY <1>6, Zenon DEF Decide
  <2>3. \/ run'[r] = [run[r] EXCEPT !.left = run[r].left - 1]
        \/ \E d \in Deals :
             run'[r] = [[[run[r] EXCEPT !.left = run[r].left - 1] EXCEPT !.deal = d]
                          EXCEPT !.pc = "file"]
    BY <1>a, <2>2 DEF TypeOK
  <2> QED
    BY <1>a, <2>1, <2>3 DEF Locals
<1> QED
  BY <1>1, <1>2, <1>3, <1>4, <1>5, <1>6 DEF Surface

LEMMA NextLoss == TypeOK /\ HeldInv /\ LossInv /\ [Next]_vars => LossInv'
<1> SUFFICES ASSUME TypeOK, HeldInv, LossInv, [Next]_vars PROVE LossInv'
  OBVIOUS
<1>a. /\ Cyclers \subseteq Runners /\ Runners = Cyclers \cup {"fresh"} /\ "fresh" \notin Cyclers
      /\ NoRun \notin Runners
  BY DEF Cyclers, Runners, NoRun
<1>b. \A r \in Runners : run[r] \in Locals
  BY DEF TypeOK
<1>c. Today \in Int /\ (UNCHANGED clock => Today' = Today)
  BY LossTypes DEF Today
\* A step of a process that is not past the switch, or that ends.
<1>d. ASSUME NEW r \in Runners, OnlyMoves(r), UNCHANGED <<clock, sys, opening, overlaps>>,
             r \in Cyclers => ~PastTheSwitch(r)',
             UNCHANGED lock \/ (lock = r /\ lock' = NoRun)
      PROVE  LossInv'
  <2>1. ASSUME NEW q \in Cyclers, PastTheSwitch(q)'
        PROVE  SameRun(q) /\ (lock' = q <=> lock = q)
    <3>1. q # r /\ run'[q] = run[q]
      BY <1>a, <1>d, <2>1 DEF OnlyMoves
    <3> QED
      BY <1>a, <1>d, <2>1, <3>1 DEF SameRun, PastTheSwitch
  <2> QED
    BY <1>c, <1>d, <2>1, LossStays
<1>e. ASSUME NEW r \in Runners, Finish(r)
      PROVE  OnlyMoves(r) /\ ~PastTheSwitch(r)'
  BY <1>e, FinishType DEF OnlyMoves, TypeOK, PastTheSwitch, Deciding
<1>1. CASE Wake \/ StartOnce \/ StartFresh \/ EndFresh
  <2>1. PICK r \in Runners :
            /\ OnlyMoves(r)
            /\ run[r].pc \in {"idle", "decide"}
            /\ run'[r].pc \in {"idle", "connect", "decide"}
            /\ UNCHANGED <<files, index, tangled, lock>>
            /\ r \in Cyclers => run[r].pc = "idle" /\ run'[r].pc # "decide"
            /\ \/ UNCHANGED owner /\ (r \in Cyclers => run'[r].pc = "connect")
               \/ owner' = IF owner = r THEN NoRun ELSE owner
    BY <1>1, StartsAndEnds
  <2>2. UNCHANGED <<clock, sys, opening, overlaps>>
    BY <1>1, Stays DEF Wake, StartOnce, StartFresh, EndFresh
  <2>3. r \in Cyclers => run'[r].pc # "decide"
    BY <2>1
  <2> QED
    BY <1>d, <2>1, <2>2, <2>3 DEF PastTheSwitch, Deciding
<1>2. ASSUME NEW r \in Cyclers, Connect(r) \/ ReadNetLiq(r) \/ LoadCandidates(r) PROVE LossInv'
  <2>1. OnlyMoves(r) /\ run'[r].pc \in {"net", "load", "check"}
        /\ UNCHANGED <<clock, sys, opening, overlaps, lock>>
    BY <1>2, <1>a, <1>b, Stays DEF Connect, ReadNetLiq, LoadCandidates, OnlyMoves, TypeOK, Locals
  <2> QED
    BY <1>a, <1>d, <2>1 DEF PastTheSwitch, Deciding
<1>3. ASSUME NEW r \in Cyclers, Check(r), Finish(r), UNCHANGED overlaps PROVE LossInv'
  <2>1. UNCHANGED <<clock, sys, opening, lock>>
    BY <1>3 DEF Check
  <2> QED
    BY <1>3, <1>a, <1>d, <1>e, <2>1
<1>4. ASSUME NEW r \in Cyclers, Check(r), ~(Finish(r) /\ UNCHANGED overlaps) PROVE LossInv'
  <2> DEFINE pc   == IF sys.day = Today THEN "decide" ELSE "baseline"
             late == (opening.day = Today)
  <2>1. /\ run' = [run EXCEPT ![r] = [[[[run[r] EXCEPT !.pc = pc] EXCEPT !.day = Today]
                                         EXCEPT !.seen = sys] EXCEPT !.late = late]]
        /\ run[r].pc = "check"
        /\ ~(sys.day = Today /\ Breached(run[r].net, sys.amount))
        /\ overlaps' = IF \E o \in Cyclers \ {r} : PastTheSwitch(o)
                       THEN overlaps \cup {Today} ELSE overlaps
    BY <1>4, Zenon DEF Check
  <2>2. UNCHANGED <<clock, sys, lock, opening>>
    BY <1>4 DEF Check
  <2>3. /\ OnlyMoves(r)
        /\ run'[r].pc = pc /\ run'[r].day = Today /\ run'[r].seen = sys
        /\ run'[r].late = late /\ run'[r].net = run[r].net
    <3> HIDE DEF pc, late
    <3>1. OnlyMoves(r)
          /\ run'[r] = [[[[run[r] EXCEPT !.pc = pc] EXCEPT !.day = Today]
                            EXCEPT !.seen = sys] EXCEPT !.late = late]
      BY <1>a, <2>1 DEF OnlyMoves, TypeOK
    <3> QED
      BY <1>a, <1>b, <3>1 DEF Locals
  <2>4. ~PastTheSwitch(r)
    BY <2>1 DEF PastTheSwitch, Deciding
  <2> QED
    BY <1>c, <2>1, <2>2, <2>3, <2>4, LossEnters
<1>5. ASSUME NEW r \in Cyclers, SetBaseline(r) PROVE LossInv'
  <2>1. CASE run[r].seen = NoRow /\ sys # NoRow
    <3>1. Finish(r) /\ UNCHANGED <<clock, sys, opening, overlaps, lock>>
      BY <1>5, <2>1 DEF SetBaseline
    <3> QED
      BY <1>a, <1>d, <1>e, <3>1
  <2>2. CASE ~(run[r].seen = NoRow /\ sys # NoRow)
    <3>1. /\ run' = [run EXCEPT ![r] = [run[r] EXCEPT !.pc = "decide"]]
          /\ run[r].pc = "baseline" /\ lock = NoRun /\ lock' = r
      BY <1>5, <2>2, Zenon DEF SetBaseline
    <3>2. UNCHANGED <<clock, sys, opening, overlaps>>
      BY <1>5 DEF SetBaseline
    <3>3. /\ OnlyMoves(r)
          /\ run'[r].pc = "decide" /\ run'[r].day = run[r].day /\ run'[r].seen = run[r].seen
          /\ run'[r].late = run[r].late /\ run'[r].net = run[r].net
      BY <1>a, <1>b, <3>1 DEF OnlyMoves, TypeOK, Locals
    <3> QED
      BY <1>c, <3>1, <3>2, <3>3, LossLocks
  <2> QED
    BY <2>1, <2>2
<1>6. ASSUME NEW r \in Cyclers,
             Surface(r) \/ EmitFails(r) \/ Execute(r),
             UNCHANGED <<clock, sys, lock, opening, overlaps>>
      PROVE  LossInv'
  <2>1. \A q \in Cyclers : PastTheSwitch(q)' => SameRun(q)
    BY <1>6, <1>a, CandidateKeeps DEF OnlyMoves, SameRun, PastTheSwitch
  <2> QED
    BY <1>6, <1>c, <2>1, LossStays
<1>7. ASSUME NEW r \in Cyclers, Surface(r) \/ EmitFails(r) PROVE LossInv'
  <2>1. UNCHANGED <<clock, sys, lock, opening, overlaps>>
    BY <1>7, Stays DEF Surface, Decide, WriteFile, ReadIndex, WriteIndex, EmitFails
  <2> QED
    BY <1>6, <1>7, <2>1
<1>8. ASSUME NEW r \in Cyclers, Execute(r) PROVE LossInv'
  <2>1. UNCHANGED <<clock, overlaps>> /\ (Commit(r) \/ UNCHANGED <<sys, lock, opening>>)
    BY <1>8 DEF Execute
  <2>2. run[r].pc \in Deciding /\ \A q \in Cyclers : PastTheSwitch(q)' => SameRun(q)
    BY <1>8, <1>a, CandidateKeeps DEF OnlyMoves, SameRun, PastTheSwitch
  <2>3. CASE Commit(r)
    BY <1>c, <2>1, <2>2, <2>3, LossCommits
  <2>4. CASE UNCHANGED <<sys, lock, opening>>
    BY <1>6, <1>8, <2>1, <2>4
  <2> QED
    BY <2>1, <2>3, <2>4
<1>9. ASSUME NEW r \in Cyclers, EndCycle(r) \/ CycleRaises(r) PROVE LossInv'
  <2>1. UNCHANGED <<clock, overlaps>> /\ Commit(r) /\ Finish(r) /\ run[r].pc \in Deciding
    BY <1>9 DEF EndCycle, CycleRaises, Deciding
  <2>2. ASSUME NEW q \in Cyclers, PastTheSwitch(q)' PROVE SameRun(q)
    <3>1. q # r /\ run'[q] = run[q]
      BY <1>a, <1>e, <2>1, <2>2 DEF OnlyMoves
    <3> QED
      BY <2>2, <3>1 DEF SameRun, PastTheSwitch
  <2> QED
    BY <1>c, <2>1, <2>2, LossCommits
<1>10. ASSUME NEW r \in Runners, Cut(r) PROVE LossInv'
  <2>1. /\ Finish(r) /\ UNCHANGED <<clock, sys, opening, overlaps>>
        /\ UNCHANGED lock \/ (lock = r /\ lock' = NoRun)
    BY <1>10 DEF Cut
  <2> QED
    BY <1>d, <1>e, <2>1
<1>11. ASSUME Surface("fresh") \/ EmitFails("fresh") PROVE LossInv'
  <2>1. UNCHANGED <<clock, sys, lock, opening, overlaps>>
    BY <1>11, Stays DEF Surface, Decide, WriteFile, ReadIndex, WriteIndex, EmitFails
  <2>2. OnlyMoves("fresh")
    <3>1. CASE EmitFails("fresh")
      BY <1>a, <1>e, <3>1 DEF EmitFails
    <3>2. CASE Decide("fresh")
      BY <1>a, <3>2, DecideMoves
    <3>3. CASE WriteFile("fresh") \/ ReadIndex("fresh") \/ WriteIndex("fresh")
      BY <1>a, <3>3 DEF WriteFile, ReadIndex, WriteIndex, OnlyMoves, TypeOK
    <3> QED
      BY <1>11, <3>1, <3>2, <3>3 DEF Surface
  <2> QED
    BY <1>a, <1>d, <2>1, <2>2
<1>12. ASSUME Tick \/ GatewayDrops \/ OperatorFlips \/ UNCHANGED vars PROVE LossInv'
  <2>1. UNCHANGED <<run, sys, lock, opening, overlaps>>
    BY <1>12, Stays DEF Tick, GatewayDrops, OperatorFlips, vars
  <2>2. clock \in Int /\ clock' \in Int /\ clock <= clock'
    BY <1>12 DEF Tick, GatewayDrops, OperatorFlips, vars, TypeOK
  <2>3. Today' \in Int /\ Today <= Today'
    <3>1. HoursPerDay \in Int /\ HoursPerDay > 0
      BY DayAssumption
    <3>2. /\ clock' \div HoursPerDay \in Int
          /\ clock \div HoursPerDay <= clock' \div HoursPerDay
      BY <2>2, <3>1, DivBounds, DivMonotone
    <3> QED
      BY <3>2 DEF Today
  <2> QED
    BY <2>1, <2>3, LossStays DEF SameRun, PastTheSwitch
<1> QED
  BY <1>1, <1>2, <1>3, <1>4, <1>5, <1>7, <1>8, <1>9, <1>10, <1>11, <1>12, <1>a
     DEF Next, Cycle

-----------------------------------------------------------------------------
(* The loop's sleep *)

\* A sleeping loop wakes at the nine that follows the hour it went to sleep.
SleepInv == run["loop"].pc = "idle" => run["loop"].wake = NextNine(slept)

LEMMA NextSleeps == TypeOK /\ SleepInv /\ [Next]_vars => SleepInv'
<1> SUFFICES ASSUME TypeOK, SleepInv, [Next]_vars PROVE SleepInv'
  OBVIOUS
<1>a. /\ Cyclers \subseteq Runners /\ Runners = Cyclers \cup {"fresh"} /\ "loop" \in Runners
      /\ Cyclers = {"loop", "once"}
  BY DEF Cyclers, Runners
<1>b. \A r \in Runners : run[r] \in Locals
  BY DEF TypeOK
\* Some process goes on.
<1>c. ASSUME NEW r \in Runners, OnlyMoves(r), UNCHANGED slept, run'[r].pc # "idle"
      PROVE  SleepInv'
  BY <1>a, <1>c DEF SleepInv, OnlyMoves
\* Some process ends, or goes back to sleep.
<1>d. ASSUME NEW r \in Runners, Finish(r) PROVE SleepInv'
  <2> DEFINE wake == IF r = "loop" THEN NextNine(clock) ELSE 0
  <2>1. run' = [run EXCEPT ![r] = Ended(wake)]
    BY <1>d DEF Finish
  <2>2. Ended(wake).wake = wake
    BY DEF Ended
  <2>3. CASE r = "loop"
    <3>1. run'["loop"] = Ended(wake) /\ wake = NextNine(clock) /\ slept' = clock
      BY <1>a, <1>d, <2>1, <2>3 DEF Finish, TypeOK
    <3> HIDE DEF wake
    <3> QED
      BY <2>2, <3>1 DEF SleepInv
  <2>4. CASE r # "loop"
    <3>1. run'["loop"] = run["loop"] /\ slept' = slept
      BY <1>a, <1>d, <2>1, <2>4 DEF Finish, TypeOK
    <3> QED
      BY <3>1 DEF SleepInv
  <2> QED
    BY <2>3, <2>4
<1>1. CASE Wake /\ ~kill
  <2>1. run' = [run EXCEPT !["loop"] =
                     [[run["loop"] EXCEPT !.pc = "connect"] EXCEPT !.wake = 0]]
    BY <1>1, Zenon DEF Wake
  <2>2. run'["loop"].pc = "connect"
    BY <1>a, <1>b, <2>1 DEF TypeOK, Locals
  <2> QED
    BY <2>2 DEF SleepInv
<1>2. CASE (Wake /\ kill) \/ EndFresh
  BY <1>2, <1>a, <1>d DEF Wake, EndFresh
<1>3. CASE StartOnce
  <2>1. OnlyMoves("once") /\ run'["once"].pc = "connect"
    BY <1>3, <1>a, <1>b DEF StartOnce, OnlyMoves, TypeOK, Locals
  <2> QED
    BY <1>3, <1>a, <1>c, <2>1 DEF StartOnce
<1>4. CASE StartFresh
  <2>1. OnlyMoves("fresh") /\ run'["fresh"].pc = "decide"
    BY <1>4, <1>a, <1>b DEF StartFresh, OnlyMoves, TypeOK, Locals
  <2> QED
    BY <1>4, <1>a, <1>c, <2>1 DEF StartFresh
<1>5. ASSUME NEW r \in Cyclers, Connect(r) \/ ReadNetLiq(r) \/ LoadCandidates(r)
      PROVE  SleepInv'
  <2>1. OnlyMoves(r) /\ run'[r].pc \in {"net", "load", "check"} /\ UNCHANGED slept
    BY <1>5, <1>a, <1>b DEF Connect, ReadNetLiq, LoadCandidates, OnlyMoves, TypeOK, Locals
  <2> QED
    BY <1>a, <1>c, <2>1
<1>6. ASSUME NEW r \in Cyclers, Check(r) \/ SetBaseline(r), ~Finish(r) PROVE SleepInv'
  <2>1. OnlyMoves(r) /\ run'[r].pc \in {"decide", "baseline"} /\ UNCHANGED slept
    BY <1>6, <1>a, <1>b DEF Check, SetBaseline, OnlyMoves, TypeOK, Locals
  <2> QED
    BY <1>a, <1>c, <2>1
<1>7. ASSUME NEW r \in Runners, Surface(r) PROVE SleepInv'
  <2>1. OnlyMoves(r) /\ run'[r].pc \in Deciding /\ UNCHANGED slept
    <3>1. CASE Decide(r)
      <4>1. OnlyMoves(r) /\ run'[r].pc \in {"decide", "file"}
        BY <3>1, DecideMoves
      <4>2. UNCHANGED <<clock, owner, guard, disk, slept, counters>>
        BY <3>1, Zenon DEF Decide
      <4> QED
        BY <4>1, <4>2 DEF Deciding
    <3>2. CASE WriteFile(r)
      BY <1>b, <3>2 DEF WriteFile, OnlyMoves, TypeOK, Locals, Deciding
    <3>3. CASE ReadIndex(r)
      BY <1>b, <3>3 DEF ReadIndex, OnlyMoves, TypeOK, Locals, Deciding
    <3>4. CASE WriteIndex(r)
      BY <1>b, <3>4 DEF WriteIndex, OnlyMoves, TypeOK, Locals, Deciding
    <3> QED
      BY <1>7, <3>1, <3>2, <3>3, <3>4 DEF Surface
  <2> QED
    BY <1>c, <2>1 DEF Deciding
<1>8. ASSUME NEW r \in Cyclers, EmitFails(r) \/ Execute(r) PROVE SleepInv'
  <2>1. OnlyMoves(r) /\ run'[r].pc \in Deciding
    BY <1>8, CandidateKeeps
  <2>2. UNCHANGED slept
    BY <1>8 DEF EmitFails, Execute
  <2> QED
    BY <1>a, <1>c, <2>1, <2>2 DEF Deciding
<1>9. ASSUME EmitFails("fresh") PROVE SleepInv'
  BY <1>9, <1>a, <1>d DEF EmitFails
<1>10. ASSUME NEW r \in Runners, EndCycle(r) \/ CycleRaises(r) \/ Cut(r) PROVE SleepInv'
  BY <1>10, <1>d DEF EndCycle, CycleRaises, Cut
<1>11. CASE Tick \/ GatewayDrops \/ OperatorFlips \/ UNCHANGED vars
  BY <1>11 DEF Tick, GatewayDrops, OperatorFlips, vars, SleepInv
<1> QED
  BY <1>1, <1>2, <1>3, <1>4, <1>5, <1>6, <1>7, <1>8, <1>9, <1>10, <1>11, <1>a, <1>d
     DEF Next, Cycle

-----------------------------------------------------------------------------
(* Theorems *)

IInv == TypeOK /\ HeldInv /\ DiskInv /\ LossInv /\ SleepInv

LEMMA Invariant == Spec => []IInv
<1>1. Init => IInv
  <2> SUFFICES ASSUME Init PROVE IInv
    OBVIOUS
  <2>1. \A r \in Runners : run[r].pc = "idle"
    BY NextNineType, EndedType DEF Init
  <2>2. HeldInv
    BY DEF Init, HeldInv
  <2>3. DiskInv
    BY <2>1 DEF Init, DiskInv, DealAtHand, OneEmits, ReadIsCurrent, FileShowsDeal, IndexAgrees,
                Emitting
  <2>4. LossInv
    <3>1. \A r \in Runners : ~PastTheSwitch(r)
      BY <2>1 DEF PastTheSwitch, Deciding
    <3>2. opening = sys /\ opening.day = -1
      BY DEF Init, NoRow
    <3>3. Today \in Int /\ -1 <= Today
      BY DayType, DayAssumption DEF Today, Init
    <3>4. Cyclers \subseteq Runners
      BY DEF Runners
    <3> QED
      BY <3>1, <3>2, <3>3, <3>4 DEF LossInv, OverlapsAreMarked, DaysArePast, OpeningIsCommitted,
         NoSecondBaseline, BaselineWasFound, LateFollows, LossStops, PastTheSwitch
  <2>5. SleepInv
    <3>1. run["loop"] = Ended(NextNine(0)) /\ slept = 0
      BY DEF Init, Runners, Cyclers
    <3>2. Ended(NextNine(0)).wake = NextNine(0)
      BY DEF Ended
    <3> QED
      BY <3>1, <3>2 DEF SleepInv
  <2> QED
    BY <2>2, <2>3, <2>4, <2>5, InitType DEF IInv
<1>2. IInv /\ [Next]_vars => IInv'
  BY NextType, NextHeld, NextDisk, NextLoss, NextSleeps DEF IInv, DiskInv
<1> QED
  BY <1>1, <1>2, PTL DEF Spec

\* Every variable of the trading day has its type.
THEOREM TypeCorrect == Spec => []TypeOK
<1>1. IInv => TypeOK
  BY DEF IInv
<1> QED
  BY <1>1, Invariant, PTL

\* run_trading.py and scheduler.py: however runs halt, raise, are cut off or lose the
\* gateway, neither the client id nor the row lock of system_state outlives its run.
THEOREM NothingIsHeld == Spec => []NothingHeldAfterwards
<1>1. IInv => NothingHeldAfterwards
  BY DEF IInv, HeldInv, NothingHeldAfterwards, Deciding, NoRun, Cyclers
<1> QED
  BY <1>1, Invariant, PTL

\* output/decision_md.py: while no two emissions overlapped and none was cut off,
\* INDEX.md names the files there are and the deals they show, also where two deals
\* share a file.
THEOREM IndexIsTrue == Spec => []IndexAgrees
<1>1. IInv => IndexAgrees
  BY DEF IInv, DiskInv
<1> QED
  BY <1>1, Invariant, PTL

\* safeguards.py's daily loss check and scheduler.py's commit in `finally`: once a run of
\* the day came through, no later run decides on a NetLiq the limit below what it left,
\* unless two runs overlapped that day.
THEOREM LossesStopTheDay == Spec => []LossStops
<1>1. IInv => LossStops
  BY DEF IInv, LossInv
<1> QED
  BY <1>1, Invariant, PTL

\* next_paris_time, run_trading.py: whatever the change of the clocks, the loop sleeps
\* until the first instant at which Paris clocks show nine.
THEOREM LoopSleepsTillNine == Spec => []SleepsTillNine
<1>1. IInv => SleepsTillNine
  <2> SUFFICES ASSUME IInv, run["loop"].pc = "idle" PROVE SleepsTillNine
    BY DEF SleepsTillNine
  <2>1. slept \in Int /\ run["loop"].wake = NextNine(slept)
    BY DEF IInv, SleepInv, TypeOK
  <2> QED
    BY <2>1, NextNineIsNine DEF SleepsTillNine
<1> QED
  BY <1>1, Invariant, PTL

=============================================================================
