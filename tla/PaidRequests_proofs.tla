------------------------ MODULE PaidRequests_proofs ------------------------
(***************************************************************************)
(* Theorems about PaidRequests, for every finite set of callers, every     *)
(* sharing of limiters among them, every interval, jitter, retry schedule, *)
(* price list and budget.                                                  *)
(***************************************************************************)
EXTENDS PaidRequests, FiniteSetTheorems, TLAPS

-----------------------------------------------------------------------------
(* Pacing: types and the limiter's lock *)

\* A retry is only awaited while one is left.
RetriesLeft == \A t \in Tasks : pc[t] = "backoff" => attempt[t] < MaxRetries

\* The task that sleeps holds its limiter's lock, and will wake up an interval after
\* the last grant.
SleeperHoldsLock ==
    \A t \in Tasks : pc[t] = "sleep" =>
        /\ holder[LimiterOf[t]] = t
        /\ since[LimiterOf[t]] + timer[t] >= Interval

PaceInv == TypeOK /\ RetriesLeft /\ SleeperHoldsLock

LEMMA InitPaceInv == Init => PaceInv
BY PaidAssumption DEF Init, PaceInv, TypeOK, RetriesLeft, SleeperHoldsLock, Horizon, Stages

\* The delay of a retry is a natural number, capped or not.
LEMMA BackoffType == ASSUME NEW k \in 0..MaxRetries PROVE BackoffDelay(k) \in Nat
<1>1. 2^k \in Nat /\ BaseDelay \in Nat /\ MaxDelay \in Nat
  BY PaidAssumption
<1>2. \A n \in Nat : BaseDelay * n \in Nat
  BY <1>1
<1> QED
  BY <1>1, <1>2 DEF BackoffDelay

LEMMA WaitType ==
  ASSUME TypeOK, NEW t \in Tasks, NEW j \in 0..Jitter
  PROVE  /\ Wait(LimiterOf[t], j) \in Nat
         /\ since[LimiterOf[t]] + Wait(LimiterOf[t], j) >= Interval
<1>1. LimiterOf[t] \in Limiters
  BY PaidAssumption
<1>2. since[LimiterOf[t]] \in Int /\ Interval \in Nat /\ Jitter \in Nat
  BY <1>1, PaidAssumption DEF TypeOK, Horizon
<1> QED
  BY <1>2 DEF Wait

LEMMA CostRange ==
  ASSUME TypeOK, NEW t \in Tasks
  PROVE  cost[t] \in 0..MaxCost
<1>1. cost \in [Tasks -> Costs \cup {0}]
  BY DEF TypeOK
<1>2. Costs \cup {0} \subseteq 0..MaxCost
  BY PaidAssumption
<1> QED
  BY <1>1, <1>2, Zenon

LEMMA NextTypeOK == TypeOK /\ RetriesLeft /\ [Next]_vars => TypeOK'
<1> SUFFICES ASSUME TypeOK, RetriesLeft, [Next]_vars PROVE TypeOK'
  OBVIOUS
<1> USE PaidAssumption DEF TypeOK, Stages
<1>a. \A l \in Limiters : since[l] \in 0..Horizon /\ Horizon \in Nat
  BY DEF Horizon
<1>b. Costs \subseteq Nat
  OBVIOUS
<1>c. \A t \in Tasks : cost[t] \in Nat
  BY CostRange
<1>1. ASSUME NEW t \in Tasks, Start(t) PROVE TypeOK'
  BY <1>1 DEF Start, GoTo, pacing, bill
<1>2. ASSUME NEW t \in Tasks, TakeLock(t) PROVE TypeOK'
  <2>1. timer' \in [Tasks -> Nat]
    BY <1>2, WaitType DEF TakeLock
  <2> QED
    BY <1>2, <2>1 DEF TakeLock, GoTo, bill
<1>3. ASSUME NEW t \in Tasks, Grant(t) PROVE TypeOK'
  BY <1>3, <1>a DEF Grant, GoTo, bill
<1>4. ASSUME NEW t \in Tasks, Direct(t) PROVE TypeOK'
  <2>1. CASE Settle(t)
    BY <2>1 DEF Settle, Return, GoTo, pacing, bill
  <2>2. CASE NoDocument(t)
    BY <2>2 DEF NoDocument, Return, GoTo, pacing, bill
  <2>3. CASE Transient(t)
    <3>1. timer' \in [Tasks -> Nat]
      BY <2>3, BackoffType DEF Transient
    <3> QED
      BY <2>3, <3>1 DEF Transient, Return, GoTo, bill
  <2> QED
    BY <1>4, <2>1, <2>2, <2>3 DEF Direct
<1>5. ASSUME NEW t \in Tasks, Retry(t) PROVE TypeOK'
  <2>1. attempt[t] + 1 \in 0..MaxRetries
    BY <1>5 DEF Retry, RetriesLeft
  <2> QED
    BY <1>5, <2>1 DEF Retry, GoTo, pacing, bill
<1>6. ASSUME NEW t \in Tasks, ScrapeWrapper(t) PROVE TypeOK'
  BY <1>6 DEF ScrapeWrapper, Return, GoTo, pacing, bill
<1>7. ASSUME NEW t \in Tasks, SumUsage(t) PROVE TypeOK'
  BY <1>7 DEF SumUsage, Return, GoTo, pacing, bill
<1>8. ASSUME NEW t \in Tasks, Pay(t) PROVE TypeOK'
  BY <1>8, <1>b DEF Pay, Charge, GoTo, pacing
<1>9. ASSUME NEW t \in Tasks, Record(t) PROVE TypeOK'
  BY <1>9, <1>c DEF Record, Return, GoTo, pacing
<1>10. ASSUME NEW t \in Tasks, LoseRow(t) PROVE TypeOK'
  BY <1>10, <1>b DEF LoseRow, Charge, Return, GoTo, pacing
<1>11. CASE Probe
  BY <1>11, <1>b DEF Probe, Charge, pacing
<1>12. CASE NewMonth
  BY <1>12 DEF NewMonth, pacing
<1>13. CASE Tick
  <2>1. timer' \in [Tasks -> Nat]
    BY <1>13 DEF Tick
  <2>2. since' \in [Limiters -> 0..Horizon]
    BY <1>13, <1>a DEF Tick
  <2> QED
    BY <1>13, <2>1, <2>2 DEF Tick, bill
<1>14. CASE UNCHANGED vars
  BY <1>14 DEF vars, pacing, bill
<1> QED
  BY <1>1, <1>2, <1>3, <1>4, <1>5, <1>6, <1>7, <1>8, <1>9, <1>10, <1>11, <1>12, <1>13,
     <1>14 DEF Next, Step

LEMMA NextRetriesLeft == TypeOK /\ RetriesLeft /\ [Next]_vars => RetriesLeft'
<1> SUFFICES ASSUME TypeOK, RetriesLeft, [Next]_vars PROVE RetriesLeft'
  OBVIOUS
<1> USE PaidAssumption DEF TypeOK, RetriesLeft, GoTo, Return
<1>1. ASSUME NEW t \in Tasks, Start(t) PROVE RetriesLeft'
  BY <1>1 DEF Start
<1>2. ASSUME NEW t \in Tasks, TakeLock(t) PROVE RetriesLeft'
  BY <1>2 DEF TakeLock
<1>3. ASSUME NEW t \in Tasks, Grant(t) PROVE RetriesLeft'
  BY <1>3 DEF Grant
<1>4. ASSUME NEW t \in Tasks, Direct(t) PROVE RetriesLeft'
  BY <1>4 DEF Direct, Settle, NoDocument, Transient, MayRetry
<1>5. ASSUME NEW t \in Tasks, Retry(t) PROVE RetriesLeft'
  BY <1>5 DEF Retry
<1>6. ASSUME NEW t \in Tasks, ScrapeWrapper(t) PROVE RetriesLeft'
  BY <1>6 DEF ScrapeWrapper
<1>7. ASSUME NEW t \in Tasks, SumUsage(t) \/ Pay(t) \/ Record(t) \/ LoseRow(t)
      PROVE  RetriesLeft'
  BY <1>7 DEF SumUsage, Pay, Record, LoseRow
<1>8. CASE Probe \/ NewMonth \/ Tick \/ UNCHANGED vars
  BY <1>8 DEF Probe, NewMonth, Tick, vars
<1> QED
  BY <1>1, <1>2, <1>3, <1>4, <1>5, <1>6, <1>7, <1>8 DEF Next, Step

\* The lock is what makes this inductive: while a task sleeps nobody else of its limiter
\* can be granted, so the time since the last grant only grows.
LEMMA NextSleeper == PaceInv /\ [Next]_vars => SleeperHoldsLock'
<1> SUFFICES ASSUME PaceInv, [Next]_vars PROVE SleeperHoldsLock'
  OBVIOUS
<1> USE PaidAssumption DEF PaceInv, TypeOK, SleeperHoldsLock
<1>a. \A t \in Tasks : LimiterOf[t] \in Limiters
  OBVIOUS
<1>b. \A t \in Tasks : since[LimiterOf[t]] \in Nat /\ timer[t] \in Nat
  BY <1>a
<1>1. ASSUME NEW t \in Tasks, TakeLock(t) PROVE SleeperHoldsLock'
  <2> SUFFICES ASSUME NEW u \in Tasks, pc'[u] = "sleep"
               PROVE  /\ holder'[LimiterOf[u]] = u
                      /\ since'[LimiterOf[u]] + timer'[u] >= Interval
    OBVIOUS
  <2>1. CASE u = t
    BY <1>1, <2>1, <1>a, WaitType DEF TakeLock, GoTo
  <2>2. CASE u # t
    BY <1>1, <2>2, <1>a DEF TakeLock, LockFree, GoTo
  <2> QED
    BY <2>1, <2>2
<1>2. ASSUME NEW t \in Tasks, Grant(t) PROVE SleeperHoldsLock'
  <2> SUFFICES ASSUME NEW u \in Tasks, pc'[u] = "sleep"
               PROVE  /\ holder'[LimiterOf[u]] = u
                      /\ since'[LimiterOf[u]] + timer'[u] >= Interval
    OBVIOUS
  <2>1. pc[u] = "sleep" /\ u # t
    BY <1>2 DEF Grant, GoTo
  <2>2. LimiterOf[u] # LimiterOf[t]
    BY <1>2, <2>1 DEF Grant
  <2> QED
    BY <1>2, <1>a, <2>1, <2>2 DEF Grant, GoTo
<1>3. ASSUME NEW t \in Tasks, Transient(t) PROVE SleeperHoldsLock'
  BY <1>3 DEF Transient, GoTo, Return
<1>4. ASSUME NEW t \in Tasks, UNCHANGED pacing, pc'[t] # "sleep",
             \A u \in Tasks : u # t => pc'[u] = pc[u]
      PROVE  SleeperHoldsLock'
  BY <1>4 DEF pacing
<1>5. ASSUME NEW t \in Tasks,
             \/ Start(t) \/ Settle(t) \/ NoDocument(t) \/ Retry(t) \/ ScrapeWrapper(t)
             \/ SumUsage(t) \/ Pay(t) \/ Record(t) \/ LoseRow(t)
      PROVE  SleeperHoldsLock'
  <2>1. UNCHANGED pacing /\ pc'[t] # "sleep" /\ \A u \in Tasks : u # t => pc'[u] = pc[u]
    BY <1>5 DEF Start, Settle, NoDocument, Retry, ScrapeWrapper, SumUsage, Pay, Record,
                LoseRow, GoTo, Return, pacing
  <2> QED
    BY <2>1, <1>4
<1>6. CASE Probe \/ NewMonth \/ UNCHANGED vars
  BY <1>6 DEF Probe, NewMonth, vars, pacing
<1>7. CASE Tick
  <2> SUFFICES ASSUME NEW u \in Tasks, pc'[u] = "sleep"
               PROVE  /\ holder'[LimiterOf[u]] = u
                      /\ since'[LimiterOf[u]] + timer'[u] >= Interval
    OBVIOUS
  <2>1. pc[u] = "sleep" /\ holder' = holder
    BY <1>7 DEF Tick
  <2>2. since'[LimiterOf[u]] =
            IF since[LimiterOf[u]] < Horizon THEN since[LimiterOf[u]] + 1 ELSE since[LimiterOf[u]]
    BY <1>7, <1>a DEF Tick
  <2>3. timer'[u] = IF timer[u] > 0 THEN timer[u] - 1 ELSE 0
    BY <1>7 DEF Tick
  <2>4. since[LimiterOf[u]] + timer[u] >= Interval /\ Interval <= Horizon
    BY <2>1 DEF Horizon
  <2> QED
    BY <1>b, <2>1, <2>2, <2>3, <2>4 DEF Horizon
<1> QED
  BY <1>1, <1>2, <1>3, <1>5, <1>6, <1>7 DEF Next, Step, Direct

LEMMA PaceInvariant == Spec => []PaceInv
<1>1. PaceInv /\ [Next]_vars => PaceInv'
  BY NextTypeOK, NextRetriesLeft, NextSleeper DEF PaceInv
<1> QED
  BY <1>1, InitPaceInv, PTL DEF Spec

-----------------------------------------------------------------------------
(* The bill *)

\* Callers between the sum and the answer, and between the answer and its row.
Paying == {t \in Payers : pc[t] = "paid"}
Recording == {t \in Payers : pc[t] = "record"}

\* Credits answered for and not yet recorded, one by one: a set, so that its size is
\* their sum.
Credits(t) == {t} \X (1..cost[t])
Debt == {d \in Payers \X (1..MaxCost) : d[2] <= cost[d[1]]}

\* Only a payer is at the vendor, and only there has it a cost in hand.
PayersOnly ==
    \A t \in Tasks : /\ pc[t] \in {"sum", "paid", "record"} => t \in Payers
                     /\ cost[t] # 0 => pc[t] = "record"

\* What is charged is recorded, about to be, or lost to a fault.
ChargesCounted == charged <= recorded + Cardinality(Debt) + MaxCost * faults

\* A caller that was let through has its dearest call already counted.
RoomForPaying ==
    charged + MaxCost * Cardinality(Paying)
        <= Budget - 1 + MaxCost * (Cardinality(Payers) + faults)

BillInv == TypeOK /\ PayersOnly /\ ChargesCounted /\ RoomForPaying

LEMMA FinitePayers ==
  /\ IsFiniteSet(Payers) /\ Cardinality(Payers) \in Nat
  /\ \A S \in SUBSET Payers : IsFiniteSet(S) /\ Cardinality(S) \in Nat
<1>1. Payers \in SUBSET Tasks
  BY DEF Payers
<1>2. IsFiniteSet(Payers)
  BY <1>1, FS_Subset, PaidAssumption
<1> QED
  BY <1>2, FS_Subset, FS_CardinalityType

\* The debt is finite, and each caller that records owes at most one dear call.
LEMMA DebtBounded ==
  ASSUME TypeOK, PayersOnly
  PROVE  /\ IsFiniteSet(Debt) /\ Cardinality(Debt) \in Nat
         /\ Cardinality(Debt) <= MaxCost * Cardinality(Recording)
<1>1. IsFiniteSet(1..MaxCost) /\ Cardinality(1..MaxCost) = MaxCost
  BY PaidAssumption, FS_Interval
<1>2. Recording \in SUBSET Payers
  BY DEF Recording
<1>3. IsFiniteSet(Recording \X (1..MaxCost))
      /\ Cardinality(Recording \X (1..MaxCost)) = Cardinality(Recording) * MaxCost
  BY <1>1, <1>2, FinitePayers, FS_Product
<1>4. Debt \in SUBSET (Recording \X (1..MaxCost))
  <2> SUFFICES ASSUME NEW d \in Debt PROVE d \in Recording \X (1..MaxCost)
    OBVIOUS
  <2>1. d \in Payers \X (1..MaxCost) /\ d[2] <= cost[d[1]]
    BY DEF Debt
  <2>2. d[1] \in Payers /\ d[1] \in Tasks /\ d[2] >= 1 /\ d = <<d[1], d[2]>> /\ d[2] \in 1..MaxCost
    BY <2>1, PaidAssumption DEF Payers
  <2>3. cost[d[1]] # 0
    BY <2>1, <2>2
  <2>4. d[1] \in Recording
    BY <2>2, <2>3 DEF PayersOnly, Recording
  <2> QED
    BY <2>2, <2>4
<1>5. Cardinality(Debt) <= Cardinality(Recording) * MaxCost /\ IsFiniteSet(Debt)
  BY <1>3, <1>4, FS_Subset
<1>6. Cardinality(Recording) \in Nat
  BY <1>2, FinitePayers
<1> QED
  BY <1>5, <1>6, FS_CardinalityType, PaidAssumption

\* When one caller's cost in hand changes from zero, or to zero, the debt changes by it.
LEMMA CreditsCounted ==
  ASSUME NEW t \in Payers, NEW c \in 0..MaxCost
  PROVE  LET S == {t} \X (1..c)
         IN  IsFiniteSet(S) /\ Cardinality(S) = c
<1>1. c \in Nat
  BY PaidAssumption
<1>2. IsFiniteSet(1..c) /\ Cardinality(1..c) = c
  BY <1>1, FS_Interval
<1>3. IsFiniteSet({t}) /\ Cardinality({t}) = 1
  BY FS_Singleton
<1>4. IsFiniteSet({t} \X (1..c)) /\ Cardinality({t} \X (1..c)) = 1 * c
  BY <1>2, <1>3, FS_Product
<1> QED
  BY <1>1, <1>4

LEMMA DebtGrows ==
  ASSUME TypeOK, PayersOnly, NEW t \in Payers, NEW c \in Costs,
         cost[t] = 0, cost' = [cost EXCEPT ![t] = c]
  PROVE  Cardinality(Debt') = Cardinality(Debt) + c
<1> USE PaidAssumption
<1> DEFINE S == {t} \X (1..c)
<1>1. c \in 0..MaxCost
  OBVIOUS
<1>2. IsFiniteSet(S) /\ Cardinality(S) = c
  BY <1>1, CreditsCounted
<1>3. t \in Tasks /\ \A u \in Payers : u \in Tasks /\ cost'[u] = IF u = t THEN c ELSE cost[u]
  BY DEF Payers, TypeOK
<1>4. Debt' = Debt \cup S
  <2>1. \A u \in Payers, i \in 1..MaxCost :
            i <= cost'[u] <=> (i <= cost[u] \/ (u = t /\ i <= c))
    BY <1>1, <1>3
  <2>2. \A d : d \in Debt' => d \in Debt \cup S
    <3> SUFFICES ASSUME NEW d \in Payers \X (1..MaxCost), d[2] <= cost'[d[1]]
                 PROVE  d \in Debt \cup S
      BY DEF Debt, Payers
    <3>1. d[1] \in Payers /\ d[2] \in 1..MaxCost /\ d = <<d[1], d[2]>>
      OBVIOUS
    <3>2. CASE d[2] <= cost[d[1]]
      BY <3>2 DEF Debt
    <3>3. CASE d[1] = t /\ d[2] <= c
      <4>1. d[2] \in 1..c
        BY <3>1, <3>3, <1>1
      <4> QED
        BY <3>1, <3>3, <4>1
    <3> QED
      BY <2>1, <3>1, <3>2, <3>3
  <2>3. \A d \in Debt : d \in Debt'
    <3> SUFFICES ASSUME NEW d \in Payers \X (1..MaxCost), d[2] <= cost[d[1]]
                 PROVE  d[2] <= cost'[d[1]]
      BY DEF Debt, Payers
    <3>1. d[1] \in Payers /\ d[2] \in 1..MaxCost
      OBVIOUS
    <3> QED
      BY <2>1, <3>1
  <2>4. \A d \in S : d \in Debt'
    <3> SUFFICES ASSUME NEW d \in S PROVE d \in Payers \X (1..MaxCost) /\ d[2] <= cost'[d[1]]
      BY DEF Debt, Payers
    <3>1. d[1] = t /\ d[2] \in 1..c /\ d = <<d[1], d[2]>>
      OBVIOUS
    <3>2. d[2] \in 1..MaxCost /\ d[2] <= c
      BY <3>1, <1>1
    <3> QED
      BY <3>1, <3>2, <1>3
  <2> QED
    BY <2>2, <2>3, <2>4
<1>5. Debt \cap S = {}
  <2> SUFFICES ASSUME NEW d \in Debt, d \in S PROVE FALSE
    OBVIOUS
  <2>1. d[1] = t /\ d[2] \in 1..c /\ d[2] <= cost[d[1]]
    BY DEF Debt
  <2> QED
    BY <2>1, <1>1
<1>6. IsFiniteSet(Debt) /\ Cardinality(Debt) \in Nat
  BY DebtBounded
<1>7. Cardinality(Debt \cup S) = Cardinality(Debt) + Cardinality(S) - Cardinality(Debt \cap S)
  BY <1>2, <1>6, FS_Union
<1>8. Cardinality(Debt \cap S) = 0
  BY <1>5, FS_EmptySet
<1>9. Cardinality(Debt \cup S) = Cardinality(Debt) + c
  BY <1>1, <1>2, <1>6, <1>7, <1>8
<1> QED
  BY <1>4, <1>9

LEMMA DebtShrinks ==
  ASSUME TypeOK, PayersOnly, NEW t \in Payers, cost' = [cost EXCEPT ![t] = 0]
  PROVE  Cardinality(Debt') = Cardinality(Debt) - cost[t]
<1> USE PaidAssumption
<1> DEFINE S == {t} \X (1..cost[t])
<1>1. t \in Tasks /\ cost[t] \in 0..MaxCost
  BY CostRange DEF Payers
<1>2. IsFiniteSet(S) /\ Cardinality(S) = cost[t]
  BY <1>1, CreditsCounted
<1>3. \A u \in Payers : u \in Tasks /\ cost'[u] = IF u = t THEN 0 ELSE cost[u]
  BY DEF Payers, TypeOK
<1>4. S \in SUBSET Debt
  <2> SUFFICES ASSUME NEW d \in S PROVE d \in Payers \X (1..MaxCost) /\ d[2] <= cost[d[1]]
    BY DEF Debt
  <2>1. d[1] = t /\ d[2] \in 1..cost[t] /\ d = <<d[1], d[2]>>
    OBVIOUS
  <2>2. d[2] \in 1..MaxCost /\ d[2] <= cost[t]
    BY <2>1, <1>1
  <2> QED
    BY <2>1, <2>2
<1>5. Debt' = Debt \ S
  <2>1. \A d \in Payers \X (1..MaxCost) :
            d[2] <= cost'[d[1]] <=> (d[2] <= cost[d[1]] /\ d \notin S)
    <3> SUFFICES ASSUME NEW d \in Payers \X (1..MaxCost)
                 PROVE  d[2] <= cost'[d[1]] <=> (d[2] <= cost[d[1]] /\ d \notin S)
      OBVIOUS
    <3>1. d[1] \in Payers /\ d[2] \in 1..MaxCost /\ d = <<d[1], d[2]>>
      OBVIOUS
    <3>2. CASE d[1] = t
      <4>1. d \in S <=> d[2] \in 1..cost[t]
        BY <3>1, <3>2
      <4> QED
        BY <1>1, <1>3, <3>1, <3>2, <4>1
    <3>3. CASE d[1] # t
      BY <1>3, <3>1, <3>3
    <3> QED
      BY <3>2, <3>3
  <2> QED
    BY <2>1 DEF Debt, Payers
<1>6. IsFiniteSet(Debt) /\ Cardinality(Debt) \in Nat
  BY DebtBounded
<1>7. Cardinality(Debt \ S) = Cardinality(Debt) - Cardinality(Debt \cap S)
  BY <1>6, FS_Difference
<1>8. Debt \cap S = S
  BY <1>4
<1> QED
  BY <1>2, <1>5, <1>7, <1>8

-----------------------------------------------------------------------------
(* The bill's invariant *)

LEMMA Dear ==
  /\ \A a, b \in Int : MaxCost * (a + b) = MaxCost * a + MaxCost * b
  /\ \A a \in Int : MaxCost * (a + 1) = MaxCost * a + MaxCost
  /\ \A a \in Int : MaxCost * (a - 1) = MaxCost * a - MaxCost
  /\ \A a, b \in Int : a <= b => MaxCost * a <= MaxCost * b
  /\ \A a \in Nat : MaxCost * a \in Nat
  /\ MaxCost * 0 = 0
BY PaidAssumption

LEMMA InitBillInv == Init => BillInv
<1> SUFFICES ASSUME Init PROVE BillInv
  OBVIOUS
<1>1. TypeOK
  BY InitPaceInv DEF PaceInv
<1>2. PayersOnly
  BY DEF Init, PayersOnly
<1>3. Cardinality(Debt) \in Nat
  BY <1>1, <1>2, DebtBounded
<1>4. Paying = {} /\ Cardinality(Paying) = 0
  <2>1. Paying = {}
    BY DEF Init, Paying, Payers
  <2> QED
    BY <2>1, FS_EmptySet
<1>5. ChargesCounted
  BY <1>3, Dear DEF Init, ChargesCounted
<1>6. RoomForPaying
  <2>1. charged = 0 /\ faults = 0 /\ Cardinality(Payers) + 0 \in Nat /\ Budget - 1 \in Nat
    BY FinitePayers, PaidAssumption DEF Init
  <2>2. MaxCost * (Cardinality(Payers) + 0) \in Nat
    BY <2>1, Dear
  <2> QED
    BY <1>4, <2>1, <2>2, Dear DEF RoomForPaying
<1> QED
  BY <1>1, <1>2, <1>5, <1>6 DEF BillInv

\* A step that neither pays nor records, nor moves a caller to or from the vendor.
LEMMA ElsewhereKeepsBill ==
  ASSUME BillInv, TypeOK', UNCHANGED bill, NEW t \in Tasks,
         \A u \in Tasks : u # t => pc'[u] = pc[u],
         pc[t] \notin {"paid", "record"}, pc'[t] \notin {"paid", "record"},
         pc'[t] = "sum" => t \in Payers
  PROVE  BillInv'
<1> USE DEF BillInv, bill
<1>1. PayersOnly'
  BY DEF PayersOnly, Payers
<1>2. Debt' = Debt /\ Payers' = Payers
  BY DEF Debt, Payers
<1>3. Paying' = Paying
  BY DEF Paying, Payers
<1> QED
  BY <1>1, <1>2, <1>3 DEF ChargesCounted, RoomForPaying

LEMMA PayingLeaves ==
  ASSUME TypeOK, NEW t \in Payers, pc[t] = "paid",
         \A u \in Tasks : u # t => pc'[u] = pc[u], pc'[t] # "paid"
  PROVE  Cardinality(Paying') = Cardinality(Paying) - 1
<1>1. Paying' = Paying \ {t}
  BY DEF Paying, Payers
<1>2. IsFiniteSet(Paying) /\ t \in Paying
  BY FinitePayers DEF Paying
<1> QED
  BY <1>1, <1>2, FS_RemoveElement

\* The sum a caller reads falls short of what is charged by the debt and the faults, and
\* whoever owes is not among those at the vendor.
LEMMA SumKeepsBill ==
  ASSUME BillInv, TypeOK', NEW t \in Tasks, SumUsage(t)
  PROVE  BillInv'
<1> USE DEF BillInv
<1>1. pc[t] = "sum" /\ UNCHANGED bill /\ \A u \in Tasks : u # t => pc'[u] = pc[u]
  BY DEF SumUsage, GoTo, Return, TypeOK
<1>2. t \in Payers
  BY <1>1 DEF PayersOnly
<1>3. CASE ~MaySpend(recorded)
  <2>1. pc'[t] = "idle"
    BY <1>3 DEF SumUsage, Return, GoTo, TypeOK
  <2> QED
    BY <1>1, <2>1, ElsewhereKeepsBill
<1>4. CASE MaySpend(recorded)
  <2>1. pc' = [pc EXCEPT ![t] = "paid"]
    BY <1>4 DEF SumUsage, GoTo
  <2>2. PayersOnly'
    BY <1>1, <1>2, <2>1 DEF PayersOnly, Payers, bill, TypeOK
  <2>3. Debt' = Debt /\ Payers' = Payers
    BY <1>1 DEF Debt, Payers, bill
  <2>4. Paying' = Paying \cup {t} /\ t \notin Paying
    BY <1>1, <1>2, <2>1 DEF Paying, Payers, TypeOK
  <2>5. IsFiniteSet(Paying) /\ Cardinality(Paying) \in Nat
        /\ IsFiniteSet(Recording) /\ Cardinality(Recording) \in Nat
    BY FinitePayers DEF Paying, Recording
  <2>6. Cardinality(Paying') = Cardinality(Paying) + 1
    BY <2>4, <2>5, FS_AddElement
  <2>7. Cardinality(Paying') + Cardinality(Recording) <= Cardinality(Payers)
    <3>1. IsFiniteSet(Paying')
      BY <2>4, <2>5, FS_AddElement
    <3>2. Paying' \cap Recording = {}
      BY <1>1, <2>4 DEF Paying, Recording
    <3>3. Paying' \cup Recording \in SUBSET Payers
      BY <1>2, <2>4 DEF Paying, Recording
    <3>4. Cardinality(Paying' \cup Recording)
              = Cardinality(Paying') + Cardinality(Recording) - Cardinality(Paying' \cap Recording)
      BY <3>1, <2>5, FS_Union
    <3>5. Cardinality(Paying' \cap Recording) = 0
      BY <3>2, FS_EmptySet
    <3>6. Cardinality(Paying' \cup Recording) <= Cardinality(Payers)
      BY <3>3, FinitePayers, FS_Subset
    <3> QED
      BY <2>5, <2>6, <3>4, <3>5, <3>6
  <2>8. recorded \in Nat /\ charged \in Nat /\ faults \in Nat /\ recorded <= Budget - 1
    BY <1>4, PaidAssumption DEF TypeOK, MaySpend
  <2>9. RoomForPaying'
    <3> DEFINE N == Cardinality(Payers)
               P == Cardinality(Paying')
               R == Cardinality(Recording)
    <3>1. charged <= recorded + MaxCost * R + MaxCost * faults
      <4>1. Cardinality(Debt) <= MaxCost * R /\ Cardinality(Debt) \in Nat
        BY DebtBounded
      <4>2. MaxCost * R \in Nat /\ MaxCost * faults \in Nat
        BY <2>5, <2>8, Dear
      <4> QED
        BY <2>8, <4>1, <4>2 DEF ChargesCounted
    <3>2. P \in Nat /\ N \in Nat /\ R \in Nat
      BY <2>5, <2>6, FinitePayers
    <3>3. MaxCost * P + MaxCost * R <= MaxCost * N
      BY <2>7, <3>2, Dear
    <3>4. MaxCost * (N + faults) = MaxCost * N + MaxCost * faults
      BY <2>8, <3>2, Dear
    <3>5. MaxCost * P \in Nat /\ MaxCost * R \in Nat /\ MaxCost * N \in Nat /\ MaxCost * faults \in Nat
      BY <2>8, <3>2, Dear
    <3>6. Budget \in Nat
      BY PaidAssumption
    <3>7. charged + MaxCost * P <= Budget - 1 + MaxCost * (N + faults)
      BY <2>8, <3>1, <3>3, <3>4, <3>5, <3>6
    <3> QED
      BY <3>7, <1>1, <2>3 DEF RoomForPaying, bill
  <2>10. ChargesCounted'
    BY <1>1, <2>3 DEF ChargesCounted, bill
  <2> QED
    BY <2>2, <2>9, <2>10
<1> QED
  BY <1>3, <1>4

LEMMA PayKeepsBill ==
  ASSUME BillInv, TypeOK', NEW t \in Tasks, Pay(t)
  PROVE  BillInv'
<1> USE DEF BillInv
<1> PICK c \in Costs : charged' = charged + c /\ cost' = [cost EXCEPT ![t] = c]
  BY DEF Pay, Charge
<1>1. pc[t] = "paid" /\ pc' = [pc EXCEPT ![t] = "record"] /\ recorded' = recorded /\ faults' = faults
  BY DEF Pay, GoTo
<1>2. t \in Payers /\ cost[t] = 0
  BY <1>1 DEF PayersOnly
<1>3. PayersOnly'
  BY <1>1, <1>2 DEF PayersOnly, Payers, TypeOK
<1>4. Cardinality(Debt') = Cardinality(Debt) + c
  BY <1>2, DebtGrows
<1>5. Cardinality(Paying') = Cardinality(Paying) - 1
  BY <1>1, <1>2, PayingLeaves DEF TypeOK
<1>6. c \in Nat /\ c <= MaxCost /\ MaxCost \in Nat /\ recorded \in Nat /\ charged \in Nat
      /\ faults \in Nat /\ Budget \in Nat
  BY PaidAssumption DEF TypeOK
<1>7. Cardinality(Debt) \in Nat /\ Cardinality(Paying) \in Nat /\ Cardinality(Payers) \in Nat
  BY DebtBounded, FinitePayers DEF Paying
<1>8. MaxCost * faults \in Nat /\ MaxCost * (Cardinality(Payers) + faults) \in Nat
      /\ MaxCost * Cardinality(Paying) \in Nat
      /\ MaxCost * Cardinality(Paying') = MaxCost * Cardinality(Paying) - MaxCost
  BY <1>5, <1>6, <1>7, Dear
<1>9. Payers' = Payers
  BY DEF Payers
<1>10. ChargesCounted'
  BY <1>1, <1>4, <1>6, <1>7, <1>8 DEF ChargesCounted
<1>11. RoomForPaying'
  BY <1>1, <1>6, <1>7, <1>8, <1>9 DEF RoomForPaying
<1> QED
  BY <1>3, <1>10, <1>11

LEMMA RecordKeepsBill ==
  ASSUME BillInv, TypeOK', NEW t \in Tasks, Record(t)
  PROVE  BillInv'
<1> USE DEF BillInv
<1>1. /\ pc[t] = "record" /\ pc' = [pc EXCEPT ![t] = "idle"]
      /\ recorded' = recorded + cost[t] /\ charged' = charged /\ faults' = faults
      /\ cost' = [cost EXCEPT ![t] = 0]
  BY DEF Record, Return, GoTo
<1>2. t \in Payers
  BY <1>1 DEF PayersOnly
<1>3. PayersOnly'
  BY <1>1 DEF PayersOnly, Payers, TypeOK
<1>4. Cardinality(Debt') = Cardinality(Debt) - cost[t]
  BY <1>1, <1>2, DebtShrinks
<1>5. Paying' = Paying /\ Payers' = Payers
  BY <1>1 DEF Paying, Payers, TypeOK
<1>6. recorded \in Nat /\ charged \in Nat /\ faults \in Nat /\ cost[t] \in Nat
  BY CostRange, PaidAssumption DEF TypeOK
<1>7. Cardinality(Debt) \in Nat /\ MaxCost * faults \in Nat
  BY <1>6, DebtBounded, Dear
<1>8. ChargesCounted'
  BY <1>1, <1>4, <1>6, <1>7 DEF ChargesCounted
<1>9. RoomForPaying'
  BY <1>1, <1>5 DEF RoomForPaying
<1> QED
  BY <1>3, <1>8, <1>9

\* A fault pays for the call it loses.
LEMMA LossKeepsBill ==
  ASSUME BillInv, TypeOK', NEW t \in Tasks, LoseRow(t)
  PROVE  BillInv'
<1> USE DEF BillInv
<1>1. pc' = [pc EXCEPT ![t] = "idle"] /\ recorded' = recorded /\ faults' = faults + 1
  BY DEF LoseRow, Return, GoTo
<1>2. Payers' = Payers
  BY DEF Payers
<1>3. MaxCost \in Nat /\ recorded \in Nat /\ charged \in Nat /\ faults \in Nat /\ Budget \in Nat
  BY PaidAssumption DEF TypeOK
<1>4. Cardinality(Debt) \in Nat /\ Cardinality(Paying) \in Nat /\ Cardinality(Payers) \in Nat
  BY DebtBounded, FinitePayers DEF Paying
<1>5. /\ MaxCost * faults \in Nat /\ MaxCost * faults' = MaxCost * faults + MaxCost
      /\ MaxCost * (Cardinality(Payers) + faults) \in Nat
      /\ MaxCost * (Cardinality(Payers) + faults')
             = MaxCost * (Cardinality(Payers) + faults) + MaxCost
      /\ MaxCost * Cardinality(Paying) \in Nat
  <2>1. Cardinality(Payers) + (faults + 1) = (Cardinality(Payers) + faults) + 1
    BY <1>3, <1>4
  <2> QED
    BY <1>1, <1>3, <1>4, <2>1, Dear
<1>6. CASE pc[t] = "paid" /\ cost' = cost /\ \E c \in Costs : Charge(c)
  <2> PICK c \in Costs : charged' = charged + c
    BY <1>6 DEF Charge
  <2>1. c \in Nat /\ c <= MaxCost
    BY PaidAssumption
  <2>2. t \in Payers /\ PayersOnly'
    BY <1>1, <1>6 DEF PayersOnly, Payers, TypeOK
  <2>3. Debt' = Debt
    BY <1>6 DEF Debt, Payers
  <2>4. Cardinality(Paying') = Cardinality(Paying) - 1
    BY <1>1, <1>6, <2>2, PayingLeaves DEF TypeOK
  <2>5. MaxCost * Cardinality(Paying') = MaxCost * Cardinality(Paying) - MaxCost
    BY <1>4, <2>4, Dear
  <2>6. ChargesCounted'
    BY <1>1, <1>3, <1>4, <1>5, <2>1, <2>3 DEF ChargesCounted
  <2>7. RoomForPaying'
    BY <1>2, <1>3, <1>4, <1>5, <2>1, <2>5 DEF RoomForPaying
  <2> QED
    BY <2>2, <2>6, <2>7
<1>7. CASE pc[t] = "record" /\ cost' = [cost EXCEPT ![t] = 0] /\ charged' = charged
  <2>1. t \in Payers /\ PayersOnly'
    BY <1>1, <1>7 DEF PayersOnly, Payers, TypeOK
  <2>2. Cardinality(Debt') = Cardinality(Debt) - cost[t] /\ cost[t] \in Nat /\ cost[t] <= MaxCost
    <3>1. cost[t] \in 0..MaxCost
      BY CostRange
    <3>2. Cardinality(Debt') = Cardinality(Debt) - cost[t]
      BY <1>7, <2>1, DebtShrinks
    <3> QED
      BY <1>3, <3>1, <3>2
  <2>3. Paying' = Paying
    BY <1>1, <1>7 DEF Paying, Payers, TypeOK
  <2>4. ChargesCounted'
    BY <1>1, <1>3, <1>4, <1>5, <1>7, <2>2 DEF ChargesCounted
  <2>5. RoomForPaying'
    BY <1>2, <1>3, <1>4, <1>5, <1>7, <2>3 DEF RoomForPaying
  <2> QED
    BY <2>1, <2>4, <2>5
<1> QED
  BY <1>6, <1>7 DEF LoseRow

LEMMA ProbeKeepsBill ==
  ASSUME BillInv, TypeOK', Probe
  PROVE  BillInv'
<1> USE DEF BillInv
<1> PICK c \in Costs : charged' = charged + c
  BY DEF Probe, Charge
<1>1. pc' = pc /\ recorded' = recorded /\ cost' = cost /\ faults' = faults + 1
  BY DEF Probe
<1>2. Payers' = Payers /\ Paying' = Paying /\ Debt' = Debt /\ PayersOnly'
  BY <1>1 DEF Payers, Paying, Debt, PayersOnly
<1>3. c \in Nat /\ c <= MaxCost /\ MaxCost \in Nat /\ recorded \in Nat /\ charged \in Nat
      /\ faults \in Nat /\ Budget \in Nat
  BY PaidAssumption DEF TypeOK
<1>4. Cardinality(Debt) \in Nat /\ Cardinality(Paying) \in Nat /\ Cardinality(Payers) \in Nat
  BY DebtBounded, FinitePayers DEF Paying
<1>5. /\ MaxCost * faults \in Nat /\ MaxCost * faults' = MaxCost * faults + MaxCost
      /\ MaxCost * (Cardinality(Payers) + faults) \in Nat
      /\ MaxCost * (Cardinality(Payers) + faults')
             = MaxCost * (Cardinality(Payers) + faults) + MaxCost
      /\ MaxCost * Cardinality(Paying) \in Nat
  <2>1. Cardinality(Payers) + (faults + 1) = (Cardinality(Payers) + faults) + 1
    BY <1>3, <1>4
  <2> QED
    BY <1>1, <1>3, <1>4, <2>1, Dear
<1>6. ChargesCounted'
  BY <1>1, <1>2, <1>3, <1>4, <1>5 DEF ChargesCounted
<1>7. RoomForPaying'
  BY <1>2, <1>3, <1>4, <1>5 DEF RoomForPaying
<1> QED
  BY <1>2, <1>6, <1>7

LEMMA MonthKeepsBill ==
  ASSUME BillInv, TypeOK', NewMonth
  PROVE  BillInv'
<1> USE DEF BillInv
<1>1. pc' = pc /\ cost' = cost /\ recorded' = 0 /\ charged' = 0 /\ faults' = 0
  BY DEF NewMonth
<1>2. Payers' = Payers /\ Paying' = Paying /\ Debt' = Debt /\ PayersOnly'
  BY <1>1 DEF Payers, Paying, Debt, PayersOnly
<1>3. Cardinality(Debt) \in Nat /\ Cardinality(Paying) \in Nat /\ Cardinality(Payers) \in Nat
  BY DebtBounded, FinitePayers DEF Paying
<1>4. Cardinality(Paying) <= Cardinality(Payers)
  BY FinitePayers, FS_Subset DEF Paying
<1>5. MaxCost * Cardinality(Paying) <= MaxCost * (Cardinality(Payers) + 0) /\ MaxCost * 0 = 0
  BY <1>3, <1>4, Dear, PaidAssumption
<1>6. ChargesCounted'
  BY <1>1, <1>2, <1>3, <1>5 DEF ChargesCounted
<1>7. RoomForPaying'
  <2>1. MaxCost * Cardinality(Paying) \in Nat /\ MaxCost * (Cardinality(Payers) + 0) \in Nat
    <3>1. Cardinality(Payers) + 0 \in Nat
      BY <1>3
    <3> QED
      BY <1>3, <3>1, Dear
  <2> QED
    BY <1>1, <1>2, <1>5, <2>1, PaidAssumption DEF RoomForPaying
<1> QED
  BY <1>2, <1>6, <1>7

LEMMA NextBillInv == BillInv /\ TypeOK' /\ [Next]_vars => BillInv'
<1> SUFFICES ASSUME BillInv, TypeOK', [Next]_vars PROVE BillInv'
  OBVIOUS
<1>0. TypeOK
  BY DEF BillInv
<1>1. ASSUME NEW t \in Tasks,
             \/ Start(t) \/ TakeLock(t) \/ Grant(t) \/ Direct(t) \/ Retry(t)
             \/ ScrapeWrapper(t)
      PROVE  BillInv'
  <2>1. /\ UNCHANGED bill
        /\ \A u \in Tasks : u # t => pc'[u] = pc[u]
        /\ pc[t] \notin {"paid", "record"}
    BY <1>0, <1>1 DEF Start, TakeLock, Grant, Direct, Settle, NoDocument, Transient, Retry,
                      ScrapeWrapper, GoTo, Return, TypeOK
  <2>2. pc'[t] \notin {"paid", "record"}
    BY <1>0, <1>1 DEF Start, TakeLock, Grant, Direct, Settle, NoDocument, Transient, Retry,
                      ScrapeWrapper, GoTo, Return, TypeOK
  <2>3. pc'[t] = "sum" => t \in Payers
    BY <1>0, <1>1, PaidAssumption
       DEF Start, TakeLock, Grant, Direct, Settle, NoDocument, Transient, Retry,
           ScrapeWrapper, GoTo, Return, TypeOK, Payers
  <2> QED
    BY <2>1, <2>2, <2>3, ElsewhereKeepsBill
<1>2. ASSUME NEW t \in Tasks, SumUsage(t) \/ Pay(t) \/ Record(t) \/ LoseRow(t) PROVE BillInv'
  BY <1>2, SumKeepsBill, PayKeepsBill, RecordKeepsBill, LossKeepsBill
<1>3. CASE Tick \/ UNCHANGED vars
  <2>1. pc' = pc /\ UNCHANGED bill
    BY <1>3 DEF Tick, vars
  <2>2. Payers' = Payers /\ Paying' = Paying /\ Debt' = Debt /\ PayersOnly'
    BY <2>1 DEF Payers, Paying, Debt, PayersOnly, bill, BillInv
  <2> QED
    BY <2>1, <2>2 DEF BillInv, ChargesCounted, RoomForPaying, bill
<1> QED
  BY <1>1, <1>2, <1>3, ProbeKeepsBill, MonthKeepsBill DEF Next, Step

-----------------------------------------------------------------------------
(* Theorems *)

\* Every variable of the pacing and of the bill has its type.
THEOREM TypeCorrect == Spec => []TypeOK
<1>1. PaceInv => TypeOK
  BY DEF PaceInv
<1> QED
  BY <1>1, PaceInvariant, PTL

\* RateLimiter.acquire: however many tasks queue for a limiter, and whatever jitter they
\* draw, its grants are at least an interval apart.
THEOREM GrantsArePaced == Spec => GrantsPaced
<1>1. ASSUME PaceInv, [Next]_vars, NEW t \in Tasks, pc[t] = "sleep", pc'[t] = "request"
      PROVE  since[LimiterOf[t]] >= Interval
  <2>1. timer[t] = 0
    BY <1>1 DEF Next, Step, Direct, Start, TakeLock, Grant, Settle, NoDocument, Transient, Retry,
                ScrapeWrapper, SumUsage, Pay, Record, LoseRow, Probe, NewMonth, Tick, GoTo,
                Return, PaceInv, TypeOK, vars
  <2>2. since[LimiterOf[t]] \in Nat
    BY <1>1, PaidAssumption DEF PaceInv, TypeOK
  <2> QED
    BY <1>1, <2>1, <2>2 DEF PaceInv, SleeperHoldsLock
<1>2. PaceInv /\ [Next]_vars
          => [\A t \in Tasks : (pc[t] = "sleep" /\ pc'[t] = "request")
                 => since[LimiterOf[t]] >= Interval]_vars
  BY <1>1
<1> QED
  BY <1>2, PaceInvariant, PTL DEF Spec, GrantsPaced

\* ScrapingBeeClient.get: a month's charges pass the budget by at most one dear call per
\* paying caller and one per call that was charged and never recorded.
THEOREM BillIsBounded == Spec => []BillBounded
<1>1. BillInv => BillBounded
  <2> SUFFICES ASSUME BillInv PROVE BillBounded
    OBVIOUS
  <2>1. Cardinality(Paying) \in Nat /\ Cardinality(Payers) \in Nat
    BY FinitePayers DEF Paying
  <2>2. charged \in Nat /\ faults \in Nat /\ Budget \in Nat
    BY PaidAssumption DEF BillInv, TypeOK
  <2>3. MaxCost * Cardinality(Paying) \in Nat /\ MaxCost * (Cardinality(Payers) + faults) \in Nat
    <3>1. Cardinality(Payers) + faults \in Nat
      BY <2>1, <2>2
    <3> QED
      BY <2>1, <3>1, Dear
  <2> QED
    BY <2>2, <2>3 DEF BillInv, RoomForPaying, BillBounded
<1> QED
  BY <1>1, TypeCorrect, InitBillInv, NextBillInv, PTL DEF Spec

=============================================================================
