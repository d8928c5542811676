---------------------------- MODULE PaidRequests ----------------------------
(***************************************************************************)
(* How the pollers' requests are paced, retried and paid for:              *)
(* RateLimiter.acquire and retry_with_backoff (ingestion/amf/              *)
(* rate_limiter.py), ScrapingBeeClient.get (core/scrapingbee_client.py)    *)
(* and the two fetchers that combine them (ingestion/{consob,bafin}/       *)
(* fetcher.py).  A task is one caller: a poller in a process of its own or *)
(* one of several in a process; tasks of one process may share a limiter.  *)
(*                                                                         *)
(* Time is relative: a limiter counts the time since its last grant, a     *)
(* task the rest of its sleep.  What a call returns is left out (the       *)
(* FilingPoller modules have it), and so is a call that finds its document *)
(* on disk, which requests nothing, and the alert hook, which no caller    *)
(* passes.                                                                 *)
(***************************************************************************)
EXTENDS Integers, FiniteSets

CONSTANTS
    Tasks,       \* callers
    NoTask,      \* "nobody"
    Limiters,    \* RateLimiter objects
    LimiterOf,   \* the one each task uses
    Listing,     \* tasks that read Consob's listing, through ScrapingBee only
    Bafin,       \* tasks that fetch BaFin documents; the others fetch Consob's
    Interval,    \* 1 / rate_per_second
    Jitter,      \* at most so much is added to a wait
    MaxRetries,  \* poller_amf_max_retries
    BaseDelay, MaxDelay, \* of retry_with_backoff
    Budget,      \* scrapingbee_monthly_budget
    Costs,       \* credits a call may cost
    MaxCost,     \* the dearest
    MaxFaults    \* how many calls of a month are charged and never recorded

ASSUME PaidAssumption ==
    /\ IsFiniteSet(Tasks) /\ NoTask \notin Tasks
    /\ LimiterOf \in [Tasks -> Limiters]
    /\ Listing \subseteq Tasks /\ Bafin \subseteq Tasks \ Listing
    /\ Interval \in Nat /\ Jitter \in Nat
    /\ MaxRetries \in Nat /\ BaseDelay \in Nat /\ MaxDelay \in Nat
    /\ \A k \in 0..MaxRetries : 2^k \in Nat
    /\ Budget \in Nat \ {0} /\ MaxCost \in Nat /\ Costs \subseteq 0..MaxCost
    /\ MaxFaults \in Nat

VARIABLES
    pc,       \* where each task's call stands
    round,    \* a BaFin call's attempt at a URL: the derived one, the scraped one
    attempt,  \* of retry_with_backoff, from 0
    timer,    \* the rest of a task's sleep
    holder,   \* the task inside each limiter's lock
    since,    \* time since each limiter's last grant, up to where it matters
    recorded, \* the current month's sum of vendor_api_usage.credits_cost
    charged,  \* credits the vendor took this month
    cost,     \* Spb-Cost of the response in hand
    faults    \* calls charged this month and never recorded

pacing == <<timer, holder, since>>
bill == <<recorded, charged, cost, faults>>
vars == <<pc, round, attempt, pacing, bill>>

-----------------------------------------------------------------------------
\* BaFin's site is not behind ScrapingBee.
Payers == Tasks \ Bafin

Stages == {"idle", "queue", "sleep", "request", "backoff", "wrapper",
           "sum", "paid", "record"}

\* Beyond it the time since the last grant changes no wait.
Horizon == Interval + Jitter

TypeOK ==
    /\ pc \in [Tasks -> Stages]
    /\ round \in [Tasks -> 1..2]
    /\ attempt \in [Tasks -> 0..MaxRetries]
    /\ timer \in [Tasks -> Nat]
    /\ holder \in [Limiters -> Tasks \cup {NoTask}]
    /\ since \in [Limiters -> 0..Horizon]
    /\ recorded \in Nat
    /\ charged \in Nat
    /\ cost \in [Tasks -> Costs \cup {0}]
    /\ faults \in 0..MaxFaults

\* _last_call_monotonic starts at 0, the time the machine came up.
Init ==
    /\ pc = [t \in Tasks |-> "idle"]
    /\ round = [t \in Tasks |-> 1]
    /\ attempt = [t \in Tasks |-> 0]
    /\ timer = [t \in Tasks |-> 0]
    /\ holder = [l \in Limiters |-> NoTask]
    /\ since \in [Limiters -> 0..Horizon]
    /\ recorded = 0 /\ charged = 0
    /\ cost = [t \in Tasks |-> 0]
    /\ faults = 0

GoTo(t, stage) == pc' = [pc EXCEPT ![t] = stage]

\* The call returns or raises: its locals are gone.
Return(t) ==
    /\ GoTo(t, "idle")
    /\ round' = [round EXCEPT ![t] = 1]
    /\ attempt' = [attempt EXCEPT ![t] = 0]

-----------------------------------------------------------------------------
(* RateLimiter.acquire *)

\* A listing page is paid for at once; a document is asked for directly first.
Start(t) ==
    /\ pc[t] = "idle"
    /\ GoTo(t, IF t \in Listing THEN "sum" ELSE "queue")
    /\ UNCHANGED <<round, attempt, pacing, bill>>

\* Slip: a waiting task reads the last grant before it has the lock.
LockIsNotNeeded(l) == TRUE

LockFree(l) == holder[l] = NoTask

\* Inside the lock the wait is computed from the last grant, jitter added.
Wait(l, jitter) ==
    LET wait == Interval - since[l] + jitter IN IF wait > 0 THEN wait ELSE 0

TakeLock(t) ==
    LET l == LimiterOf[t]
    IN  /\ pc[t] = "queue"
        /\ LockFree(l)
        /\ holder' = [holder EXCEPT ![l] = t]
        /\ \E jitter \in 0..Jitter : timer' = [timer EXCEPT ![t] = Wait(l, jitter)]
        /\ GoTo(t, "sleep")
        /\ UNCHANGED <<round, attempt, since, bill>>

\* Slip: the lock is kept.
GrantWithin(t) ==
    /\ pc[t] = "sleep" /\ timer[t] = 0
    /\ since' = [since EXCEPT ![LimiterOf[t]] = 0]
    /\ attempt' = [attempt EXCEPT ![t] = 0]
    /\ GoTo(t, "request")
    /\ UNCHANGED <<round, timer, holder, bill>>

\* The sleep is over: the grant is noted before the lock is released.
Grant(t) ==
    LET l == LimiterOf[t]
    IN  /\ pc[t] = "sleep" /\ timer[t] = 0
        /\ since' = [since EXCEPT ![l] = 0]
        /\ holder' = [holder EXCEPT ![l] = NoTask]
        /\ attempt' = [attempt EXCEPT ![t] = 0]
        /\ GoTo(t, "request")
        /\ UNCHANGED <<round, timer, bill>>

-----------------------------------------------------------------------------
(* The direct request, under retry_with_backoff *)

\* The body is a document: the file is written and the call returns. A refusal that
\* is not retried raises.
Settle(t) ==
    /\ pc[t] = "request"
    /\ Return(t)
    /\ UNCHANGED <<pacing, bill>>

\* A page instead of a document: Consob's is bought, BaFin's link is looked up.
NoDocument(t) ==
    /\ pc[t] = "request"
    /\ \/ /\ t \notin Bafin
          /\ GoTo(t, "sum")
          /\ UNCHANGED <<round, attempt>>
       \/ /\ t \in Bafin /\ round[t] = 1
          /\ GoTo(t, "wrapper")
          /\ UNCHANGED <<round, attempt>>
       \/ /\ t \in Bafin /\ round[t] = 2
          /\ Return(t)
    /\ UNCHANGED <<pacing, bill>>

\* Slip: one attempt too many.
RetryOnceMore(t) == attempt[t] <= MaxRetries

MayRetry(t) == attempt[t] < MaxRetries

BackoffDelay(k) == IF BaseDelay * 2^k < MaxDelay THEN BaseDelay * 2^k ELSE MaxDelay

\* 429, 5xx or a transport error: the next attempt after a delay, outside the limiter.
Transient(t) ==
    /\ pc[t] = "request"
    /\ \/ /\ MayRetry(t)
          /\ GoTo(t, "backoff")
          /\ timer' = [timer EXCEPT ![t] = BackoffDelay(attempt[t])]
          /\ UNCHANGED <<round, attempt>>
       \/ /\ ~MayRetry(t)
          /\ Return(t)
          /\ UNCHANGED timer
    /\ UNCHANGED <<holder, since, bill>>

Retry(t) ==
    /\ pc[t] = "backoff" /\ timer[t] = 0
    /\ attempt' = [attempt EXCEPT ![t] = @ + 1]
    /\ GoTo(t, "request")
    /\ UNCHANGED <<round, pacing, bill>>

\* BaFin's wrapper page is requested without a grant and without a retry; the link it
\* holds is the second URL.
ScrapeWrapper(t) ==
    /\ pc[t] = "wrapper"
    /\ \/ /\ GoTo(t, "queue")
          /\ round' = [round EXCEPT ![t] = 2]
          /\ UNCHANGED attempt
       \/ Return(t)
    /\ UNCHANGED <<pacing, bill>>

-----------------------------------------------------------------------------
(* ScrapingBeeClient.get *)

\* Slip: the budget is compared after the call it should refuse.
WithinBudget(used) == used <= Budget

MaySpend(used) == used < Budget

\* The month's rows are summed, in a session of its own, before every call.
SumUsage(t) ==
    /\ pc[t] = "sum"
    /\ \/ /\ MaySpend(recorded)
          /\ GoTo(t, "paid")
          /\ UNCHANGED <<round, attempt>>
       \/ /\ ~MaySpend(recorded)
          /\ Return(t)
    /\ UNCHANGED <<pacing, bill>>

Charge(c) == charged' = charged + c

\* The response says what the call cost.
Pay(t) ==
    /\ pc[t] = "paid"
    /\ \E c \in Costs : Charge(c) /\ cost' = [cost EXCEPT ![t] = c]
    /\ GoTo(t, "record")
    /\ UNCHANGED <<round, attempt, pacing, recorded, faults>>

\* A row is inserted under the month it is by then; with or without a document, the
\* call is over.
Record(t) ==
    /\ pc[t] = "record"
    /\ recorded' = recorded + cost[t]
    /\ cost' = [cost EXCEPT ![t] = 0]
    /\ Return(t)
    /\ UNCHANGED <<pacing, charged, faults>>

\* A lost response, a failed insert or a crash between the request and its row. The
\* credits are charged, in the month of the request, and nobody counts them.
LoseRow(t) ==
    /\ faults < MaxFaults
    /\ \/ /\ pc[t] = "paid"
          /\ \E c \in Costs : Charge(c)
          /\ UNCHANGED cost
       \/ /\ pc[t] = "record"
          /\ cost' = [cost EXCEPT ![t] = 0]
          /\ UNCHANGED charged
    /\ faults' = faults + 1
    /\ Return(t)
    /\ UNCHANGED <<pacing, recorded>>

\* scripts/scrapingbee_test.py calls the vendor past the client.
Probe ==
    /\ faults < MaxFaults
    /\ \E c \in Costs : Charge(c)
    /\ faults' = faults + 1
    /\ UNCHANGED <<pc, round, attempt, pacing, recorded, cost>>

-----------------------------------------------------------------------------
\* Rows of earlier months are not summed again.
NewMonth ==
    /\ recorded' = 0 /\ charged' = 0 /\ faults' = 0
    /\ UNCHANGED <<pc, round, attempt, pacing, cost>>

Tick ==
    /\ timer' = [t \in Tasks |-> IF timer[t] > 0 THEN timer[t] - 1 ELSE 0]
    /\ since' = [l \in Limiters |-> IF since[l] < Horizon THEN since[l] + 1 ELSE since[l]]
    /\ UNCHANGED <<pc, round, attempt, holder, bill>>

Direct(t) == Settle(t) \/ NoDocument(t) \/ Transient(t)

Step(t) ==
    \/ Grant(t) \/ Direct(t) \/ Retry(t) \/ ScrapeWrapper(t)
    \/ SumUsage(t) \/ Pay(t) \/ Record(t)

Next ==
    \/ \E t \in Tasks : Start(t) \/ TakeLock(t) \/ Step(t) \/ LoseRow(t)
    \/ Probe \/ NewMonth \/ Tick

Spec == Init /\ [][Next]_vars

\* Requests are answered or time out, time passes, and asyncio.Lock serves its
\* waiters in turn, so none is passed over for ever.
FairSpec ==
    /\ Spec
    /\ WF_vars(Tick)
    /\ \A t \in Tasks : WF_vars(Step(t)) /\ SF_vars(TakeLock(t))

-----------------------------------------------------------------------------
\* RateLimiter's promise, for tasks that queue, sleep and are granted in any order:
\* the grants of one limiter are an interval apart.
GrantsPaced ==
    [][\A t \in Tasks : (pc[t] = "sleep" /\ pc'[t] = "request")
           => since[LimiterOf[t]] >= Interval]_vars

(***************************************************************************)
(* get() reads the sum, spends and records in three sessions, and learns   *)
(* the price last: the month's bill passes the budget by at most one dear  *)
(* call per paying caller, and one per call that was never recorded, also  *)
(* across the turn of a month.                                             *)
(***************************************************************************)
BillBounded ==
    charged < Budget + MaxCost * (Cardinality(Payers) + faults)

\* Every call comes to an end: the retries do, the queue does, no sleep is forever.
CallsEnd == \A t \in Tasks : pc[t] # "idle" ~> pc[t] = "idle"

=============================================================================
