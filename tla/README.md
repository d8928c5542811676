# ede-platform in TLA+

A model of the parts of ede-platform in which several processes, a database, a
broker, a vendor or a regulator's website meet: paper trading through Interactive
Brokers, the ingestion of takeover filings, the resolution of tickers and the scripts
that correct what was stored. Source paths are relative to the repository; the code is
under `src/` and `scripts/`, its tests and documents beside it.

* [Inventory](#inventory): the parts of the system, their state and what is hard
* [Modules](#modules): which module models what, and how it corresponds to the code
* [Runs](#runs): what TLC checks, in which bounds, and what it shows
* [Proofs](#proofs): what TLAPS proves and along which argument
* [Divergences](#divergences): where code and documents disagree
* [Not modelled](#not-modelled)

## Inventory

| Part | State it keeps | Operations | What is hard |
|---|---|---|---|
| Trade executor, `trading/executor.py` | tables `trades`, `paper_positions` | `submit`, `mark_filled`, `mark_rejected` | the legs leave before the commit; idempotency rests on a read |
| Trading cycle, `trading/scheduler.py`, `scripts/run_trading.py` | locals of one cycle, an open session | `load_candidates`, `run_daily_cycle`, the 9h loop, `--once` | guards read once per cycle; state committed at its end |
| Safeguards, `trading/safeguards.py` | `system_state` rows, `data/kill_switch.flag` | kill switch, cap, cooldown, ramp-up, daily baseline | stale reads, lost counters, a baseline written by two runs |
| IBKR client, `trading/ibkr_client.py` | the socket, order ids | connect, qualify, price, place, cancel | one client id for all processes; ids reserved one at a time for three legs |
| Bracket builder, decision engine, sizing, `trading/{bracket_builder,decision_engine,position_sizing,price_provider}.py` | none | pure functions | prices rounded to ticks, a quantity rounded down after its minimum was tested, guardrails that may reverse an order |
| Decision output, `output/decision_md.py` | decision files, `INDEX.md` | `write_decision_md`, `update_decision_index` | read-modify-write of one file by three processes |
| Discord, `trading/discord_alerts.py` | none | alerts, `parse_command` | best effort; an operator acts concurrently with the cycle |
| BaFin and Consob ingestion, `ingestion/{bafin,consob}` | `deals`, `events`, PDF files | incremental and back-fill runs | stop-on-known, paging, two processes, runs cut off |
| AMF ingestion, `ingestion/amf` | `events`, `deals`, PDF files | RSS poll, BDIF search, download, upsert | look-up-then-insert, offsets into a moving list, a flag that protects a price |
| Pacing, retries and the ScrapingBee budget, `ingestion/amf/rate_limiter.py`, `core/scrapingbee_client.py` | a limiter's clock and lock, `vendor_api_usage` | `acquire`, `retry_with_backoff`, `get` | waiting callers; check, spend and record are three sessions |
| Pricing and ticker resolution, `pricing/`, `trading/ticker_resolver.py`, scripts p10 to p14 | OpenFIGI cache file, columns of `deals` | resolve, gate, price, decide | a cache file rewritten whole, a cycle and a script over the same rows |
| Curation scripts, `scripts/` | prices and flags of `deals`, `deal_consideration`, `scores` | re-parse, promote, correct, recalculate, score | any order, cut off anywhere, beside the pollers |
| Document parsers, `ingestion/*/parser.py`, scripts `p92_02b_*` | none | regular expressions over text | the same digits in many forms; four tools that must agree |
| Scoring, `scoring/` | model files | features, fitting, inference | floating point |
| Dashboard, API, `dashboard/`, `api/` | none | rendering, read-only queries | none that a state machine shows |
| Core, migrations, one-off scripts | schema, settings | | none |

How they interact. Pollers are APScheduler jobs in one process; back-fills and all of
`scripts/` are run by hand in others; all write `deals` through sessions that select and
then write the columns they changed. The trading loop is a third process: it reads deals
and scores, resolves tickers, and calls the executor in its own session. The operator
approves held trades through a second session, raises and removes a flag file, and counts
validated trades. IBKR moves orders on its own; a fill monitor outside this repository
reports fills and rejections to `mark_filled` and `mark_rejected`. Processes share
nothing but the database, files, IBKR and two vendors, so the questions are which of them
saw what, and what a process that died had done by then.

What makes each correct:

* executor: a status only moves along the documented edges; a row that says SUBMITTED has
  its bracket at IBKR; a bracket at IBKR has a row; one request is executed once;
* cycle: no unapproved order before the ramp-up is over, one order per cycle and cooldown,
  a stop stops, the day's first baseline binds the later runs of the day, and no run
  leaves a lock or the client id behind;
* pollers: every listed filing is stored once; what one run stored no other run undoes;
* requests: spaced by the interval; the month's bill stays within the budget up to what is
  in flight and what was lost; every call ends;
* resolution: what passes the gate is traded by the ticker it is priced by, one of its own ISIN;
* curation: scores belong to the prices they were computed from; a settled price is
  changed by a correction only;
* parsers: a stored price is one the document offers, and the tools agree on it;
* sizing: the result is one the rule allows, whatever the inputs.

`PROJECT.json` has the hazards, each at its line with the properties for it.

## Modules

| Module | Models | Kind |
|---|---|---|
| `TradeExecutor` | `submit`, `mark_filled`, `mark_rejected`, the positions, the IBKR book they see | actions per session, no specification of its own |
| `TradingCycle` | `run_daily_cycle`, safeguards, operator; extends `TradeExecutor` | the composed specification `Spec` |
| `TradeLifecycle` | the status machine `docs/TRADING.md` promises | abstract specification |
| `TradingDay` | the runner around the cycle: sleeping, connecting, baseline, decisions on disk | `Spec` |
| `TradeSizing` | `evaluate_candidate`, `PositionSizer`, `build_bracket`: from a quote to the legs of a bracket | `Spec` |
| `FilingPoller` | BaFin and Consob pollers, services, fetchers and listings | `Spec`, `FairSpec` |
| `AmfIngestion` | AMF's BDIF and RSS pollers and their service | `Spec`, `FairSpec` |
| `PaidRequests` | rate limiter, retries, the two fetchers and the ScrapingBee client | `Spec`, `FairSpec` |
| `TickerResolution` | OpenFIGI resolver and cache, `apply_resolution`, the gate, scripts p10 to p14 | `Spec` |
| `DealCuration` | nine curation and scoring scripts, the pollers' writes between their commits | `Spec` |
| `DocumentParsers` | how the three parsers and the three audit tools read an offer price | `DocSpec` |
| `MC*` | values of the constants of one module for TLC | |
| `*_proofs` | theorems about one module; `DealCuration_proofs`, about `DocumentParsers` too | |

### Trading

In `TradingCycle` a step is the code between two awaits. The tables of the model are the
**committed** ones. What a session has written and not yet committed is in `call[s]` (the
`submit()` in flight) or in `cyc` (the locals of the cycle and its session's view of
`last_order_ts`), so a crash or a rollback is a step that forgets these and changes no
table.

| Model | Code |
|---|---|
| `trades[t]` | the row of trade_id `t`: status and IBKR id |
| `lots[d]` | `paper_positions`: BUY fills in the deal's open position |
| `broker[o]` | bracket `o` at IBKR; `booked` is what the monitor reported |
| `call[s].pc` | the await `submit()` of session `s` stands at: `hold`, `qualify`, `sent` |
| `BeginSubmit` | idempotency and duplicate tests, or storing PENDING |
| `Place` | the three `placeOrder` calls, which do not await |
| `CommitSubmitted`, `RejectUnresolved`, `Hold`, `SubmitRaises`, `Lose` | the ways out of `submit()` |
| `StartCycle` .. `EndCycle` | `run_daily_cycle`, one candidate at a time; `CycleRaises` and `CycleLost` are its exceptional ends |
| `stamp`, `lost` | history, read by properties only |

Abstractions: prices, quantities, SELL rows of the table and the `approved` column are left out.
The two SELECTs at the head of `submit()` are one step, because a fresh trade id is private
to its caller. Reaching the daily loss is a nondeterministic choice here; its arithmetic is
in `TradingDay`. A bracket is one id. "No last order yet" is a time long ago. CANCELLED is
in no action because nothing writes it.

Assumptions about code that is not in the repository: the monitor reports every event of
a bracket once, and only for brackets a row names; the operator works in one session, one
command after the other. One cycle runs at a time in `TradingCycle`. Fields `kept` and
`killed` of `stamp` record what the two properties about them need and guard nothing.

`TradingDay` takes the complementary view: two runs that may overlap (the 9h loop and
`--once`) and `p14_decide_fresh`, what surrounds the loop over the candidates, and of a
`submit()` only that it commits the session.

| Model | Code |
|---|---|
| `clock`, `Offset` | UTC in hours; Paris is `Winter` or `Summer` hours ahead |
| `owner` | the connection under `settings.ibkr_client_id`; a second process fails to connect and decides only |
| `sys`, `lock` | the committed baseline and its date; the session that flushed a change holds the row's lock |
| `run[r]` | where the process stands, and its locals: NetLiq, the row as its session saw it, the candidate, the index it read |
| `files`, `index` | `artifacts/decisions` and the rows of `INDEX.md` |
| `opening`, `overlaps`, `slept`, `tangled` | history, read by properties only |

### From a quote to a bracket

`TradingCycle` sees of a candidate only that it is skipped, or becomes a request, and of
`build_bracket` that it raises or not. `TradeSizing` is the arithmetic behind these choices,
one candidate at a time: `Evaluate` and `Skip` are `evaluate_candidate` with all it calls,
`BuildBracket` the call inside `submit()`.

| Model | Code |
|---|---|
| `row` | `DealCandidate`, `PriceSnapshot`, NetLiquidation |
| `req` | `TradeRequest` with its prices rounded to four decimals |
| `legs` | the prices of the `BracketLeg`s, in ticks |
| `KellyFractional`, `Capped`, `SizeEur`, `Quantity` | `compute_kelly`, its clamp, and `PositionSizer.size` |

Prices are hundredths of a cent, amounts euros, fractions of the capital basis points: the
quotients of the sizing are rounded down to these units, the euros and the capital share by
less than a unit, and the price a quantity is divided by to a hundredth of a cent, which
makes the quantity at most one part in 16,800 larger than the code's at 1.68 EUR and more:
on the strict side of `OrderWithinCap`. Rounding to ticks and decimals is exact, and a tie
falls either way. Spread, offsets, stop and tick are the defaults of `settings.py`;
`CAPITAL_CAP` is one million in the instance, since TLC's integers have 32 bits, and any
number in the proofs.

### Filings

One instance of `FilingPoller` is one regulator, chosen in `Init`. Two runs may be in
flight, the scheduled job (`run_incremental`, `max_instances=1`) and the back-fill script. A
run fetches a page, then takes each row through the awaits of `_run`: known?, download,
select, insert. The rows left of a page are a set, taken newest first.

| Model | Code |
|---|---|
| offers `1..listed`, newest first | the listing; `linked` have their document, the oldest `aged` left the job's 90-day window |
| `<<f, b>>` | the reference: Consob's is derived from the document's URL if there is one and from the names if not |
| `deals[ref]` | no row, a row without `pdf_path` (`bare`) or with (`filed`) |
| `files` | PDFs on disk; `os.replace` makes a download one step |
| `IsLastPage`, `PastCap`, `Visit` | the three ways a walk ends early |
| `Cut` | a failed request, an exhausted budget, a database error, a crash |
| `excused` | history: a cut, a cap, a shifted page or a dropped row happened |

BaFin's listing is one page; Consob's has `PageSize` rows, and the job reads `MaxPages` of
them. `Insert` meets the unique constraint when the other process inserted first, and ends
the run as the exception does. Rows are unique by key: two BaFin rows of one ISIN and date
are not modelled.

`AmfIngestion` is the third regulator, whose search is read by offset and whose service
protects a price by its flag. `Select` and `Write` are the two halves of
`upsert_deal_from_bdif`: `seen` is the row the select loaded, and `Refreshed` writes the
columns that `seen` called for over whatever is committed by then. `junked` is history: an
error page long enough to be taken for a document. The RSS poller (`polls`) finds the deal,
looks the event up and inserts it, in three steps; `rss[l]` counts the events of entry `l`.

`PaidRequests` is what these pollers' requests have in common. A task is one caller, and
`pc[t]` the await it stands at: queueing for the limiter's lock, sleeping with it, the
request, the back-off, then `get()`'s sum, request and record. `charged` is what the vendor
bills, `recorded` what `vendor_api_usage` sums. The outcome of a call is left to the poller
modules.

### Tickers, curation, documents

`TickerResolution` has two sessions, the trading cycle's and one script's. A session works
on copies (`mine`) of the rows it loaded (`seen`) and on a copy of the cache file from its
first look-up; `Commit` writes the columns that differ, `EndsUncommitted` nothing. `torn` is
history: the deals of which a commit wrote the flag or the ticker, not both, over a row
whose flag or ticker had changed since the session loaded it.
`Resolution` is `select_home_venue` with the tables of `openfigi_resolver.py`;
`Gated` the premium check; `Contract` is `TickerResolver.resolve`.

`DealCuration` runs one script at a time beside the pollers. `job.seen` are the rows the
script loaded before its loop (`expire_on_commit=False`), and `Commit` again writes only the
columns that differ. A document is what the installed revision of the parser makes of it;
`UpgradeParser` is a deployment. A score is the price and total it was computed from: the
scoring scripts read the row in one step (`ReadCluster`, `LoadFresh`; `job.pending` are the
deals read) and insert the score in a later one (`PersistScore`, `ScoreFresh`).

`DocumentParsers` has one text per behaviour, a sequence of phrases and amounts, each with the
character it stands at, and the expressions of each parser as operators over it: which
amounts an expression can match, which number it reads in one, how many characters it
allows between anchor and amount, and which of several clauses it takes. The AMF parser
counts its 400 characters up to the amount, the audit and the pre-review theirs up to
"prix" before it; `Gap` has both. The actions store a price, and then audit, review and re-run it.

## Runs

| Run | Expect | Question and instance |
|---|---|---|
| `faults` | pass | everything at once: 2 deals, 3 trade ids (two for one deal), 2 brackets, 2 cycles, 1 tick, crashes and failed commits anywhere |
| `retry` | violation | is a request executed once? |
| `day` | pass | 2 days of 3 hours with a change of the clocks, the loop, one run by hand or decide script, 1 fault |
| `bracket` | pass | 10 prices from half a cent to 20 EUR, 4 probabilities, 3 accounts, both kinds of venue: all candidates over them |
| `gaps` | pass | 3 offers, pages of 1, job reads 2 pages, both sites, no cut, documents linked late: when is there a hole below a stored row? |
| `stored` | pass | 3 offers, the oldest an unreadable row, one cut, with fairness |
| `amf` | pass | 2 items, one without number and document, pages of 1, job and script, 1 fault, 3 RSS runs, with fairness |
| `budget` | pass | 3 tasks over one limiter, a listing, a Consob and a BaFin download, one retry, costs 0 and 2 of a budget of 2, 1 fault, with fairness |
| `tickers` | pass | a French and a German deal, 2 revisions of the listings, 3 script runs, 1 session that ends without commit, with fairness |
| `reopened` | violation | does an excluded deal stay excluded? |
| `curation` | pass | 5 deals of 3 regulators, 2 revisions of the parsers, 3 script runs in any order, 1 cut off |
| `parsers` | pass | every text of up to 4 of 11 (FR), 10 (DE) or 8 (IT) phrases and amounts, in 4, 2 and 1 layouts |

What `faults` shows, under any crash and any order of operator, broker and cycle:

* `RampUpGate`: an order the cycle sent by itself implies that the ramp-up was complete,
  though the count is read long before;
* `OneOrderPerCycle`, `CooldownHolds`: a cycle that was not killed spaces its orders; one that
  was leaves no `last_order_ts`, and then the spacing is lost - which is why the property is about
  orders whose cycle reached its commit;
* `StopLetsOneThrough`: the flag is read once per cycle, but the cooldown leaves at most one
  order after it went up; the flag's promise is weaker than documented but not empty;
* `RowsBackedByBroker`, `OrphanOnlyAfterLoss`, `RepeatOnlyAfterLoss`: rows and broker agree, and
  each disagreement is a `submit()` cut off between the legs and the commit, no other;
* `BooksMatchBroker`: positions agree with reported fills while a deal has had one bracket;
* `LifecycleSpec`: the table implements the documented status machine.

What `day` shows. `LossStops`: when a run of the day has come to its end, no later run of
that day decides on a NetLiq the limit below the amount that run left, provided no two runs
overlapped on it. It needs the commit in `finally` on every way out of the loop: without it, a run
that submits nothing leaves no baseline. `IndexAgrees`: while no two emissions overlapped
and none was cut off, `INDEX.md` names exactly the files there are. `SleepsTillNine`: the
loop sleeps to the first instant Paris clocks show nine. `NothingHeldAfterwards`: a run that
halts, raises, is cut off or loses its connection keeps neither the client id nor the lock.

What `bracket` shows. `FinePricesBuild`: the engine admits a candidate by its unrounded
spread and the builder refuses it by rounded prices, with an exception that ends the cycle
for the candidates after it; from 1.68 EUR on they agree, and below it the run does reach
the exception. `OrderWithinCap`: the 12 % holds for the order that is sent, up to the 0.4 %
by which a tick may raise a price of 1.68 EUR. `SizeIsMonotone`: two candidates compared,
not one run: the guardrails after the Kelly formula clamp and never reverse.

What `gaps` and `stored` show. `GapHasCause` is the main result on BaFin and Consob: the job
takes its newest known row for the mark below which all is stored, and this holds while
nothing runs, unless a run was cut (also by the unique constraint), ran into the page cap,
lost a row to a page shift or met an unreadable row. A cut would only excuse what follows it,
so the instance has none. `DocumentsKept` needs both processes to
fail: a run that could not download must not clear the path another run stored since.
`EventuallyStored`: without a named cause, every listed offer is stored or leaves the window.

What `amf` shows. `PricesStaySettled`: however job and script race for a row, only an error
page taken for the document can change a price a document settled. `EventuallyPriced`: the
job has no mark and starts over each time, so whatever is within `max_items` of the front,
with no unnumbered item before it, is priced in the end. `CopiesBounded`: without a
constraint, the look-up still bounds the copies of a linked event by the number of pollers;
entries without a link have no bound, and the second entry of the feed shows it.

What `budget` shows. `GrantsPaced`: the lock is held across the sleep, so the time a task
read before it slept is still true. `BillBounded`: the overshoot is one dear call per paying
caller, and one per call that was never recorded, also over the turn of a month.
`CallsEnd`: retries, queue and sleeps all end.

What `tickers` shows. `GateHolds`: with both sessions writing the same row column by column
and both rewriting the cache, what is `home_venue` has a ticker of its own ISIN, and the
order's contract is that ticker, whatever the mapping by hand says. It is one on the main
market unless a commit tore the two columns apart: that the flag speaks of the ticker beside it
is lost when the cycle and a script resolve one deal at once and get different answers.
`EventuallyResolved` assumes only that a cycle is started again and goes on.

What `curation` shows. `ScoresFollowPrices`: a score that is not of its deal's price is one
that a further run of the French back-fill deletes, or a German one whose price moved by at
most 1 %, was withdrawn or was unknown until then. `SettledStays`: the back-fill's rows may be stale, and what saves
a settled price is that only changed columns are written and only rows at the default flag
were selected.

What `parsers` shows. `PricesAreOffered`: a stored price is the value of an amount printed in
the document, up to the forms `Misread` names, and a German one is never a leg of a mixed
offer. `ToolsAgree`: but for the causes `ToolsDiffer` names, the audit, the review and the
re-run come to the parser's price, of however many clauses. The causes are prices on pages
only some of them read, a price whose "prix" is within 400 characters of the verb and whose
amount is not (`OutOfReach`), clauses of different prices, of which the parser takes the first and the
audit the last, and in a clause an amount that is not the introduced one, or digits run together.
Each of them is reached in the instance, and is the code's ([Divergences](#divergences)).

Bounds. Three trade ids are the least that give a deal two requests and another deal one;
two brackets and two cycles the least for an order before and one after a crash, a cooldown
or a resubmission. `MaxRows` is 2 so that one cycle may decide twice. `MaxPositions` is 2,
not 1, so that the cap does not do the cooldown's work. Three offers are the least for a page
shift to hide one (one stored, one new, one below); with the unreadable row below the others
a full page with a dropped row is met. A second cut or fault adds no new cause in any
module: each property speaks of what one of them does beside a second process. Two AMF items on
pages of one make the list shift by a whole page; three RSS runs give two that overlap and a
later one. Two days give the baseline a change of date and the loop both sides of the change
of the clocks; one candidate per run is enough, since the emissions that meet are those of
different processes. Three script runs are the least for one script to run before, beside the
pollers, and again after another. Of a document four phrases suffice for every pair of
clauses with what separates them; the layouts put an amount at the last character of a window
and one beyond it, for the windows of 22, 73 and 103 characters and for the 400, counted to
the amount and to "prix". The clock, the pollers and the operator go on, so deadlock is
checked in `faults`, `day`, `gaps`, `stored`, `amf` and `budget`; a candidate, a document and
a bounded number of script runs come to an end, so `bracket`, `parsers`, `tickers`,
`reopened` and `curation` allow it.

Fairness. Pollers: APScheduler starts the job again and again (`WF` of `StartRun("job")`),
and a run that is not cut goes on, since every await in it has a timeout or ends in an
exception (`WF` of the steps). The script is never forced to start, the listing never to
grow, documents never to be linked. Requests: time passes, a request is answered or times
out, and `asyncio.Lock` wakes its waiters in order, which is `SF` of `TakeLock`. Resolution:
the 9h loop runs a cycle every day, and a cycle that started goes on. For trading no liveness
is stated: a candidate is acted on only if an operator and IBKR act.

## Proofs

Each theorem holds for every value of the constants that the module's named assumptions
allow. Most of these are types. More than that are: `Cooldown > 0` in `TradingCycle` (with a
cooldown of zero a cycle sends as many orders as it has candidates); that no usage costs more
than `MaxCost` in `PaidRequests`; `ClockAssumption` (clocks go forward, and the hour left out is
not nine); and `DataAssumption` of `DealCuration` (what the migrations gave the old rows, small
caps are German, and a mixed German offer is read without a scalar price). `ListingsAssumption`
says that OpenFIGI's answers are lists of rows, nothing about what is in them. An amount
of `DocumentParsers` is below a million, has two decimals and no cents without a mark
(`WrittenAssumption`), and a layout gives each word a place (`LayoutsAssumption`): which
places, the theorems do not ask.

| Module | Theorem | Property |
|---|---|---|
| `TradingCycle_proofs` | `TypeCorrect` | `TypeOK` |
| | `RampUpIsRespected` | `RampUpGate` |
| | `AtMostOneOrderPerCycle` | `OneOrderPerCycle` |
| | `CooldownIsRespected` | `CooldownHolds` |
| | `StopIsNearlyImmediate` | `StopLetsOneThrough` |
| | `RowsAreBacked` | `RowsBackedByBroker` |
| | `OrphansAreLosses` | `OrphanOnlyAfterLoss` |
| | `RepeatsAreLosses` | `RepeatOnlyAfterLoss` |
| | `BooksAreRight` | `BooksMatchBroker` |
| | `LifecycleIsImplemented` | `Spec => LifecycleSpec` |
| `TradeSizing_proofs` | `TypeCorrect` | `TypeOK` |
| | `FinePricesNeverRaise` | `FinePricesBuild` |
| | `CostStaysWithinCap` | `OrderWithinCap` |
| | `SizeFollowsEdge` | `SizeIsMonotone` |
| `PaidRequests_proofs` | `TypeCorrect` | `TypeOK` |
| | `GrantsArePaced` | `GrantsPaced` |
| | `BillIsBounded` | `BillBounded` |
| `AmfIngestion_proofs` | `TypeCorrect` | `TypeOK` |
| | `SettledPricesStay` | `PricesStaySettled` |
| | `CopiesAreBounded` | `CopiesBounded` |
| `FilingPoller_proofs` | `TypeCorrect` | `TypeOK` |
| | `GapsHaveCauses` | `GapHasCause` |
| | `FilesPrecedeRows` | `FileBeforeRow` |
| | `DocumentsStay` | `DocumentsKept` |
| `TradingDay_proofs` | `TypeCorrect` | `TypeOK` |
| | `NothingIsHeld` | `NothingHeldAfterwards` |
| | `IndexIsTrue` | `IndexAgrees` |
| | `LossesStopTheDay` | `LossStops` |
| | `LoopSleepsTillNine` | `SleepsTillNine` |
| `DealCuration_proofs` | `TypeCorrect` | `TypeOK` |
| | `ScoresFollow` | `ScoresFollowPrices` |
| | `SettledPricesStay` | `SettledStays` |
| | `PricesAreRead` | `PricesAreOffered` (of `DocumentParsers`) |
| | `ToolsConcur` | `ToolsAgree` (of `DocumentParsers`) |
| | `GermanReads` | what `DataAssumption` says of German reads |
| `TickerResolution_proofs` | `TypeCorrect` | `TypeOK` |
| | `GateIsTrue` | `GateHolds` |

**Trading.** The argument is one inductive invariant, `IInv`, the conjunction of:

* `CallsOwnTheirRow` - the executor never locks a row. What protects it is that the cycle only
  works on ids without a row and the operator only on PENDING rows, one at a time; so the row a
  `submit()` read is still what it was when it writes;
* `RowsNameTheirBracket`, `BracketsHaveATrade` - a live row names a bracket placed for it, and until
  a report on that bracket is booked the row is SUBMITTED: this is why a report never rewrites a settled row;
* `OrderStartsCooldown` - the order of the current cycle is being committed, or the session's view of
  `last_order_ts` is the cycle's own time. With a positive cooldown the next
  candidate is refused: hence one order per cycle, and after a stop at most one;
* `CountersAgree`, `KeptOrdersCount`, `KilledOrderIsOfThisRun` - the session's copies of the counters
  against the committed ones, and the histories against both;
* and the properties `RampUpGate`, `OneOrderPerCycle`, `CooldownHolds`, `OrphanOnlyAfterLoss`, which no step
  preserves alone.

The steps of `Next` are first reduced to what they do to rows, calls and brackets (`ExecStep`), so that
the executor's part is proved once for both sessions. The refinement follows from
`CallsOwnTheirRow` and `RowsNameTheirBracket`: each step moves one row along an edge or none.
`BooksInv` compares the positions with the reports of brackets placed, of which there are
finitely many; with one bracket per deal, the one lot is there between its entry and its exit.

**Sizing.** `SizingInv` adds to the two invariants `RequestFollowsRow`: a request's prices are
those its candidate gives. `FinePricesNeverRaise` follows from one inequality: the target is at
least 1 % above the reference and the entry at most 0.4 %, and 0.6 % of 1.68 EUR is more than
one tick, so after rounding either way the target is still above the entry
(`FineLegsInOrder`); the stop, 10 % below, is further off. `SizeFollowsEdge` composes the
monotonicity of each stage, quotient, clamp, size and quantity (`DivMonotone`,
`KellyMonotone`, `SizeMonotone`, `QuantityMonotone`). For `CostStaysWithinCap`, a request's
quantity is the one its row gives (`RequestedQuantity`); at the entry price before rounding it
costs no more than the cap (`QuantityWithinCap`), and a tick is at most 0.4 % of 1.68 EUR
(`RoundedCost`).

**Requests.** `PaceInv`: a task asleep holds its limiter's lock, and its sleep ends no sooner
than the interval (`SleeperHoldsLock`); no other task can be granted meanwhile. `BillInv`: what
the vendor billed is recorded, or lost by a fault, or the pending cost of a caller at
`record` (`ChargesCounted`); a caller that pays found room in a sum that leaves out only
the others (`RoomForPaying`). Only tasks that pay have a pending cost (`PayersOnly`), so the
debt is a dear call for each of them and for each fault. The debt is kept as a set whose
size is the unrecorded credits, since a sum over tasks would need induction.

**AMF.** `IInv` says that a run with an item at hand has one (`RunsHaveWork`), that of an item
never mistaken a run knows nothing or what its document says (`KnowledgeIsTrue`), that a row
seen is still there (`SeenExists`), and that a settled flag is the document's
(`FlagIsTrue`): so a run that overwrites another's price writes the same one. For
`CopiesBounded`, each step trades a poller about to insert for an event, or finds no event at
all (`CopiesStep`).

**Filings.** A run that holds the path of a document has it on disk (part of `RunOk`), and
files are never removed; a run that found none cannot clear a path, since the refresh
writes only where there was none. `GapsHaveCauses` needs to say what a run still has before it
(`Covers`): the rows left of its page, and unless the page is the last whatever the next one
shows from `FirstOf` down. While nothing is excused, a run that stores rows covers all that is
older than the row it is at (`Downward`), no row the job holds is shown again by the next page
(`JobApart`), and a gap below a stored offer is covered by the script, or by a job that has
the stored one behind it (`GapsCovered`): that one the job cannot stop at. When nothing runs,
nothing is covered, and no gap is left.

**The day.** `HeldInv` is the first two conjuncts of `NothingHeldAfterwards`; the third
follows, since a run that waits for the lock is not deciding. `DiskInv`: while nothing is
tangled, one run emits at a time, what it read of the index is still the index
(`ReadIsCurrent`), and its file shows its deal (`FileShowsDeal`). `LossInv`, for the loss
limit: two runs past the kill switch at once marked the day of the later one
(`OverlapsAreMarked`); on a day not marked, the table holds what the first run left
(`OpeningIsCommitted`), a later run neither sets a baseline nor has one to commit
(`NoSecondBaseline`), and a run that set none found the one it leaves (`BaselineWasFound`).
The committed date may go backwards, when a run of yesterday commits after one of today;
that marks today. `SleepInv`: a loop asleep wakes at the nine after the hour it went to sleep;
that this instant reads nine on either side of a change of the clocks, and that no earlier one
does, is arithmetic (`NextNineIsNine`, `TargetIsNext`). `TypeOK` needs `DealAtHand`, that a run emitting has a decided deal.

**Curation.** A script writes from rows it loaded before; `Loaded` says that a row it still
has to do was one it selects, and is as it was loaded or a French one a poller refreshed since,
with the same outcome for both. What a scoring script has read and not yet inserted (`pending`)
is such a row too: `Recent` says that a score made of it is one `RowInv` allows. `RowInv` is what a row's flag and parser version say about its
price and about each of its scores; the rows are independent, so each script's commit is one
lemma about one row. A score of a German deal without baseline is the exception
`ScoresFollowPrices` names: the run that would delete it compares with no price.

**Documents.** The curation takes what a parser makes of a document as data (`Reads`). The two
modules share no name but those of the library, so `DealCuration_proofs` extends both, and
`GermanReads` proves of the parser what `DataAssumption` takes for granted of German reads.
`DocInv`: a price is written once, and what the audit, the review and the re-run wrote of it is
still what they make of the text.
Then both properties are about texts. For `PricesAreOffered` each parser's price is the value of
an amount of the text (`AmfPriceIs`, `CashPriceIs`, `ConsobPriceIs`), and the pages
read are the beginning of the text (`PagesAre`). For `ToolsAgree`, nothing matters behind the fifth
page (`PagesCover`), so every tool reads the same clauses (`SameEnds`). A clause of the parser
ends at the nearest amount, and outside `ToolsDiffer` this is one the tools know too, close
enough by either count; a clause of a tool ends no sooner than the parser's from the
same anchor, hence at the same place (`ClauseIsNearest`, `ClausesAre`). All of the parser's
clauses are of one price, so its first is the audit's last (`ClauseIsRead`, `AnchoredIs`) and
the single value the review is sure of (`HighGuessIs`).

**Tickers.** Three things make the two sessions' writes fit together, of which no script knows
(`IInv`): a ticker is never taken back, neither by a session nor by what it commits over
(`TickersStay`); premiums, and the flag that one is out of bounds, are written by the script
alone, so the row's are the ones the script loaded (`PremiumsAreTheScripts`); and a row
that says `home_venue`, committed or in a session's hands, has a ticker, of the main market if
it is not torn (`HomesOk`). `WrittenKeeps` puts them together for one committed row, by which of
the two columns the session wrote. The rest is what each script makes of a row (`ApplyIs`,
`PreservedIs`, `PricedIs`, `DecidedIs`) and of OpenFIGI's rows (`AnswerIs`: a `home_venue` answer
is a listed row on a main-market venue of the country).

Only model-checked: the two violations, and liveness (`EventuallyStored`, `EventuallyPriced`,
`CallsEnd`, `EventuallyResolved`), which is out of the prover's reach, as are ENABLED, recursive
operators and induction over data (a sequence filtered by `SelectSeq`, a sum over a set). Every
invariant and every action property of the passing runs is proved.

## Divergences

Two are checked by a run that must find a violation:

* `retry` - `docs/TRADING.md:181`: "the same request never double-executes". The legs leave before
  SUBMITTED is committed (`executor.py:115`, `:119`); a crash between them leaves a PENDING row that is
  approved, and sent, again.
* `reopened` - `pricing/ticker_resolution.py:57-61`: an outcome flag must not be overwritten
  with the resolution source. `p14_resolve_fresh.py` selects flagged deals too, and puts
  `home_venue` back on a deal `p14_decide_fresh` excluded. (Its docstring, `:8`, also names a
  filter on `ticker_target` that is not in the query.)

Others are visible in the modules, which follow the code:

* `docs/TRADING.md:91`: the kill switch "halts before the next order". The cycle reads it once
  (`scheduler.py:141`); `StopLetsOneThrough` says how many orders follow.
* `docs/TRADING.md:111`: "a second open trade on the same deal is skipped". Two requests held for
  approval by two cycles are both sent: the test is skipped for a row that exists (`executor.py:65`).
* `docs/TRADING.md:93`: five positions. Orders still working do not count, approvals are not counted
  (`scheduler.py:235`).
* `docs/TRADING.md:80-81`: guardrails "applied last", min 1000 EUR. The minimum is tested on euros,
  before the quantity is rounded down to whole shares (`position_sizing.py:134`, `:145`).
* `docs/TRADING.md:96`, `:106`: `daily_pnl`, `trade_filled`, `stop_hit`, `reconnect()` and
  `heartbeat()` have no caller outside the tests. The daily loss guard compares a first run with itself
  (`scheduler.py:147`), so it can only act in a second run of the day; a NetLiq of 0.0 turns it off.
* `consob/poller.py:44-46`: the window "walks back far enough to catch all unseen filings". A run
  cut off after its newest row leaves a hole every later incremental run stops above.
* `consob/discovery.py:255`: a "stable dedup key". It changes when the document is linked, and
  the offer gets a second deal.
* `bafin/parser.py:6-7`: "better to skip a field than record a wrong value";
  `consob/parser.py:7-8`: "we'd rather skip a field than record a wrong value". Both
  normalisations drop every dot, and both expressions admit one before two decimals: "EUR 20.50"
  is stored as 2050, and flagged `verified_cash` by BaFin. Consob's also reads the last group of
  a number before "euro" whose groups it does not know ("2100,50" run together). `Misread` names
  these forms, and the French ones, of which no document speaks: "1.234 €" without decimals is 1.234.
* `p92_02b_pre_review.py:45` calls its principal clause "what the parser SHOULD
  anchor on". The parser's clause ends at the first euro amount behind the verb
  (`amf/parser.py:129`), introduced by "prix de" or not.
* The AMF parser counts 400 characters up to the amount (`amf/parser.py:129-130`), the audit and
  the pre-review up to "prix" (`p92_02b_ground_truth.py:46-48`, `p92_02b_pre_review.py:53-55`): of a price
  that starts some 401 to 417 characters behind "acquérir" the tools find the clause, and
  the parser takes the first amount of the document (`OutOfReach`).
* `amf_run_once.py` reads fields the poll result does not have; the RSS reference pattern and
  the `numero` of the BDIF search are of different forms; `bdif_fetcher.py` is used by tests only.
* `scheduler.py:284-285`: German deals without gate keep "ISIN-path behaviour". Live resolution
  stores a ticker, which `ticker_resolver.py:136-138` prefers, in EUR whatever the venue.
* `scheduler.py:280-283`: a gated deal is tradable "ONLY when it resolved to `home_venue`". A row's
  flag and ticker are columns of their own, and an UPDATE carries those that changed: when the
  cycle and a p13 or p14 script hold one deal and OpenFIGI's answer changes between their
  look-ups, one may leave its flag and the other its ticker, and `home_venue` stands beside a
  ticker of another venue. On a larger instance of `tickers`, with the target delisted and a cache
  file emptied by a crash, TLC finds such a row; `torn` marks it.
* `backfill_p92_02a.py`: the "defensive" re-check of the flag reads the row as loaded and cannot
  see a concurrent write; a further run deletes every French version-2 score, also the fresh ones.
* `promote_consob_flags_02d.py:30` names a companion script that does not exist; a second
  promotion takes `verified_mixed` back to `suspect_mixed`.
* `populate_deal_consideration.py:77`: "parser regression" is also raised for a legitimate mixed
  offer, whose clause the stricter expression of `_extract_consideration` does not match.

## Not modelled

* Scoring: fitting, features and calibration are floating point over pandas frames. What a
  score is computed from, where it is stored and when it is deleted is in `DealCuration`.
* Dashboard, Streamlit application and API: read-only queries and charts, no state.
* Core declarations, settings, logging, migrations, retraining, samples, clean-ups and
  preflights: no behaviour beyond one write by hand. `cleanup_amf_syn.py` and
  `collapse_fr_multistage.py` delete rows; no other module deletes deals.
* Document parsers: names, dates, deal types. Each is an independent search; no property
  relates one to another or to a state. A number that ends where an amount begins, with only blanks or
  a line break between, is read as a group of it (`[\s.]`); such texts are left out.
* `target_ticker_resolver.py`: a rule that rewrites names.
* IBKR: order id counter, reconnection, SELL candidates; a second operator session.
* `TradingCycle` and `TradingDay` are not composed: together their states are out of TLC's
  reach, and they share only the end of a cycle and the kill switch.
