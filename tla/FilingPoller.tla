---------------------------- MODULE FilingPoller ----------------------------
(***************************************************************************)
(* The BaFin (DE) and Consob (IT) pollers: src/ingestion/{bafin,consob}    *)
(* discovery.py, poller.py, fetcher.py and service.py.  Both walk a        *)
(* newest-first listing, download the offer document of each row and      *)
(* upsert its deal; the scheduled job stops at the first row it knows, the *)
(* back-fill script does not.                                              *)
(*                                                                         *)
(* `deals` is the committed table.  Each row is committed by itself, so a  *)
(* run that is cut off keeps the rows it stored and loses nothing else.    *)
(*                                                                         *)
(* Data left out: everything parsed from a row or a document but the       *)
(* dedup key; the event inserted with a deal, in the same commit; rows     *)
(* without a date, which are always in the window.                         *)
(***************************************************************************)
EXTENDS Integers, FiniteSets

CONSTANTS
    Sites,    \* the regulators a model runs over: "DE" is BaFin, "IT" Consob
    Offers,   \* how many offers the regulator publishes
    Thin,     \* those, by number, whose row is dropped: no key (IT), no date (DE)
    PageSize, \* rows per page of the Consob listing
    MaxPages, \* pages the Consob job reads
    MaxCuts,  \* how many runs are cut off
    LateLinks \* whether a Consob row may be listed before its document is

ASSUME PollerAssumption ==
    /\ Sites \subseteq {"DE", "IT"}
    /\ Offers \in Nat /\ Thin \subseteq 1..Offers
    /\ PageSize \in Nat \ {0} /\ MaxPages \in Nat \ {0}
    /\ MaxCuts \in Nat /\ LateLinks \in BOOLEAN

VARIABLES
    site,     \* the regulator of this instance
    listed,   \* how many offers its listing shows: listed, ..., 2, 1, newest first
    linked,   \* those whose row links the offer document
    aged,     \* the oldest ones, so many, have left the job's window
    deals,    \* table `deals`, by regulator_ref
    files,    \* refs whose document is on disk
    runs,     \* the run each process has in flight
    cuts,     \* how many runs were cut off so far
    excused   \* history: something befell a run that may leave a gap

vars == <<site, listed, linked, aged, deals, files, runs, cuts, excused>>

-----------------------------------------------------------------------------
\* The scheduled job runs incrementally, one run at a time; the script back-fills.
Runners == {"job", "script"}

\* consob_ref is the slug of the linked document, or a slug of the names while
\* none is linked: <<f, TRUE>> and <<f, FALSE>>. bafin_ref is ISIN and date, and
\* every row of BaFin's listing links the page of its document.
Filings == 1..Offers

Ref == Filings \X BOOLEAN

RefOf(f) == <<f, f \in linked>>

\* fetch: about to request a page; visit: about to look a row up; download,
\* select, insert: the newest of the page's rows that are left is being stored.
Run == [pc : {"idle", "fetch", "visit", "download", "select", "insert"},
        page : Nat, last : BOOLEAN, rows : SUBSET Ref, path : BOOLEAN]

NoRun == [pc |-> "idle", page |-> 0, last |-> FALSE, rows |-> {}, path |-> FALSE]

TypeOK ==
    /\ site \in Sites
    /\ listed \in 0..Offers
    /\ linked \subseteq 1..listed
    /\ aged \in 0..listed
    /\ deals \in [Ref -> {"none", "bare", "filed"}]
    /\ files \subseteq Ref
    /\ runs \in [Runners -> Run]
    /\ cuts \in 0..MaxCuts
    /\ excused \in BOOLEAN

Init ==
    /\ site \in Sites
    /\ listed = 0 /\ linked = {} /\ aged = 0
    /\ deals = [ref \in Ref |-> "none"]
    /\ files = {}
    /\ runs = [r \in Runners |-> NoRun]
    /\ cuts = 0 /\ excused = FALSE

-----------------------------------------------------------------------------
(* Discovery *)

\* BaFin's listing is one page.
RowsPerPage == IF site = "DE" THEN Offers + 1 ELSE PageSize

\* Slip: a full page is taken for the last one.
EndsWhenFull(records) == Cardinality(records) <= RowsPerPage

IsLastPage(records) == Cardinality(records) < RowsPerPage

\* Consob's row gives a key; BaFin's has its five cells, a link and a date.
Keyed(f) == f \notin Thin

\* The newest offer that page p of the listing shows, if it shows any.
FirstOf(p) == listed - (p - 1) * RowsPerPage

\* Slip: the last page is filled up with rows that do not exist.
FullPage(p) == (FirstOf(p) - RowsPerPage + 1)..FirstOf(p)

\* Page p of the listing.
PageRows(p) == {f \in Filings : FirstOf(p) - RowsPerPage < f /\ f <= FirstOf(p)}

\* What is made of the page.
Records(p) == {f \in PageRows(p) : Keyed(f)}

\* The rows that reach back to the run's `since`; no row is older than the script's.
InWindow(r, f) == r = "job" => f > aged

PastCap(r) == site = "IT" /\ r = "job" /\ runs[r].page > MaxPages

StartRun(r) ==
    /\ runs[r].pc = "idle"
    /\ runs' = [runs EXCEPT ![r] = [NoRun EXCEPT !.pc = "fetch", !.page = 1]]
    /\ UNCHANGED <<site, listed, linked, aged, deals, files, cuts, excused>>

StopAtCap(r) ==
    /\ runs[r].pc = "fetch"
    /\ PastCap(r)
    /\ runs' = [runs EXCEPT ![r] = NoRun]
    /\ excused' = TRUE
    /\ UNCHANGED <<site, listed, linked, aged, deals, files, cuts>>

\* The run keeps the records inside its window. A page that has none ends the run;
\* so does one with few records, full of rows as it may be.
FetchPage(r) ==
    LET p       == runs[r].page
        records == Records(p)
        fresh   == {f \in records : InWindow(r, f)}
    IN  /\ runs[r].pc = "fetch"
        /\ ~PastCap(r)
        /\ runs' = [runs EXCEPT ![r] =
                       IF fresh = {} THEN NoRun
                       ELSE [@ EXCEPT !.pc = "visit", !.last = IsLastPage(records),
                                      !.rows = {RefOf(f) : f \in fresh}]]
        /\ excused' = (excused \/ (site = "IT" /\ records # PageRows(p)))
        /\ UNCHANGED <<site, listed, linked, aged, deals, files, cuts>>

-----------------------------------------------------------------------------
(* One row *)

\* Rows are taken in the order of the listing.
Newest(rows) == CHOOSE ref \in rows : \A other \in rows : other[1] <= ref[1]

Row(r) == Newest(runs[r].rows)

\* Slip: any stored deal counts.
AnyKnown(ref) == \E x \in Ref : deals[x] # "none"

RefAlreadyKnown(ref) == deals[ref] # "none"

\* The job stops for good at the first row it knows.
Visit(r) ==
    /\ runs[r].pc = "visit"
    /\ runs' = [runs EXCEPT ![r] =
                   IF r = "job" /\ RefAlreadyKnown(Row(r)) THEN NoRun
                   ELSE [@ EXCEPT !.pc = "download"]]
    /\ UNCHANGED <<site, listed, linked, aged, deals, files, cuts, excused>>

\* Slip: a failed download still returns the path it aimed at.
PathAimedAt(ref, got) == ref[2]

PathReturned(ref, got) == ref[2] /\ (ref \in files \/ got)

\* A file on disk is not fetched again; a row without a link has nothing to fetch;
\* any failure is logged and the row goes on without its document.
Download(r) ==
    \E got \in BOOLEAN :
        /\ runs[r].pc = "download"
        /\ runs' = [runs EXCEPT ![r].pc = "select",
                                ![r].path = PathReturned(Row(r), got)]
        /\ files' = files \cup (IF got /\ Row(r)[2] THEN {Row(r)} ELSE {})
        /\ UNCHANGED <<site, listed, linked, aged, deals, cuts, excused>>

\* Slip: the run's own outcome replaces the path of a deal it finds.
Overwritten(old, path) == IF path THEN "filed" ELSE "bare"

Refreshed(old, path) == IF old = "bare" /\ path THEN "filed" ELSE old

Advanced(run) ==
    LET left == run.rows \ {Newest(run.rows)}
    IN  IF left # {} THEN [run EXCEPT !.pc = "visit", !.rows = left, !.path = FALSE]
        ELSE IF run.last THEN NoRun
        ELSE [NoRun EXCEPT !.pc = "fetch", !.page = run.page + 1]

\* The first half of the upsert: a deal that exists only gets a missing path.
Select(r) ==
    /\ runs[r].pc = "select"
    /\ IF deals[Row(r)] = "none"
       THEN /\ runs' = [runs EXCEPT ![r].pc = "insert"]
            /\ UNCHANGED deals
       ELSE /\ runs' = [runs EXCEPT ![r] = Advanced(@)]
            /\ deals' = [deals EXCEPT ![Row(r)] = Refreshed(@, runs[r].path)]
    /\ UNCHANGED <<site, listed, linked, aged, files, cuts, excused>>

\* The second half. When the other process stored the ref since, the unique
\* constraint refuses the row and the exception ends the run.
Insert(r) ==
    /\ runs[r].pc = "insert"
    /\ IF deals[Row(r)] = "none"
       THEN /\ deals' = [deals EXCEPT ![Row(r)] = IF runs[r].path THEN "filed" ELSE "bare"]
            /\ runs' = [runs EXCEPT ![r] = Advanced(@)]
            /\ UNCHANGED excused
       ELSE /\ runs' = [runs EXCEPT ![r] = NoRun]
            /\ excused' = TRUE
            /\ UNCHANGED deals
    /\ UNCHANGED <<site, listed, linked, aged, files, cuts>>

\* A failed request, an exhausted credit budget, a database error or a crash.
Cut(r) ==
    /\ cuts < MaxCuts
    /\ runs[r].pc # "idle"
    /\ runs' = [runs EXCEPT ![r] = NoRun]
    /\ cuts' = cuts + 1
    /\ excused' = TRUE
    /\ UNCHANGED <<site, listed, linked, aged, deals, files>>

-----------------------------------------------------------------------------
(* The regulator's site and the calendar *)

\* The job has read a page and will ask for the next one.
BetweenPages ==
    LET run == runs["job"]
    IN  \/ run.pc = "fetch" /\ run.page > 1
        \/ run.pc \in {"visit", "download", "select", "insert"} /\ ~run.last

\* The rows of later pages move down by one.
Publish ==
    /\ listed < Offers
    /\ listed' = listed + 1
    /\ excused' = (excused \/ BetweenPages)
    /\ \/ linked' = linked \cup {listed + 1}
       \/ site = "IT" /\ LateLinks /\ UNCHANGED linked
    /\ UNCHANGED <<site, aged, deals, files, runs, cuts>>

\* A Consob row gets its document after a notice without one.
LinkDocument(f) ==
    /\ f \in (1..listed) \ linked
    /\ linked' = linked \cup {f}
    /\ UNCHANGED <<site, listed, aged, deals, files, runs, cuts, excused>>

Age ==
    /\ aged < listed
    /\ aged' = aged + 1
    /\ UNCHANGED <<site, listed, linked, deals, files, runs, cuts, excused>>

-----------------------------------------------------------------------------
Step(r) ==
    StopAtCap(r) \/ FetchPage(r) \/ Visit(r) \/ Download(r) \/ Select(r) \/ Insert(r)

Next ==
    \/ \E r \in Runners : StartRun(r) \/ Step(r) \/ Cut(r)
    \/ Publish
    \/ \E f \in Filings : LinkDocument(f)
    \/ Age

Spec == Init /\ [][Next]_vars

\* APScheduler starts the job again and again; a run that is not cut goes on.
FairSpec ==
    /\ Spec
    /\ WF_vars(StartRun("job"))
    /\ \A r \in Runners : WF_vars(Step(r))

-----------------------------------------------------------------------------
Stored(f) == \E b \in BOOLEAN : deals[<<f, b>>] # "none"

\* Rows of the job's window that can be stored at all.
Expected(f) == Keyed(f) /\ f > aged /\ f <= listed

(***************************************************************************)
(* The one mark a run leaves is the table itself: the job takes its newest *)
(* known row for "all below is stored". While nothing is running, that is  *)
(* so, or a run was cut, ran into the cap, met a page that shifted under   *)
(* it or one with an unreadable row (the pollers' _run).                   *)
(***************************************************************************)
GapHasCause ==
    (\A r \in Runners : runs[r].pc = "idle") /\ ~excused =>
        \A old, new \in Filings :
            old < new /\ Expected(old) /\ Stored(new) => Stored(old)

\* A deal that points at a document has it on disk: the file is put in place
\* before the row is written (fetcher.py's os.replace, service.py's pdf_path).
FileBeforeRow == \A ref \in Ref : deals[ref] = "filed" => ref \in files

\* No run undoes what another stored: deals stay, and one with its document keeps it
\* when a run that failed to download finds it (the services' refresh).
DocumentsKept ==
    [][\A ref \in Ref : /\ deals[ref] # "none" => deals'[ref] # "none"
                        /\ deals[ref] = "filed" => deals'[ref] = "filed"]_vars

\* A listed filing is stored, leaves the window, or one of the named causes arose.
EventuallyStored ==
    \A f \in Filings :
        Expected(f) ~> (Stored(f) \/ ~Expected(f) \/ excused)

=============================================================================
