---------------------------- MODULE AmfIngestion ----------------------------
(***************************************************************************)
(* The AMF (FR) pollers: src/ingestion/amf/{bdif_api,bdif_poller,service,  *)
(* rss_watcher,poller}.py.  The BDIF poller pages through a newest-first   *)
(* search, downloads the document of each item and upserts its deal; the   *)
(* RSS poller adds an event to a deal that a press release names.  Each of *)
(* the two runs as a scheduled job (one run at a time) and, in a process   *)
(* of its own, from a script.                                              *)
(*                                                                         *)
(* A row is committed by itself.  The event inserted with a deal is in the *)
(* deal's commit.  Pacing and retries of the requests are in PaidRequests. *)
(***************************************************************************)
EXTENDS Naturals, Sequences, FiniteSets, SequencesExt

CONSTANTS
    Offers,      \* how many items the search knows in the end
    Numberless,  \* those, by number, that come without a `numero`
    Bare,        \* those without an accessible document
    PriceIn,     \* what the document of an item says of the price
    PageSize,    \* items per page of the search
    JobCap,      \* max_items of the scheduled job
    ScriptCap,   \* max_items of the script
    Feed,        \* the entries of the RSS feed, in its order
    MaxFaults,   \* how many downloads and runs fail
    MaxPolls     \* how many RSS runs are started

ASSUME AmfAssumption ==
    /\ Offers \in Nat /\ Numberless \subseteq 1..Offers /\ Bare \subseteq 1..Offers
    /\ PriceIn \in [1..Offers -> {"silent", "inside", "outside"}]
    /\ PageSize \in Nat \ {0} /\ JobCap \in Nat \ {0} /\ ScriptCap \in Nat \ {0}
    /\ Feed \in Seq([ref : 0..Offers, linked : BOOLEAN])
    /\ MaxFaults \in Nat /\ MaxPolls \in Nat

VARIABLES
    listed,  \* how many items the search shows: listed, ..., 2, 1, newest first
    deals,   \* table `deals`, by numero
    files,   \* what lies under the document's path of an item
    junked,  \* history: items a download of which was not a document
    runs,    \* the BDIF run each process has in flight
    rss,     \* events stored for each entry of the feed
    polls,   \* the RSS run each process has in flight
    faults,  \* how many faults there were
    started  \* how many RSS runs were started

bdifVars == <<listed, deals, files, junked, runs>>
rssVars == <<rss, polls, started>>
vars == <<bdifVars, rssVars, faults>>

-----------------------------------------------------------------------------
Items == 1..Offers

Runners == {"job", "script"}

CapOf(r) == IF r = "job" THEN JobCap ELSE ScriptCap

\* A response row without the key parses to an empty numero.
Numbered(i) == i \notin Numberless

\* The first document that is accessible, if any.
HasPdf(i) == i \notin Bare

\* offer_price_quality_flag: suspect_low_unverified, verified_cash, failed_validation.
\* (the one a price was never found under, the two a document settled).
Flags == {"suspect", "verified", "failed"}

None == [path |-> FALSE, flag |-> "none"]

Deal == {None} \cup [path : BOOLEAN, flag : Flags]

\* What a run learns from the document: nothing without one.
Metadata == {"none", "silent", "inside", "outside"}

\* fetch: about to request a page; download, get, select, write: the item at the head
\* of rows is being stored, `seen` the deal as the select found it.
Run == [pc : {"idle", "fetch", "download", "get", "select", "write"}, offset : Nat,
        more : BOOLEAN, left : Nat, rows : Seq(Items), path : BOOLEAN,
        md : Metadata, seen : Deal]

NoRun == [pc |-> "idle", offset |-> 0, more |-> FALSE, left |-> 0, rows |-> <<>>,
          path |-> FALSE, md |-> "none", seen |-> None]

Entries == DOMAIN Feed

Poll == [pc : {"idle", "deal", "lookup", "insert"}, at : Nat]

NoPoll == [pc |-> "idle", at |-> 0]

TypeOK ==
    /\ listed \in 0..Offers
    /\ deals \in [Items -> Deal]
    /\ files \in [Items -> {"none", "junk", "pdf"}]
    /\ junked \subseteq Items
    /\ runs \in [Runners -> Run]
    /\ rss \in [Entries -> Nat]
    /\ polls \in [Runners -> Poll]
    /\ faults \in 0..MaxFaults
    /\ started \in 0..MaxPolls

Init ==
    /\ listed = 0
    /\ deals = [i \in Items |-> None]
    /\ files = [i \in Items |-> "none"]
    /\ junked = {}
    /\ runs = [r \in Runners |-> NoRun]
    /\ rss = [l \in Entries |-> 0]
    /\ polls = [r \in Runners |-> NoPoll]
    /\ faults = 0 /\ started = 0

-----------------------------------------------------------------------------
(* The BDIF search *)

\* Slip: one row more than the page holds, or than the search knows.
LongPageAt(offset) == [k \in 1..PageSize |-> listed - offset - k + 1]

\* The items offset+1, offset+2, ... of the newest-first order.
PageAt(offset) ==
    LET size == Min({PageSize, listed - offset})
    IN  IF listed <= offset THEN <<>> ELSE [k \in 1..size |-> listed - offset - k + 1]

StartRun(r) ==
    /\ runs[r].pc = "idle"
    /\ runs' = [runs EXCEPT ![r] = [NoRun EXCEPT !.pc = "fetch", !.left = CapOf(r)]]
    /\ UNCHANGED <<listed, deals, files, junked, rssVars, faults>>

\* An empty or short page is the last one, and so is one that reaches the total
\* the same response gave.
FetchPage(r) ==
    LET offset == runs[r].offset
        items  == PageAt(offset)
    IN  /\ runs[r].pc = "fetch"
        /\ runs' = [runs EXCEPT ![r] =
                       IF items = <<>> THEN NoRun
                       ELSE [@ EXCEPT !.pc = "download", !.rows = items,
                                      !.offset = offset + PageSize,
                                      !.more = /\ Len(items) = PageSize
                                               /\ offset + PageSize < listed]]
        /\ UNCHANGED <<listed, deals, files, junked, rssVars, faults>>

Item(r) == Head(runs[r].rows)

\* The generator hands out the next item, up to max_items of them.
Advanced(run) ==
    IF run.left = 1 THEN NoRun
    ELSE IF Len(run.rows) > 1
    THEN [NoRun EXCEPT !.pc = "download", !.left = run.left - 1, !.offset = run.offset,
                       !.more = run.more, !.rows = Tail(run.rows)]
    ELSE IF run.more THEN [NoRun EXCEPT !.pc = "fetch", !.left = run.left - 1,
                                        !.offset = run.offset]
    ELSE NoRun

-----------------------------------------------------------------------------
(* One item *)

\* The document as extract_pdf_metadata reads it: junk reads as a document without
\* a price, and so does a file fitz cannot open.
MetadataOf(i, file) ==
    CASE file = "none" -> "none"
      [] file = "junk" -> "silent"
      [] file = "pdf"  -> PriceIn[i]

\* A body is taken for a document when its content type says so or it is long enough,
\* so an error page may be.
Downloaded == {"none", "junk", "pdf"}

\* A file that is there is not fetched again.
LookForFile(r) ==
    LET i == Item(r)
    IN  /\ runs[r].pc = "download"
        /\ runs' = [runs EXCEPT ![r] =
                       IF HasPdf(i) /\ files[i] = "none" THEN [@ EXCEPT !.pc = "get"]
                       ELSE [@ EXCEPT !.pc = "select", !.path = HasPdf(i),
                                      !.md = MetadataOf(i, files[i])]]
        /\ UNCHANGED <<listed, deals, files, junked, rssVars, faults>>

\* A failed download leaves the item without its document; a fetched one is put in
\* place in one step, over what the other process may have put there, and parsed.
Download(r) ==
    LET i == Item(r)
    IN  /\ runs[r].pc = "get"
        /\ \E got \in Downloaded :
             /\ got # "pdf" => faults < MaxFaults
             /\ faults' = IF got # "pdf" THEN faults + 1 ELSE faults
             /\ files' = IF got = "none" THEN files ELSE [files EXCEPT ![i] = got]
             /\ junked' = IF got = "junk" THEN junked \cup {i} ELSE junked
             /\ runs' = [runs EXCEPT ![r].pc = "select", ![r].path = (got # "none"),
                                     ![r].md = MetadataOf(i, got)]
        /\ UNCHANGED <<listed, deals, rssVars>>

QualityFlag(md) ==
    CASE md \in {"none", "silent"} -> "suspect"
      [] md = "outside"            -> "failed"
      [] md = "inside"             -> "verified"

\* The first half of the upsert. An item without a number raises: the run ends.
Select(r) ==
    /\ runs[r].pc = "select"
    /\ runs' = [runs EXCEPT ![r] =
                   IF Numbered(Item(r))
                   THEN [@ EXCEPT !.pc = "write", !.seen = deals[Item(r)]]
                   ELSE NoRun]
    /\ UNCHANGED <<listed, deals, files, junked, rssVars, faults>>

\* Slip: what the run parsed replaces what the row says.
RefreshAlways(deal, run) == [path |-> deal.path \/ run.path, flag |-> QualityFlag(run.md)]

\* Slip: only the missing path of a row is refreshed.
RefreshPath(deal, run) == [path |-> deal.path \/ run.path, flag |-> deal.flag]

\* The columns the run writes to a row it found: a missing path, and price and flag
\* when there is a document and the flag it saw was the default.
Refreshed(deal, run) ==
    [path |-> deal.path \/ (run.path /\ ~run.seen.path),
     flag |-> IF run.md # "none" /\ run.seen.flag = "suspect"
              THEN QualityFlag(run.md) ELSE deal.flag]

\* The second half. When the other process inserted the deal since, the unique
\* constraint refuses the row and the exception ends the run.
Write(r) ==
    LET i    == Item(r)
        new  == runs[r].seen = None
        lost == new /\ deals[i] # None
    IN  /\ runs[r].pc = "write"
        /\ deals' = [deals EXCEPT ![i] =
                        IF lost THEN @
                        ELSE IF new THEN [path |-> runs[r].path, flag |-> QualityFlag(runs[r].md)]
                        ELSE Refreshed(@, runs[r])]
        /\ runs' = [runs EXCEPT ![r] = IF lost THEN NoRun ELSE Advanced(@)]
        /\ UNCHANGED <<listed, files, junked, rssVars, faults>>

\* A failed search, a failed write of the file, a database error or a crash.
CutRun(r) ==
    /\ faults < MaxFaults
    /\ runs[r].pc # "idle"
    /\ runs' = [runs EXCEPT ![r] = NoRun]
    /\ faults' = faults + 1
    /\ UNCHANGED <<listed, deals, files, junked, rssVars>>

-----------------------------------------------------------------------------
(* RSS events *)

\* The reference the title, link or summary of an entry names, 0 for none.
RefOf(l) == Feed[l].ref

Matched(l) == RefOf(l) # 0 /\ deals[RefOf(l)] # None

StartPoll(r) ==
    /\ polls[r].pc = "idle"
    /\ started < MaxPolls /\ Feed # <<>>
    /\ polls' = [polls EXCEPT ![r] = [pc |-> "deal", at |-> 1]]
    /\ started' = started + 1
    /\ UNCHANGED <<bdifVars, rss, faults>>

NextEntry(poll) ==
    IF poll.at < Len(Feed) THEN [pc |-> "deal", at |-> poll.at + 1] ELSE NoPoll

\* An entry without a reference, or with one no deal has, is dropped; one without a
\* link is not looked up.
FindDeal(r) ==
    LET l == polls[r].at
    IN  /\ polls[r].pc = "deal"
        /\ polls' = [polls EXCEPT ![r] =
                        IF ~Matched(l)
                        THEN NextEntry(@)
                        ELSE [@ EXCEPT !.pc = IF Feed[l].linked THEN "lookup" ELSE "insert"]]
        /\ UNCHANGED <<bdifVars, rss, started, faults>>

\* Slip: one event counts as none.
SeenTwice(l) == rss[l] > 1

AlreadyEmitted(l) == rss[l] > 0

LookUp(r) ==
    /\ polls[r].pc = "lookup"
    /\ polls' = [polls EXCEPT ![r] =
                    IF AlreadyEmitted(@.at) THEN NextEntry(@) ELSE [@ EXCEPT !.pc = "insert"]]
    /\ UNCHANGED <<bdifVars, rss, started, faults>>

\* No constraint on events: the row is inserted whatever was committed since.
Emit(r) ==
    /\ polls[r].pc = "insert"
    /\ rss' = [rss EXCEPT ![polls[r].at] = @ + 1]
    /\ polls' = [polls EXCEPT ![r] = NextEntry(@)]
    /\ UNCHANGED <<bdifVars, started, faults>>

CutPoll(r) ==
    /\ faults < MaxFaults
    /\ polls[r].pc # "idle"
    /\ polls' = [polls EXCEPT ![r] = NoPoll]
    /\ faults' = faults + 1
    /\ UNCHANGED <<bdifVars, rss, started>>

-----------------------------------------------------------------------------
Publish ==
    /\ listed < Offers
    /\ listed' = listed + 1
    /\ UNCHANGED <<deals, files, junked, runs, rssVars, faults>>

Step(r) ==
    FetchPage(r) \/ LookForFile(r) \/ Download(r) \/ Select(r) \/ Write(r)

RssStep(r) == FindDeal(r) \/ LookUp(r) \/ Emit(r)

Next ==
    \/ \E r \in Runners : StartRun(r) \/ Step(r) \/ CutRun(r)
    \/ \E r \in Runners : StartPoll(r) \/ RssStep(r) \/ CutPoll(r)
    \/ Publish

Spec == Init /\ [][Next]_vars

\* APScheduler starts the job again and again; a run that is not cut goes on.
FairSpec ==
    /\ Spec
    /\ WF_vars(StartRun("job"))
    /\ \A r \in Runners : WF_vars(Step(r))

-----------------------------------------------------------------------------
Settled(i) == deals[i].flag \in {"verified", "failed"}

\* Items a run of the job gets to: no item without a number is in its way.
InReach(i) ==
    /\ i <= listed /\ i > listed - JobCap
    /\ \A j \in i..listed : Numbered(j)

(***************************************************************************)
(* Failed downloads, cut-off runs, races for a row and items pushed to     *)
(* later pages only delay it: the price of a document within the job's     *)
(* reach is stored in the end (BdifPoller.run_once, again and again), or   *)
(* it leaves the reach, or an error page was kept as its document, which   *)
(* no later run replaces.                                                  *)
(***************************************************************************)
EventuallyPriced ==
    \A i \in Items :
        (InReach(i) /\ HasPdf(i) /\ PriceIn[i] # "silent")
            ~> (Settled(i) \/ ~InReach(i) \/ i \in junked)

\* service.py's guard on the flag: a price a document settled is never undone by a
\* run that failed to get the document, raced another or met the item twice; only an
\* error page in place of the document, read by one run and settled by the other, can.
PricesStaySettled ==
    [][\A i \in Items \ junked : Settled(i) => deals'[i].flag = deals[i].flag]_vars

\* The look-up of record_rss_event bounds the copies of an event without a constraint
\* in the schema: no entry with a link has more events than there are pollers.
CopiesBounded ==
    \A l \in Entries : Feed[l].linked =>
        rss[l] + Cardinality({r \in Runners : polls[r] = [pc |-> "insert", at |-> l]})
            <= Cardinality(Runners)

=============================================================================
